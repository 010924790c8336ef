----------------------------- MODULE FlagOutbox -----------------------------
(***************************************************************************)
(* The durable outbox for read / star changes.                             *)
(*                                                                         *)
(* A request handler writes the new flag into the `messages' row, then     *)
(* upserts a row into `pending_flag_ops', then pokes the account's sync    *)
(* task.  The sync task pushes the outstanding rows to the mail server     *)
(* (flush_pending_flags), copies the server's flags back over the stored   *)
(* rows (reconcile_flags) and re-imports the rows above the folder cursor  *)
(* (persist_message_metadata_chunk, reapply_pending_flags).  None of these *)
(* share a transaction: every database statement and every provider call   *)
(* below is a step of its own, and user requests interleave with them.     *)
(*                                                                         *)
(* One account and one folder.  Uids 1..LastUid lie below the folder's     *)
(* cursor and are reconciled; the ones above it are stored rows that the   *)
(* next cycle imports again (an interrupted chunk, or the gap-limited      *)
(* cursor of an API provider).                                             *)
(***************************************************************************)
EXTENDS Integers, FiniteSets

CONSTANTS MaxUid,       \* highest stored uid
          LastUid,      \* folders.last_uid of the folder
          FlagChunk,    \* FLAG_CHUNK: uids per fetch_flags call
          Flag,         \* the flag columns under the outbox: "seen", "flagged"
          Req,          \* request handlers that may be in flight together
          MaxAttempts,  \* MAX_FLAG_PUSH_ATTEMPTS
          MaxChanges,   \* bound: user changes in a behaviour
          MaxRemote,    \* bound: changes made on the server by other devices
          MaxFaults     \* bound: interrupted cycles, restarts, failed statements

ASSUME ConstantAssumption ==
    /\ MaxUid \in Nat \ {0}
    /\ LastUid \in 0 .. MaxUid
    /\ FlagChunk \in Nat \ {0}
    /\ Flag \in SUBSET {"seen", "flagged"}
    /\ MaxAttempts \in Nat \ {0}
    /\ MaxChanges \in Nat /\ MaxRemote \in Nat /\ MaxFaults \in Nat

Uid == 1 .. MaxUid
Key == Uid \X Flag              \* UNIQUE (account_id, folder_path, uid, flag)

NoRow == [id |-> 0, value |-> FALSE, attempts |-> 0]
NoOp  == [id |-> 0, key |-> <<0, "none">>, value |-> FALSE, attempts |-> 0]

OpsOver(K) == [id : Nat \ {0}, key : K, value : BOOLEAN, attempts : 0 .. MaxAttempts - 1]

VARIABLES
    local,      \* messages.is_read / is_flagged, by key
    server,     \* the same flags on the mail server
    outbox,     \* pending_flag_ops, by key; NoRow where there is no row
    nextId,     \* AUTOINCREMENT of pending_flag_ops
    req,        \* in-flight handlers: the keys still to enqueue and the value
    flushQueued,\* a FlushFlags command waits in the task's channel
    pc,         \* where the sync task is
    inCycle,    \* TRUE in do_sync, FALSE in do_flush_pending_flags
    todo,       \* flush_pending_flags: snapshot rows not pushed yet
    cur,        \* the row being pushed
    accepted,   \* what set_flag returned for it
    pending,    \* reconcile_flags: keys with an outstanding push, read once
    start,      \* first uid of the current flag chunk
    seenFlags,  \* flags the server returned for the current chunk
    stored,     \* rows read for the current chunk
    changes, remotes, faults,   \* the bounds' counters
    raced,      \* history: keys changed while the task held older data on them
    released    \* history: keys another device changed, or whose push was given up

task == <<pc, inCycle, todo, cur, accepted, pending, start, seenFlags, stored>>
bounds == <<changes, remotes, faults>>
vars == <<local, server, outbox, nextId, req, flushQueued, task, bounds, raced, released>>

HasRow(k) == outbox[k] # NoRow
Blank == [k \in Key |-> FALSE]    \* a local that is out of scope
Idle == [keys |-> {}, value |-> FALSE]

Init ==
    /\ local \in [Key -> BOOLEAN] /\ server = local
    /\ outbox = [k \in Key |-> NoRow] /\ nextId = 1
    /\ req = [r \in Req |-> Idle] /\ flushQueued = FALSE
    /\ pc = "idle" /\ inCycle = FALSE /\ todo = {} /\ cur = NoOp /\ accepted = FALSE
    /\ pending = {} /\ start = 1 /\ seenFlags = Blank /\ stored = Blank
    /\ changes = 0 /\ remotes = 0 /\ faults = 0
    /\ raced = {} /\ released = {}

-----------------------------------------------------------------------------
(* Request handlers. *)

\* The UPDATE of the `messages' rows; the outbox rows follow one by one.
WriteRows(r, K, v) ==
    /\ changes < MaxChanges
    /\ req[r] = Idle
    /\ local' = [k \in Key |-> IF k \in K THEN v ELSE local[k]]
    /\ req' = [req EXCEPT ![r] = [keys |-> K, value |-> v]]
    /\ raced' = raced \cup K
    /\ changes' = changes + 1
    /\ UNCHANGED <<server, outbox, nextId, flushQueued, task, remotes, faults, released>>

\* mark_read, toggle_flag and each message of a thread's MarkRead.
SetFlag(r, k, v) == WriteRows(r, {k}, v)

\* The bulk "read" / "flag" action on the folder: one UPDATE, and a spawned task
\* that outlives the response enqueues the affected rows.
BulkAction(r, f) == WriteRows(r, Uid \X {f}, TRUE)

\* Fault: ON CONFLICT DO NOTHING.
UpsertedOnce(k, v) ==
    IF HasRow(k) THEN outbox ELSE [outbox EXCEPT ![k] = [id |-> nextId, value |-> v, attempts |-> 0]]

\* INSERT ... ON CONFLICT DO UPDATE SET value, attempts = 0: the row keeps its id.
Upserted(k, v) ==
    [outbox EXCEPT ![k] = [id |-> IF HasRow(k) THEN outbox[k].id ELSE nextId,
                           value |-> v, attempts |-> 0]]

\* The task holds data, read before this step, that it may still write over key k:
\* an older value to push, or flags that predate the change.
StaleDataInFlight(k, v) ==
    \/ \E op \in todo \cup {cur} : op.key = k /\ op.value # v
    \/ pc \in {"fetch", "stored"} /\ k \notin pending /\ k[1] \in start .. LastUid
    \/ pc = "apply" /\ k[1] \in start .. LastUid /\ (k \notin pending \/ stored[k] # v)

\* The handler is done with key k.
Handled(r, k) ==
    [req EXCEPT ![r] = IF req[r].keys = {k} THEN Idle
                       ELSE [keys |-> req[r].keys \ {k}, value |-> req[r].value]]

\* enqueue_flag_op for one key: upsert the row, then queue_flag_flush, whose
\* try_send may find no task or a full channel.
EnqueueFlagOp(r, k) ==
    LET v == req[r].value IN
    /\ k \in req[r].keys
    /\ outbox' = Upserted(k, v)
    /\ nextId' = IF HasRow(k) THEN nextId ELSE nextId + 1
    /\ req' = Handled(r, k)
    /\ flushQueued' \in {flushQueued, TRUE}
    /\ raced' = IF /\ local[k] = v
                   /\ \A q \in Req \ {r} : k \notin req[q].keys
                   /\ ~StaleDataInFlight(k, v)
                THEN raced \ {k} ELSE raced
    /\ UNCHANGED <<local, server, task, bounds, released>>

\* The upsert fails: "pending flag op not stored: message flag may revert".
EnqueueFails(r, k) ==
    /\ faults < MaxFaults
    /\ k \in req[r].keys
    /\ req' = Handled(r, k)
    /\ flushQueued' \in {flushQueued, TRUE}
    /\ faults' = faults + 1
    /\ UNCHANGED <<local, server, outbox, nextId, task, changes, remotes, raced, released>>

\* Another device, or the server's own rules, changes a flag.
RemoteChange(k) ==
    /\ remotes < MaxRemote
    /\ server' = [server EXCEPT ![k] = ~@]
    /\ remotes' = remotes + 1
    /\ released' = released \cup {k}
    /\ UNCHANGED <<local, outbox, nextId, req, flushQueued, task, changes, faults, raced>>

-----------------------------------------------------------------------------
(* The sync task: flushing the outbox. *)

\* FlushFlags received; do_flush_pending_flags returns early on an empty outbox.
ReceiveFlush ==
    /\ pc = "idle" /\ flushQueued
    /\ flushQueued' = FALSE
    /\ pc' = IF \E k \in Key : HasRow(k) THEN "snapshot" ELSE "idle"
    /\ inCycle' = FALSE
    /\ UNCHANGED <<local, server, outbox, nextId, req, todo, cur, accepted, pending,
                   start, seenFlags, stored, bounds, raced, released>>

\* The ticker fires or a ForcePoll is received: do_sync, sync_account.
BeginCycle ==
    /\ pc = "idle"
    /\ pc' = "snapshot" /\ inCycle' = TRUE
    /\ UNCHANGED <<local, server, outbox, nextId, req, flushQueued, todo, cur, accepted,
                   pending, start, seenFlags, stored, bounds, raced, released>>

\* SELECT id, ..., value, attempts FROM pending_flag_ops ORDER BY id.
PendingFlagOps ==
    {[id |-> outbox[k].id, key |-> k, value |-> outbox[k].value,
      attempts |-> outbox[k].attempts] : k \in {x \in Key : HasRow(x)}}

SnapshotOps ==
    /\ pc = "snapshot"
    /\ todo' = PendingFlagOps
    /\ pc' = "push"
    /\ UNCHANGED <<local, server, outbox, nextId, req, flushQueued, inCycle, cur, accepted,
                   pending, start, seenFlags, stored, bounds, raced, released>>

\* provider.set_flag: the server applies the snapshot's value and answers, or the
\* call fails before or after the server applied it.
PushFlag ==
    /\ pc = "push"
    /\ \E op \in todo :
        /\ \A other \in todo : op.id <= other.id
        /\ todo' = todo \ {op}
        /\ cur' = op
        /\ \E applied, answered \in BOOLEAN :
            /\ answered => applied
            /\ server' = IF applied THEN [server EXCEPT ![op.key] = op.value] ELSE server
            /\ accepted' = answered
    /\ pc' = "record"
    /\ UNCHANGED <<local, outbox, nextId, req, flushQueued, inCycle, pending, start,
                   seenFlags, stored, bounds, raced, released>>

\* Faults the properties must notice: the DELETE forgets its WHERE id; a refused push is
\* never given up.
RecordedWithoutId == [k \in Key |-> IF accepted THEN NoRow ELSE outbox[k]]
RecordedWithoutBudget ==
    [k \in Key |-> IF accepted /\ outbox[k].id = cur.id THEN NoRow ELSE outbox[k]]

\* DELETE ... WHERE id = ?, or UPDATE ... SET attempts = ? WHERE id = ?: only the
\* row that still has the pushed row's id is touched, whatever value it holds now.
Recorded ==
    [k \in Key |->
        IF outbox[k].id # cur.id \/ ~HasRow(k) THEN outbox[k]
        ELSE IF accepted \/ cur.attempts + 1 >= MaxAttempts THEN NoRow
        ELSE [outbox[k] EXCEPT !.attempts = cur.attempts + 1]]

RecordOutcome ==
    /\ pc = "record"
    /\ outbox' = Recorded
    /\ released' = IF accepted THEN released ELSE released \cup {k \in Key : HasRow(k) /\ outbox'[k] = NoRow}
    /\ pc' = "push" /\ cur' = NoOp /\ accepted' = FALSE
    /\ UNCHANGED <<local, server, nextId, req, flushQueued, inCycle, todo, pending, start,
                   seenFlags, stored, bounds, raced>>

\* `let _ = query.execute(db)': a failed statement is ignored.
RecordFails ==
    /\ pc = "record" /\ faults < MaxFaults
    /\ faults' = faults + 1
    /\ pc' = "push" /\ cur' = NoOp /\ accepted' = FALSE
    /\ UNCHANGED <<local, server, outbox, nextId, req, flushQueued, inCycle, todo, pending,
                   start, seenFlags, stored, changes, remotes, raced, released>>

\* The flush is done: a cycle goes on to the folder, which reconciles only if a
\* previous cycle got somewhere (prev_last_uid > 0).
FlushDone ==
    /\ pc = "push" /\ todo = {}
    /\ pc' = IF ~inCycle THEN "idle" ELSE IF LastUid > 0 THEN "pending" ELSE "import"
    /\ UNCHANGED <<local, server, outbox, nextId, req, flushQueued, inCycle, todo, cur,
                   accepted, pending, start, seenFlags, stored, bounds, raced, released>>

-----------------------------------------------------------------------------
(* The sync task: reconcile_flags over uids 1..LastUid. *)

ChunkEnd == IF start + FlagChunk - 1 < LastUid THEN start + FlagChunk - 1 ELSE LastUid
InChunk(k) == k[1] \in start .. ChunkEnd

\* pending_flags_by_uid, read once for the whole folder.
ReadPending ==
    /\ pc = "pending"
    /\ pending' = {k \in Key : HasRow(k)}
    /\ start' = 1
    /\ pc' = "fetch"
    /\ UNCHANGED <<local, server, outbox, nextId, req, flushQueued, inCycle, todo, cur,
                   accepted, seenFlags, stored, bounds, raced, released>>

\* Its unwrap_or_default: an unreadable outbox protects nothing.
ReadPendingFails ==
    /\ pc = "pending" /\ faults < MaxFaults
    /\ faults' = faults + 1
    /\ pending' = {}
    /\ start' = 1
    /\ pc' = "fetch"
    /\ raced' = raced \cup {k \in Key : HasRow(k)}
    /\ UNCHANGED <<local, server, outbox, nextId, req, flushQueued, inCycle, todo, cur,
                   accepted, seenFlags, stored, changes, remotes, released>>

FetchFlags ==
    /\ pc = "fetch"
    /\ seenFlags' = [k \in Key |-> InChunk(k) /\ server[k]]
    /\ pc' = "stored"
    /\ UNCHANGED <<local, server, outbox, nextId, req, flushQueued, inCycle, todo, cur,
                   accepted, pending, start, stored, bounds, raced, released>>

ReadStored ==
    /\ pc = "stored"
    /\ stored' = [k \in Key |-> InChunk(k) /\ local[k]]
    /\ pc' = "apply"
    /\ UNCHANGED <<local, server, outbox, nextId, req, flushQueued, inCycle, todo, cur,
                   accepted, pending, start, seenFlags, bounds, raced, released>>

\* Faults: the reconciliation or the restore forgets the outbox.
EffectiveIgnoringPending(k) == seenFlags[k]
RestoredNothing(f) == local

\* changed_message_flags: a pending flag keeps its stored value; the row is
\* written, both flags of it, when one of them differs from what was stored.
Effective(k) == IF k \in pending THEN stored[k] ELSE seenFlags[k]
RowChanged(u) == \E f \in Flag : Effective(<<u, f>>) # stored[<<u, f>>]
Reconciled ==
    [k \in Key |-> IF InChunk(k) /\ RowChanged(k[1]) THEN Effective(k) ELSE local[k]]

ApplyFlags ==
    /\ pc = "apply"
    /\ local' = Reconciled
    /\ IF ChunkEnd >= LastUid THEN pc' = "import" /\ start' = 1 /\ pending' = {}
                              ELSE pc' = "fetch" /\ start' = ChunkEnd + 1 /\ pending' = pending
    /\ seenFlags' = Blank /\ stored' = Blank
    /\ UNCHANGED <<server, outbox, nextId, req, flushQueued, inCycle, todo, cur, accepted,
                   bounds, raced, released>>

-----------------------------------------------------------------------------
(* The sync task: importing the uids above the cursor again. *)

\* highest_uid < uid_start returns; otherwise fetch_headers / fetch_full.
FetchChunk ==
    /\ pc = "import"
    /\ pc' = IF LastUid = MaxUid THEN "idle" ELSE "upsert"
    /\ seenFlags' = [k \in Key |-> k[1] > LastUid /\ server[k]]
    /\ UNCHANGED <<local, server, outbox, nextId, req, flushQueued, inCycle, todo, cur,
                   accepted, pending, start, stored, bounds, raced, released>>

\* persist_message_metadata_chunk: is_read = excluded.is_read, is_flagged likewise.
PersistMetadata ==
    /\ pc = "upsert"
    /\ local' = [k \in Key |-> IF k[1] > LastUid THEN seenFlags[k] ELSE local[k]]
    /\ pc' = "reapply_seen" /\ seenFlags' = Blank
    /\ UNCHANGED <<server, outbox, nextId, req, flushQueued, inCycle, todo, cur, accepted,
                   pending, start, stored, bounds, raced, released>>

\* reapply_pending_flags: RESTORE_SEEN and then RESTORE_FLAGGED.
Restored(f) ==
    [k \in Key |-> IF k[1] > LastUid /\ k[2] = f /\ HasRow(k) THEN outbox[k].value ELSE local[k]]

ReapplyPending(f, here, next) ==
    /\ pc = here
    /\ local' = Restored(f)
    /\ pc' = next
    /\ UNCHANGED <<server, outbox, nextId, req, flushQueued, inCycle, todo, cur, accepted,
                   pending, start, seenFlags, stored, bounds, raced, released>>

\* Keys whose imported row still waits for its pending value.
MidImport ==
    {k \in Key : /\ k[1] > LastUid
                 /\ \/ pc = "reapply_seen"
                    \/ pc = "reapply_flagged" /\ k[2] = "flagged"}

-----------------------------------------------------------------------------
(* Interruptions. *)

\* A provider error ends the cycle, the 30-minute timeout drops it, or the task is
\* aborted: the database keeps what was committed, the locals are gone.
TaskReset ==
    /\ pc' = "idle" /\ inCycle' = FALSE /\ todo' = {} /\ cur' = NoOp /\ accepted' = FALSE
    /\ pending' = {} /\ start' = 1 /\ seenFlags' = Blank /\ stored' = Blank

CycleInterrupted ==
    /\ pc # "idle" /\ faults < MaxFaults
    /\ faults' = faults + 1
    /\ TaskReset
    /\ raced' = raced \cup MidImport
    /\ UNCHANGED <<local, server, outbox, nextId, req, flushQueued, changes, remotes, released>>

\* The process stops and starts again: handlers and queued commands are gone too.
Restart ==
    /\ faults < MaxFaults
    /\ faults' = faults + 1
    /\ TaskReset
    /\ req' = [r \in Req |-> Idle] /\ flushQueued' = FALSE
    /\ raced' = raced \cup MidImport
    /\ UNCHANGED <<local, server, outbox, nextId, changes, remotes, released>>

-----------------------------------------------------------------------------
Handler == \E r \in Req, k \in Key : EnqueueFlagOp(r, k) \/ EnqueueFails(r, k)

FlushStep == SnapshotOps \/ PushFlag \/ RecordOutcome \/ RecordFails \/ FlushDone

FolderStep ==
    \/ ReadPending \/ ReadPendingFails \/ FetchFlags \/ ReadStored \/ ApplyFlags
    \/ FetchChunk \/ PersistMetadata
    \/ ReapplyPending("seen", "reapply_seen", "reapply_flagged")
    \/ ReapplyPending("flagged", "reapply_flagged", "idle")

Next ==
    \/ \E r \in Req, k \in Key, v \in BOOLEAN : SetFlag(r, k, v)
    \/ \E r \in Req, f \in Flag : BulkAction(r, f)
    \/ Handler
    \/ \E k \in Key : RemoteChange(k)
    \/ ReceiveFlush \/ BeginCycle \/ FlushStep \/ FolderStep
    \/ CycleInterrupted \/ Restart

\* Handlers run to their end and the task keeps taking steps: the tokio runtime
\* polls both, and the ticker always fires again.
Fairness == WF_vars(Handler) /\ WF_vars(BeginCycle \/ FlushStep \/ FolderStep)

Spec == Init /\ [][Next]_vars
FairSpec == Spec /\ Fairness

-----------------------------------------------------------------------------
(* Properties. *)

\* Type invariant: an outstanding row has spent less than the retry budget.
TypeOK ==
    /\ local \in [Key -> BOOLEAN] /\ server \in [Key -> BOOLEAN]
    /\ outbox \in [Key -> [id : Nat, value : BOOLEAN, attempts : 0 .. MaxAttempts - 1]]
    /\ nextId \in Nat \ {0}
    /\ req \in [Req -> [keys : SUBSET Key, value : BOOLEAN]]
    /\ flushQueued \in BOOLEAN
    /\ pc \in {"idle", "snapshot", "push", "record", "pending", "fetch", "stored", "apply",
               "import", "upsert", "reapply_seen", "reapply_flagged"}
    /\ inCycle \in BOOLEAN /\ accepted \in BOOLEAN
    /\ todo \in SUBSET OpsOver(Key)
    /\ cur \in OpsOver(Key) \cup {NoOp}
    /\ pending \in SUBSET Key
    /\ start \in 1 .. MaxUid
    /\ seenFlags \in [Key -> BOOLEAN] /\ stored \in [Key -> BOOLEAN]
    /\ changes \in 0 .. MaxChanges /\ remotes \in 0 .. MaxRemote /\ faults \in 0 .. MaxFaults
    /\ raced \in SUBSET Key /\ released \in SUBSET Key

\* While a change waits for the server, neither the reconciliation nor a second
\* import of the row takes it back: the stored flag is the outbox's value, unless
\* the change itself raced with a cycle that held older data (reconcile_flags,
\* reapply_pending_flags).
PendingWins ==
    \A k \in Key : HasRow(k) /\ k \notin raced \cup MidImport => local[k] = outbox[k].value

\* A change that met no race is never lost: it waits in the outbox, or the server
\* has it, whatever cycles, failed statements and restarts came in between, unless
\* another device changed the flag or the retry budget was spent.
UnracedChangeNotLost ==
    \A k \in Key : k \notin raced \cup released => HasRow(k) \/ server[k] = local[k]

Phase(k) ==
    IF k \in raced \cup released THEN "open" ELSE IF HasRow(k) THEN "waiting" ELSE "done"
Wish(k) == IF HasRow(k) THEN outbox[k].value ELSE local[k]

Intent == INSTANCE OutboxIntent WITH phase <- [k \in Key |-> Phase(k)],
                                     wish <- [k \in Key |-> Wish(k)]

\* The outbox implements OutboxIntent: from a change's acceptance until the server has
\* confirmed it, its value stands and is all that is pushed, and a change leaves the
\* outbox only when the server has its value; what was done stays as it is.  No snapshot
\* of the flush or of the reconciliation, failed statement or restart shows in it
\* without an excuse (enqueue_flag_op, flush_pending_flags, reconcile_flags).
OutboxKeepsIntent == Intent!Spec

\* Once users, devices and faults are quiet, the outbox drains and every stored
\* flag equals the server's: a refused push is given up rather than blocking the
\* reconciliation forever (MAX_FLAG_PUSH_ATTEMPTS).
Converges == <>[](\A k \in Key : ~HasRow(k) /\ local[k] = server[k])

\* What 0044_pending_flag_ops.sql says of the outbox: a row stays pending until
\* the server confirms it.  A row that leaves on an accepted push held the value
\* the server accepted.
ConfirmedBeforeRemoval ==
    [][\A k \in Key : HasRow(k) /\ ~HasRow(k)' /\ accepted => outbox[k].value = cur.value]_vars
=============================================================================
