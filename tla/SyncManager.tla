---------------------------- MODULE SyncManager ----------------------------
(***************************************************************************)
(* The registry of per-account sync tasks (mail-sync/src/manager.rs), the  *)
(* task's command loop and its IDLE child (mail-sync/src/sync.rs), and the *)
(* API handlers that start, stop, poll and command a task.                 *)
(*                                                                         *)
(* What a cycle or a command does to mail is FlagOutbox's and FolderSync's *)
(* subject; here a cycle only ends well, ends in error, or ends because    *)
(* OAuth has to be repeated.  JoinHandle::abort only asks: a cancelled     *)
(* task that is being polled runs on to its next suspension, so it may     *)
(* still finish the cycle it is in and write its status.                   *)
(***************************************************************************)
EXTENDS Integers, Sequences, SequencesExt, FiniteSets

CONSTANTS Accounts,      \* email_accounts ids
          IdleAccounts,  \* those with sync_mode = "idle" on an IMAP provider
          Stuck,         \* those whose task may hang (no fairness for it)
          Handlers,      \* concurrent API requests
          Moves,         \* IMapMove and IMapExpunge commands, each queued once
          Ops,           \* which requests are made (see OpNames)
          MaxTasks,      \* bound: tasks ever spawned
          Capacity       \* the channel's capacity: 32 in the code

OpNames == {"update_account", "delete_account", "trigger_sync",
            "delete_message", "move_message", "flush_flags"}
Signals == {"Shutdown", "ForcePoll", "FlushFlags"}

ASSUME ConstantAssumption ==
    /\ IdleAccounts \subseteq Accounts /\ Stuck \subseteq Accounts
    /\ Ops \subseteq OpNames
    /\ Moves \cap Signals = {} /\ "free" \notin Handlers
    /\ MaxTasks \in Nat \ {0} /\ Capacity \in Nat \ {0}

Tasks == 1 .. MaxTasks
NoTask == 0
Free == "free"
Absent == "absent"
Commands == Signals \cup Moves

VARIABLES
    row,       \* the email_accounts row exists
    registry,  \* SyncManager.tasks: account -> task, or NoTask
    lock,      \* the handler holding the tasks mutex, or Free
    status,    \* SyncManager.statuses: account -> state, or Absent
    task,      \* each task: its account, where it is, whether it was aborted
    chan,      \* each task's command channel
    idle,      \* where each task's IDLE child is
    handler,   \* where each API request is
    move       \* history: what became of each move

vars == <<row, registry, lock, status, task, chan, idle, handler, move>>
registryVars == <<row, registry, lock>>

Unborn == [pc |-> "unborn", account |-> NoTask, aborted |-> FALSE, cmd |-> "ForcePoll"]
Waiting == [pc |-> "idle", op |-> "flush_flags", account |-> NoTask, task |-> NoTask,
            cmd |-> "ForcePoll"]

Born(t) == task[t].pc # "unborn"
Gone(t) == task[t].pc = "gone"
Alive(t) == Born(t) /\ ~Gone(t) /\ ~task[t].aborted
HasRoomOffByOne(t) == Len(chan[t]) <= Capacity
HasRoom(t) == Len(chan[t]) < Capacity
Open(t) == t # NoTask /\ ~Gone(t)     \* the receiver of a sender's channel exists

Init ==
    /\ row = [a \in Accounts |-> TRUE]
    /\ registry = [a \in Accounts |-> NoTask]
    /\ lock = Free
    /\ status = [a \in Accounts |-> Absent]
    /\ task = [t \in Tasks |-> Unborn]
    /\ chan = [t \in Tasks |-> << >>]
    /\ idle = [t \in Tasks |-> "off"]
    /\ handler = [h \in Handlers |-> Waiting]
    /\ move = [m \in Moves |-> "new"]

-----------------------------------------------------------------------------
(* API requests.                                                           *)

Goto(h, pc) == handler' = [handler EXCEPT ![h].pc = pc]
Return(h) == handler' = [handler EXCEPT ![h] = Waiting]

(* The mutex guard is released when it goes out of scope. *)
Release(h) == lock' = IF lock = h THEN Free ELSE lock

(* Every account route first checks that the row exists. *)
Request(h, op, a, cmd, pc) ==
    /\ handler[h].pc = "idle"
    /\ op \in Ops
    /\ row[a]
    /\ handler' = [handler EXCEPT ![h] = [pc |-> pc, op |-> op, account |-> a,
                                          task |-> NoTask, cmd |-> cmd]]
    /\ UNCHANGED <<registryVars, status, task, chan, idle>>

(* The bound on tasks: each request that may start one can still do so. *)
SpawnsLeft ==
    Cardinality({h \in Handlers : handler[h].op \in {"update_account", "trigger_sync"}})
        < Cardinality({t \in Tasks : ~Born(t)})

(* update_account; create_account, the OAuth callback and the server's     *)
(* start call start_account alike.                                         *)
RequestStart(h, a) ==
    /\ SpawnsLeft
    /\ Request(h, "update_account", a, "ForcePoll", "start")
    /\ UNCHANGED move

RequestDelete(h, a) ==
    /\ Request(h, "delete_account", a, "ForcePoll", "stop")
    /\ UNCHANGED move

RequestPoll(h, a) ==
    /\ SpawnsLeft
    /\ Request(h, "trigger_sync", a, "ForcePoll", "lookup")
    /\ UNCHANGED move

RequestFlush(h, a) ==
    /\ Request(h, "flush_flags", a, "FlushFlags", "lookup")
    /\ UNCHANGED move

(* The message row is hidden before the command is queued. *)
RequestMove(h, a, m) ==
    /\ move[m] = "new"
    /\ \E op \in {"delete_message", "move_message"} : Request(h, op, a, m, "lookup")
    /\ move' = [move EXCEPT ![m] = "requested"]

(* Shutdown is queued if there is room, then the task is aborted. *)
WithShutdown(t) == IF Open(t) /\ HasRoom(t)
                   THEN [chan EXCEPT ![t] = Append(@, "Shutdown")] ELSE chan

CancelledNone(t) == task
Cancelled(t) == IF Open(t) THEN [task EXCEPT ![t].aborted = TRUE] ELSE task

(* start_account, first under the lock: the old task is replaced... *)
StartReplace(h) ==
    LET a == handler[h].account IN
    /\ handler[h].pc = "start"
    /\ lock = Free
    /\ lock' = h
    /\ chan' = WithShutdown(registry[a])
    /\ task' = Cancelled(registry[a])
    /\ registry' = [registry EXCEPT ![a] = NoTask]
    /\ Goto(h, "reset")
    /\ UNCHANGED <<row, status, idle, move>>

(* ... its status reset... *)
StartReset(h) ==
    /\ handler[h].pc = "reset"
    /\ status' = [status EXCEPT ![handler[h].account] = "idle"]
    /\ Goto(h, "spawn")
    /\ UNCHANGED <<registryVars, task, chan, idle, move>>

(* ... and the new one spawned and registered.  trigger_sync then polls    *)
(* the new task.                                                           *)
StartSpawn(h) ==
    LET a == handler[h].account IN
    /\ handler[h].pc = "spawn"
    /\ \E t \in Tasks :
        /\ ~Born(t) /\ \A s \in Tasks : s < t => Born(s)
        /\ task' = [task EXCEPT ![t].pc = "load", ![t].account = a]
        /\ registry' = [registry EXCEPT ![a] = t]
    /\ Release(h)
    /\ IF handler[h].op = "trigger_sync" THEN Goto(h, "relookup") ELSE Return(h)
    /\ UNCHANGED <<row, status, chan, idle, move>>

(* stop_account *)
StopTask(h) ==
    LET a == handler[h].account IN
    /\ handler[h].pc = "stop"
    /\ lock = Free
    /\ lock' = h
    /\ chan' = WithShutdown(registry[a])
    /\ task' = Cancelled(registry[a])
    /\ registry' = [registry EXCEPT ![a] = NoTask]
    /\ Goto(h, "forget")
    /\ UNCHANGED <<row, status, idle, move>>

StopForget(h) ==
    /\ handler[h].pc = "forget"
    /\ status' = [status EXCEPT ![handler[h].account] = Absent]
    /\ Release(h)
    /\ Goto(h, "delete")
    /\ UNCHANGED <<row, registry, task, chan, idle, move>>

DeleteRow(h) ==
    /\ handler[h].pc = "delete"
    /\ row' = [row EXCEPT ![handler[h].account] = FALSE]
    /\ Return(h)
    /\ UNCHANGED <<registry, lock, status, task, chan, idle, move>>

Sending(h) == IF handler[h].cmd \in Moves THEN "send"
              ELSE IF handler[h].pc = "relookup" THEN "retry" ELSE "try"

(* task_sender: the lock is held only to clone the sender. *)
LookupHolding(h) ==
    /\ handler[h].pc \in {"lookup", "relookup"}
    /\ lock = Free
    /\ handler' = [handler EXCEPT ![h].task = registry[handler[h].account],
                                  ![h].pc = Sending(h)]
    /\ lock' = h
    /\ UNCHANGED <<row, registry, status, task, chan, idle, move>>
Lookup(h) ==
    /\ handler[h].pc \in {"lookup", "relookup"}
    /\ lock = Free
    /\ handler' = [handler EXCEPT ![h].task = registry[handler[h].account],
                                  ![h].pc = Sending(h)]
    /\ UNCHANGED <<registryVars, status, task, chan, idle, move>>

(* force_poll and queue_flag_flush: never waits; a full channel drops the  *)
(* command.  Only trigger_sync looks at the answer: without a live task it *)
(* starts one.                                                             *)
TrySend(h) ==
    LET t == handler[h].task
        alive == Open(t)
    IN
    /\ handler[h].pc \in {"try", "retry"}
    /\ chan' = IF alive /\ HasRoom(t)
               THEN [chan EXCEPT ![t] = Append(@, handler[h].cmd)] ELSE chan
    /\ Release(h)
    /\ IF ~alive /\ handler[h].op = "trigger_sync" /\ handler[h].pc = "try"
       THEN Goto(h, "start") ELSE Return(h)
    /\ UNCHANGED <<row, registry, status, task, idle, move>>

(* After queueing its move, move_message polls; delete_message is done. *)
Queued(h) ==
    handler' = [handler EXCEPT ![h] =
        IF @.op = "move_message" THEN [@ EXCEPT !.cmd = "ForcePoll", !.pc = "lookup"] ELSE Waiting]

(* queue_imap_move, queue_imap_expunge: wait for capacity; without a task, *)
(* or when its receiver is dropped meanwhile, the command is lost.         *)
SendQueued(h) ==
    LET t == handler[h].task IN
    /\ handler[h].pc = "send"
    /\ Open(t) /\ HasRoom(t)
    /\ chan' = [chan EXCEPT ![t] = Append(@, handler[h].cmd)]
    /\ move' = [move EXCEPT ![handler[h].cmd] = "queued"]
    /\ Release(h)
    /\ Queued(h)
    /\ UNCHANGED <<row, registry, status, task, idle>>

SendRefused(h) ==
    LET t == handler[h].task IN
    /\ handler[h].pc = "send"
    /\ ~Open(t)
    /\ move' = [move EXCEPT ![handler[h].cmd] = "refused"]
    /\ Release(h)
    /\ Queued(h)
    /\ UNCHANGED <<row, registry, status, task, chan, idle>>

-----------------------------------------------------------------------------
(* The sync task.                                                          *)

TaskAt(t, pc) == task[t].pc = pc
TaskGoto(t, pc) == task' = [task EXCEPT ![t].pc = pc]
taskLeaves == <<registryVars, handler>>

(* What ends with a task: its receiver with the commands still queued, the *)
(* command it was executing, and its IDLE child (AbortOnDrop).             *)
Unfinished(t) == Moves \cap ({chan[t][i] : i \in DOMAIN chan[t]} \cup {task[t].cmd})
Finish(t) ==
    /\ task' = [task EXCEPT ![t] = [Unborn EXCEPT !.pc = "gone"]]
    /\ chan' = [chan EXCEPT ![t] = << >>]
    /\ idle' = [idle EXCEPT ![t] = "gone"]
    /\ move' = [m \in Moves |-> IF m \in Unfinished(t) THEN "lost" ELSE move[m]]

(* load_sync_task_context: without an account row the task returns. *)
LoadContext(t) ==
    /\ TaskAt(t, "load") /\ ~task[t].aborted
    /\ IF row[task[t].account]
       THEN TaskGoto(t, "check") /\ UNCHANGED <<chan, idle, move>> ELSE Finish(t)
    /\ UNCHANGED <<taskLeaves, status>>

(* Back to the select loop; after the first cycle the IDLE child starts. *)
Resume(t) ==
    /\ TaskGoto(t, "select")
    /\ idle' = [idle EXCEPT ![t] =
                    IF @ = "off" /\ task[t].account \in IdleAccounts THEN "connect" ELSE @]

(* do_sync: paused until OAuth is repeated... *)
CheckReauth(t) ==
    /\ TaskAt(t, "check")
    /\ IF status[task[t].account] = "reauth_required"
       THEN Resume(t) ELSE TaskGoto(t, "mark") /\ UNCHANGED idle
    /\ UNCHANGED <<taskLeaves, status, chan, move>>

(* ... marked as syncing (set_state creates a missing entry).  A cancelled *)
(* task is dropped where the cycle first waits.                            *)
BeginCycle(t) ==
    /\ TaskAt(t, "mark")
    /\ status' = [status EXCEPT ![task[t].account] = "syncing"]
    /\ IF task[t].aborted
       THEN Finish(t) ELSE TaskGoto(t, "cycle") /\ UNCHANGED <<chan, idle, move>>
    /\ UNCHANGED taskLeaves

CycleOutcomes == {"idle", "error", "reauth_required"}
OutcomesUnrecorded == {"idle", "syncing", "reauth_required"}
Outcomes == CycleOutcomes

(* sync_account ended, failed or ran into SYNC_CYCLE_TIMEOUT. *)
EndCycle(t) ==
    /\ TaskAt(t, "cycle")
    /\ \E outcome \in Outcomes : status' = [status EXCEPT ![task[t].account] = outcome]
    /\ Resume(t)
    /\ UNCHANGED <<taskLeaves, chan, move>>

Tick(t) ==
    /\ TaskAt(t, "select")
    /\ TaskGoto(t, "check")
    /\ UNCHANGED <<taskLeaves, status, chan, idle, move>>

NewestCommand(t) == Len(chan[t])
NextCommand(t) == 1

Received(t) == [chan EXCEPT ![t] = RemoveAt(@, NextCommand(t))]

(* rx.recv(): Shutdown ends the task, ForcePoll runs a cycle, the others   *)
(* open a connection of their own.                                         *)
Receive(t) ==
    LET c == chan[t][NextCommand(t)] IN
    /\ TaskAt(t, "select")
    /\ chan[t] # << >>
    /\ IF c = "Shutdown"
       THEN Finish(t)
       ELSE /\ task' = [task EXCEPT ![t].pc = IF c = "ForcePoll" THEN "check" ELSE "command",
                                    ![t].cmd = c]
            /\ chan' = Received(t)
            /\ UNCHANGED <<idle, move>>
    /\ UNCHANGED <<taskLeaves, status>>

(* do_imap_move, do_imap_expunge, do_flush_pending_flags: an error is only *)
(* logged.                                                                 *)
CommandDone(t) ==
    /\ TaskAt(t, "command") /\ ~task[t].aborted
    /\ IF task[t].cmd \in Moves
       THEN \E outcome \in {"done", "failed"} : move' = [move EXCEPT ![task[t].cmd] = outcome]
       ELSE UNCHANGED move
    /\ task' = [task EXCEPT ![t].pc = "select", ![t].cmd = "ForcePoll"]
    /\ UNCHANGED <<taskLeaves, status, chan, idle>>

(* The runtime drops a cancelled task at a suspension. *)
Drop(t) ==
    /\ Born(t) /\ ~Gone(t) /\ task[t].aborted
    /\ Finish(t)
    /\ UNCHANGED <<taskLeaves, status>>

-----------------------------------------------------------------------------
(* The IDLE child.                                                         *)

childLeaves == <<registryVars, status, task, handler, move>>

IdleStep(t, from, to) ==
    /\ idle[t] = from
    /\ idle' = [idle EXCEPT ![t] = to]
    /\ UNCHANGED <<childLeaves, chan>>

(* The first connection needs no catch-up poll, a reconnect does. *)
IdleConnect(t) == IdleStep(t, "connect", "watching")
IdleReconnect(t) == IdleStep(t, "backoff", "sending")
IdleActivity(t) == IdleStep(t, "watching", "sending")
IdleError(t) == IdleStep(t, "connect", "backoff") \/ IdleStep(t, "watching", "backoff")

(* tx.send(ForcePoll): waits for capacity. *)
IdlePoll(t) ==
    /\ idle[t] = "sending"
    /\ HasRoom(t)
    /\ chan' = [chan EXCEPT ![t] = Append(@, "ForcePoll")]
    /\ idle' = [idle EXCEPT ![t] = "watching"]
    /\ UNCHANGED childLeaves

-----------------------------------------------------------------------------
HandlerStep(h) ==
    \/ StartReplace(h) \/ StartReset(h) \/ StartSpawn(h)
    \/ StopTask(h) \/ StopForget(h) \/ DeleteRow(h)
    \/ Lookup(h) \/ TrySend(h) \/ SendQueued(h) \/ SendRefused(h)

NewRequest(h) ==
    \E a \in Accounts :
        \/ RequestStart(h, a) \/ RequestDelete(h, a) \/ RequestPoll(h, a) \/ RequestFlush(h, a)
        \/ \E m \in Moves : RequestMove(h, a, m)

TaskStep(t) ==
    \/ LoadContext(t) \/ CheckReauth(t) \/ BeginCycle(t) \/ EndCycle(t)
    \/ Tick(t) \/ CommandDone(t)

ChildStep(t) ==
    \/ IdleConnect(t) \/ IdleReconnect(t) \/ IdleActivity(t) \/ IdleError(t) \/ IdlePoll(t)

Next ==
    \/ \E h \in Handlers : NewRequest(h) \/ HandlerStep(h)
    \/ \E t \in Tasks : TaskStep(t) \/ Receive(t) \/ Drop(t) \/ ChildStep(t)

Spec == Init /\ [][Next]_vars

(* A task that is not stuck keeps running: its awaits are bounded by the   *)
(* cycle timeout, the provider's timeouts and the ticker.  The runtime     *)
(* makes every cancelled task yield (a hung await is a suspension too).    *)
(* Capacity is handed out in arrival order, and select! picks among ready  *)
(* branches at random: strong fairness for those two.  The server owes the *)
(* IDLE child nothing.                                                     *)
MayHang(t) == task[t].account \in Stuck

FairSpec ==
    /\ Spec
    /\ \A h \in Handlers : WF_vars(HandlerStep(h)) /\ SF_vars(SendQueued(h))
    /\ \A t \in Tasks :
        /\ WF_vars(~MayHang(t) /\ TaskStep(t))
        /\ SF_vars(~MayHang(t) /\ Receive(t))
        /\ WF_vars(Drop(t))

-----------------------------------------------------------------------------
(* Properties.                                                             *)

TaskRecord == [pc : {"unborn", "load", "check", "mark", "cycle", "select", "command", "gone"},
               account : Accounts \cup {NoTask}, aborted : BOOLEAN, cmd : Commands]
RequestRecord == [pc : {"idle", "start", "reset", "spawn", "stop", "forget", "delete", "lookup",
                        "relookup", "try", "retry", "send"},
                  op : OpNames, account : Accounts \cup {NoTask},
                  task : Tasks \cup {NoTask}, cmd : Commands]
ChildState == {"off", "connect", "watching", "sending", "backoff", "gone"}
MoveState == {"new", "requested", "queued", "refused", "done", "failed", "lost"}

(* Type invariant; a command channel never holds more than its capacity    *)
(* (mpsc::channel(32) in start_account).                                   *)
TypeOK ==
    /\ row \in [Accounts -> BOOLEAN]
    /\ registry \in [Accounts -> Tasks \cup {NoTask}]
    /\ lock \in Handlers \cup {Free}
    /\ status \in [Accounts -> CycleOutcomes \cup {"syncing", Absent}]
    /\ task \in [Tasks -> TaskRecord]
    /\ chan \in [Tasks -> Seq(Commands)] /\ \A t \in Tasks : Len(chan[t]) <= Capacity
    /\ idle \in [Tasks -> ChildState]
    /\ handler \in [Handlers -> RequestRecord]
    /\ move \in [Moves -> MoveState]

(* However starts, stops and manual polls interleave, a sync task that has *)
(* not been cancelled is the registered one: no account is ever synced by  *)
(* two tasks (start_account, stop_account).                                *)
OneTaskPerAccount ==
    \A t \in Tasks : Alive(t) => registry[task[t].account] = t

(* Requests return: also while an account's task hangs with a full         *)
(* channel.  Only queueing a move to that very account may wait.           *)
RequestsReturn ==
    \A h \in Handlers :
        handler[h].pc # "idle"
            ~> (handler[h].pc = "idle"
                \/ (handler[h].pc = "send" /\ handler[h].account \in Stuck))

(* A queued move is attempted unless its task hangs or is cancelled first, *)
(* however often IDLE and the ticker ask for cycles (the select loop is    *)
(* fair and the channel is first in, first out).                           *)
QueuedMoveAttempted ==
    \A m \in Moves : move[m] = "queued"
        ~> (move[m] \in {"done", "failed", "lost"}
            \/ \E t \in Tasks : MayHang(t) /\ m \in {chan[t][i] : i \in DOMAIN chan[t]} \cup {task[t].cmd})

(* An account that does not hang does not stay "syncing": every cycle's    *)
(* end is written to the status map, and a late write of a cancelled task  *)
(* is overwritten by its successor's cycle.                                *)
SyncingEnds ==
    \A a \in Accounts \ Stuck : status[a] = "syncing" ~> (status[a] # "syncing" \/ ~row[a])
=============================================================================
