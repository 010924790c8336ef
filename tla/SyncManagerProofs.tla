------------------------- MODULE SyncManagerProofs -------------------------
(***************************************************************************)
(* SyncManager's type invariant and the uniqueness of an account's task,   *)
(* for every set of accounts, requests and commands and every capacity.    *)
(*                                                                         *)
(* The argument is the critical section of start_account: from the moment  *)
(* the old task is cancelled until the new one is registered the mutex is  *)
(* held, and no task of the account that has not been cancelled exists.    *)
(*                                                                         *)
(* Then the cycle such a task runs (SyncCycle), for every set of folders,  *)
(* and with the lemmas about sums that its progress rests on the score of  *)
(* a message (PhishingScore), for every message and list of brands.        *)
(***************************************************************************)
EXTENDS SyncManager, SyncCycle, PhishingScore, SequenceTheorems, FiniteSetTheorems,
    WellFoundedInduction, NaturalsInduction, TLAPS

(* The mutex is held throughout start_account and stop_account. *)
LockHeld ==
    \A h \in Handlers : handler[h].pc \in {"reset", "spawn", "forget"} => lock = h

(* Between cancelling the old task and spawning the new one there is none. *)
Vacant ==
    \A h \in Handlers : handler[h].pc \in {"reset", "spawn"} =>
        \A t \in Tasks : Alive(t) => task[t].account # handler[h].account

(* A request under way and a task that runs have an account. *)
HaveAccounts ==
    /\ \A h \in Handlers : handler[h].pc # "idle" => handler[h].account \in Accounts
    /\ \A t \in Tasks : Born(t) /\ ~Gone(t) => task[t].account \in Accounts

Exclusion == LockHeld /\ Vacant /\ HaveAccounts /\ OneTaskPerAccount

IInv == TypeOK /\ Exclusion

USE DEF Commands, Signals, NoTask, Free, Absent

-----------------------------------------------------------------------------
(* What the channel operators return. *)

LEMMA RemovedFirst ==
    ASSUME NEW S, NEW s \in Seq(S), s # << >>
    PROVE  /\ RemoveAt(s, 1) \in Seq(S)
           /\ Len(RemoveAt(s, 1)) = Len(s) - 1
           /\ s[1] \in S
  <1>1. Tail(s) \in Seq(S) /\ Len(Tail(s)) = Len(s) - 1 /\ s[1] \in S
    BY HeadTailProperties
  <1>2. SubSeq(s, 1, 0) = << >>
    OBVIOUS
  <1>3. SubSeq(s, 2, Len(s)) = Tail(s)
    BY TailIsSubSeq
  <1>4. << >> \o Tail(s) = Tail(s)
    BY <1>1, ConcatEmptySeq
  <1>5. RemoveAt(s, 1) = Tail(s)
    BY <1>2, <1>3, <1>4 DEF RemoveAt
  <1>. QED  BY <1>1, <1>5

LEMMA Appended ==
    ASSUME TypeOK, NEW t \in Tasks, HasRoom(t), NEW c \in Commands
    PROVE  [chan EXCEPT ![t] = Append(@, c)] \in [Tasks -> Seq(Commands)]
           /\ \A s \in Tasks : Len([chan EXCEPT ![t] = Append(@, c)][s]) <= Capacity
  BY ConstantAssumption DEF TypeOK, HasRoom, Tasks

(* What each way of updating a request's record does. *)
PCs == {"idle", "start", "reset", "spawn", "stop", "forget", "delete", "lookup", "relookup",
        "try", "retry", "send"}
Others(h) == \A g \in Handlers : g # h => handler'[g] = handler[g]

LEMMA RequestFields ==
    ASSUME TypeOK, NEW h \in Handlers
    PROVE  /\ handler[h].pc \in PCs
           /\ handler[h].account \in Accounts \cup {NoTask}
           /\ handler[h].task \in Tasks \cup {NoTask} /\ handler[h].cmd \in Commands
           /\ handler[h].op \in OpNames
  <1>1. handler[h] \in RequestRecord
    BY DEF TypeOK
  <1>. QED  BY <1>1 DEF RequestRecord, PCs

LEMMA RecordSet ==
    ASSUME TypeOK, NEW h \in Handlers, NEW r \in RequestRecord,
           handler' = [handler EXCEPT ![h] = r]
    PROVE  handler' \in [Handlers -> RequestRecord] /\ handler'[h] = r /\ Others(h)
  BY DEF TypeOK, Others

LEMMA GotoFacts ==
    ASSUME TypeOK, NEW h \in Handlers, NEW pc \in PCs, Goto(h, pc)
    PROVE  /\ handler' \in [Handlers -> RequestRecord] /\ Others(h)
           /\ handler'[h].pc = pc /\ handler'[h].account = handler[h].account
  <1> DEFINE r == [handler[h] EXCEPT !.pc = pc]
  <1>1. handler[h] \in RequestRecord
    BY DEF TypeOK
  <1>2. r \in RequestRecord /\ r.pc = pc /\ r.account = handler[h].account
    BY <1>1 DEF RequestRecord, PCs
  <1>3. handler' = [handler EXCEPT ![h] = r]
    BY DEF Goto
  <1> HIDE DEF r
  <1>. QED  BY <1>2, <1>3, RecordSet

LEMMA ReturnFacts ==
    ASSUME TypeOK, NEW h \in Handlers, Return(h)
    PROVE  handler' \in [Handlers -> RequestRecord] /\ Others(h) /\ handler'[h].pc = "idle"
  <1>1. Waiting \in RequestRecord /\ Waiting.pc = "idle"
    BY DEF Waiting, RequestRecord, OpNames
  <1>. QED  BY <1>1, RecordSet DEF Return

LEMMA LookupFacts ==
    ASSUME IInv, NEW h \in Handlers, Lookup(h)
    PROVE  /\ handler' \in [Handlers -> RequestRecord] /\ Others(h)
           /\ handler'[h].pc \in {"send", "retry", "try"}
           /\ handler'[h].account = handler[h].account
  <1> DEFINE pc == Sending(h)
             t  == registry[handler[h].account]
             r  == [handler[h] EXCEPT !.task = t, !.pc = pc]
  <1>1. handler[h] \in RequestRecord
    BY DEF IInv, TypeOK
  <1>2. pc \in {"send", "retry", "try"} /\ t \in Tasks \cup {NoTask}
    BY DEF Sending, Lookup, IInv, TypeOK, Exclusion, HaveAccounts
  <1>3. handler' = [handler EXCEPT ![h] = r]
    BY <1>1 DEF Lookup, IInv, TypeOK
  <1> HIDE DEF pc, t
  <1>4. r \in RequestRecord /\ r.pc = pc /\ r.account = handler[h].account
    BY <1>1, <1>2 DEF RequestRecord
  <1> HIDE DEF r
  <1>. QED  BY <1>2, <1>3, <1>4, RecordSet DEF IInv

LEMMA QueuedFacts ==
    ASSUME TypeOK, NEW h \in Handlers, Queued(h)
    PROVE  /\ handler' \in [Handlers -> RequestRecord] /\ Others(h)
           /\ \/ handler'[h].pc = "idle"
              \/ handler'[h].pc = "lookup" /\ handler'[h].account = handler[h].account
  <1> DEFINE r == [handler[h] EXCEPT !.cmd = "ForcePoll", !.pc = "lookup"]
  <1>1. handler[h] \in RequestRecord
    BY DEF TypeOK
  <1>2. r \in RequestRecord /\ r.pc = "lookup" /\ r.account = handler[h].account
    BY <1>1 DEF RequestRecord
  <1>3. CASE handler[h].op = "move_message"
    <2>1. handler' = [handler EXCEPT ![h] = r]
      BY <1>3 DEF Queued, TypeOK
    <2> HIDE DEF r
    <2>. QED  BY <1>2, <2>1, RecordSet
  <1>4. CASE handler[h].op # "move_message"
    <2>1. Return(h)
      BY <1>4 DEF Queued, Return, TypeOK
    <2>. QED  BY <2>1, ReturnFacts
  <1>. QED  BY <1>3, <1>4

LEMMA TaskTypes ==
    ASSUME TypeOK, NEW t \in Tasks
    PROVE  /\ \A pc \in {"load", "check", "mark", "cycle", "select", "command", "gone"} :
                /\ [task EXCEPT ![t].pc = pc] \in [Tasks -> TaskRecord]
                /\ \A a \in Accounts :
                      [task EXCEPT ![t].pc = pc, ![t].account = a] \in [Tasks -> TaskRecord]
                /\ \A c \in Commands :
                      [task EXCEPT ![t].pc = pc, ![t].cmd = c] \in [Tasks -> TaskRecord]
           /\ [task EXCEPT ![t] = [Unborn EXCEPT !.pc = "gone"]] \in [Tasks -> TaskRecord]
           /\ [task EXCEPT ![t].aborted = TRUE] \in [Tasks -> TaskRecord]
           /\ task[t].account \in Accounts \cup {NoTask} /\ task[t].cmd \in Commands
           /\ task[t].aborted \in BOOLEAN
  <1>1. task[t] \in TaskRecord
    BY DEF TypeOK
  <1>2. [Unborn EXCEPT !.pc = "gone"] \in TaskRecord
    BY DEF Unborn, TaskRecord
  <1>3. \A r \in TaskRecord : [task EXCEPT ![t] = r] \in [Tasks -> TaskRecord]
    BY DEF TypeOK
  <1>4. \A pc \in {"load", "check", "mark", "cycle", "select", "command", "gone"} :
            /\ [task[t] EXCEPT !.pc = pc] \in TaskRecord
            /\ \A a \in Accounts : [task[t] EXCEPT !.pc = pc, !.account = a] \in TaskRecord
            /\ \A c \in Commands : [task[t] EXCEPT !.pc = pc, !.cmd = c] \in TaskRecord
    BY <1>1 DEF TaskRecord
  <1>5. [task[t] EXCEPT !.aborted = TRUE] \in TaskRecord
    BY <1>1 DEF TaskRecord
  <1>6. /\ task[t].account \in Accounts \cup {NoTask} /\ task[t].cmd \in Commands
        /\ task[t].aborted \in BOOLEAN
    BY <1>1 DEF TaskRecord
  <1>7. \A pc \in {"load", "check", "mark", "cycle", "select", "command", "gone"} :
            /\ [task EXCEPT ![t].pc = pc] \in [Tasks -> TaskRecord]
            /\ \A a \in Accounts :
                  [task EXCEPT ![t].pc = pc, ![t].account = a] \in [Tasks -> TaskRecord]
            /\ \A c \in Commands :
                  [task EXCEPT ![t].pc = pc, ![t].cmd = c] \in [Tasks -> TaskRecord]
    <2> TAKE pc \in {"load", "check", "mark", "cycle", "select", "command", "gone"}
    <2>1. [task EXCEPT ![t].pc = pc] \in [Tasks -> TaskRecord]
      BY <1>3, <1>4
    <2>2. ASSUME NEW a \in Accounts
          PROVE  [task EXCEPT ![t].pc = pc, ![t].account = a] \in [Tasks -> TaskRecord]
      BY <1>4 DEF TypeOK
    <2>3. ASSUME NEW c \in Commands
          PROVE  [task EXCEPT ![t].pc = pc, ![t].cmd = c] \in [Tasks -> TaskRecord]
      BY <1>4 DEF TypeOK
    <2>. QED  BY <2>1, <2>2, <2>3
  <1>8. /\ [task EXCEPT ![t] = [Unborn EXCEPT !.pc = "gone"]] \in [Tasks -> TaskRecord]
        /\ [task EXCEPT ![t].aborted = TRUE] \in [Tasks -> TaskRecord]
    BY <1>2, <1>3, <1>5
  <1>. QED  BY <1>6, <1>7, <1>8

LEMMA Initially == Init => IInv
  BY ConstantAssumption DEF Init, IInv, TypeOK, Exclusion, LockHeld, Vacant, HaveAccounts,
     OneTaskPerAccount, Unborn, Waiting, Alive, Born, Gone, CycleOutcomes, OpNames, Tasks,
     TaskRecord, RequestRecord, ChildState, MoveState

-----------------------------------------------------------------------------
(* Requests. *)

(* A step of a request that leaves tasks and registry alone keeps the      *)
(* exclusion, if it enters no critical section and keeps its account.      *)
LEMMA QuietRequest ==
    ASSUME IInv, NEW h \in Handlers, Others(h), UNCHANGED <<task, registry>>,
           \/ handler'[h].pc = "idle"
           \/ handler'[h].account \in Accounts
              /\ handler'[h].pc \notin {"idle", "reset", "spawn", "forget"}
           \/ handler[h].pc = "reset" /\ handler'[h].pc = "spawn"
              /\ handler'[h].account = handler[h].account,
           \/ lock' = lock
           \/ lock = h /\ handler'[h].pc \notin {"reset", "spawn", "forget"}
    PROVE  Exclusion'
  <1>1. LockHeld'
    BY DEF IInv, Exclusion, LockHeld, Others
  <1>2. Vacant'
    BY DEF IInv, Exclusion, Vacant, Others, Alive, Born, Gone
  <1>3. HaveAccounts'
    BY DEF IInv, Exclusion, HaveAccounts, Others, Born, Gone
  <1>4. OneTaskPerAccount'
    BY DEF IInv, Exclusion, OneTaskPerAccount, Alive, Born, Gone
  <1>. QED  BY <1>1, <1>2, <1>3, <1>4 DEF Exclusion

LEMMA RequestPreserves ==
    ASSUME IInv, NEW h \in Handlers, NEW op, NEW a \in Accounts, NEW cmd \in Commands,
           NEW pc \in {"start", "stop", "lookup"},
           Request(h, op, a, cmd, pc),
           move' \in [Moves -> MoveState]
    PROVE  IInv'
  <1> DEFINE r == [pc |-> pc, op |-> op, account |-> a, task |-> NoTask, cmd |-> cmd]
  <1>1. op \in OpNames
    BY ConstantAssumption DEF Request
  <1>2. r \in RequestRecord /\ r.pc = pc /\ r.account = a
    BY <1>1 DEF RequestRecord
  <1>3. handler' = [handler EXCEPT ![h] = r]
    BY DEF Request
  <1> HIDE DEF r
  <1>4. /\ handler' \in [Handlers -> RequestRecord] /\ Others(h)
        /\ handler'[h].pc = pc /\ handler'[h].account = a
    BY <1>2, <1>3, RecordSet DEF IInv
  <1>5. UNCHANGED <<row, registry, lock, status, task, chan, idle>>
    BY DEF Request, registryVars
  <1>6. TypeOK'
    BY <1>4, <1>5 DEF IInv, TypeOK
  <1>7. Exclusion'
    BY <1>4, <1>5, QuietRequest
  <1>. QED  BY <1>6, <1>7 DEF IInv

LEMMA NewRequestPreserves ==
    ASSUME IInv, NEW h \in Handlers, NewRequest(h)
    PROVE  IInv'
  <1>1. ASSUME NEW a \in Accounts, RequestStart(h, a)  PROVE IInv'
    BY <1>1, RequestPreserves DEF RequestStart, IInv, TypeOK
  <1>2. ASSUME NEW a \in Accounts, RequestDelete(h, a)  PROVE IInv'
    BY <1>2, RequestPreserves DEF RequestDelete, IInv, TypeOK
  <1>3. ASSUME NEW a \in Accounts, RequestPoll(h, a)  PROVE IInv'
    BY <1>3, RequestPreserves DEF RequestPoll, IInv, TypeOK
  <1>4. ASSUME NEW a \in Accounts, RequestFlush(h, a)  PROVE IInv'
    BY <1>4, RequestPreserves DEF RequestFlush, IInv, TypeOK
  <1>5. ASSUME NEW a \in Accounts, NEW m \in Moves, RequestMove(h, a, m)  PROVE IInv'
    <2>1. move' \in [Moves -> MoveState]
      BY <1>5 DEF RequestMove, IInv, TypeOK, MoveState
    <2>. QED  BY <1>5, <2>1, RequestPreserves DEF RequestMove
  <1>. QED  BY <1>1, <1>2, <1>3, <1>4, <1>5 DEF NewRequest

LEMMA QuietHandlerPreserves ==
    ASSUME IInv, NEW h \in Handlers,
           \/ StartReset(h) \/ StopForget(h) \/ DeleteRow(h) \/ Lookup(h)
           \/ TrySend(h) \/ SendQueued(h) \/ SendRefused(h)
    PROVE  IInv'
  <1>1. TypeOK /\ (handler[h].pc # "idle" => handler[h].account \in Accounts)
    BY DEF IInv, Exclusion, HaveAccounts
  <1>2. UNCHANGED <<registry, task, idle>>
    BY DEF StartReset, StopForget, DeleteRow, Lookup, TrySend, SendQueued, SendRefused,
       registryVars
  <1>3. CASE StartReset(h)
    <2>1. /\ handler' \in [Handlers -> RequestRecord] /\ Others(h)
          /\ handler'[h].pc = "spawn" /\ handler'[h].account = handler[h].account
      BY <1>1, <1>3, GotoFacts DEF StartReset, PCs
    <2>2. TypeOK'
      BY <1>1, <1>3, <2>1 DEF TypeOK, StartReset, registryVars, CycleOutcomes
    <2>. QED  BY <1>2, <1>3, <2>1, <2>2, QuietRequest DEF IInv, StartReset, registryVars
  <1>4. CASE StopForget(h)
    <2>1. /\ handler' \in [Handlers -> RequestRecord] /\ Others(h)
          /\ handler'[h].pc = "delete" /\ handler'[h].account = handler[h].account
      BY <1>1, <1>4, GotoFacts DEF StopForget, PCs
    <2>2. TypeOK'
      BY <1>1, <1>4, <2>1 DEF TypeOK, StopForget, Release
    <2>. QED  BY <1>1, <1>2, <1>4, <2>1, <2>2, QuietRequest DEF IInv, StopForget, Release
  <1>5. CASE DeleteRow(h)
    <2>1. handler' \in [Handlers -> RequestRecord] /\ Others(h) /\ handler'[h].pc = "idle"
      BY <1>1, <1>5, ReturnFacts DEF DeleteRow
    <2>2. TypeOK'
      BY <1>1, <1>5, <2>1 DEF TypeOK, DeleteRow
    <2>. QED  BY <1>2, <1>5, <2>1, <2>2, QuietRequest DEF IInv, DeleteRow
  <1>6. CASE Lookup(h)
    <2>1. /\ handler' \in [Handlers -> RequestRecord] /\ Others(h)
          /\ handler'[h].pc \in {"send", "retry", "try"}
          /\ handler'[h].account = handler[h].account
      BY <1>6, LookupFacts
    <2>2. TypeOK'
      BY <1>1, <1>6, <2>1 DEF TypeOK, Lookup, registryVars
    <2>. QED  BY <1>1, <1>2, <1>6, <2>1, <2>2, QuietRequest DEF IInv, Lookup, registryVars
  <1>7. ASSUME TrySend(h) \/ SendQueued(h)
        PROVE  chan' \in [Tasks -> Seq(Commands)] /\ \A s \in Tasks : Len(chan'[s]) <= Capacity
    <2> DEFINE t == handler[h].task
    <2>1. CASE chan' = chan
      BY <1>1, <2>1 DEF TypeOK
    <2>2. CASE Open(t) /\ HasRoom(t) /\ chan' = [chan EXCEPT ![t] = Append(@, handler[h].cmd)]
      <3>1. t \in Tasks /\ handler[h].cmd \in Commands
        BY <1>1, <2>2, RequestFields DEF Open
      <3>. QED  BY <1>1, <2>2, <3>1, Appended
    <2>. QED  BY <1>7, <2>1, <2>2 DEF TrySend, SendQueued
  <1>8. CASE TrySend(h)
    <2>1. /\ handler' \in [Handlers -> RequestRecord] /\ Others(h)
          /\ \/ handler'[h].pc = "idle"
             \/ handler'[h].pc = "start" /\ handler'[h].account = handler[h].account
      <3>1. Goto(h, "start") \/ Return(h)
        BY <1>8 DEF TrySend
      <3>. QED  BY <1>1, <3>1, GotoFacts, ReturnFacts DEF PCs
    <2>2. TypeOK'
      BY <1>1, <1>2, <1>7, <1>8, <2>1 DEF TypeOK, TrySend, Release
    <2>. QED  BY <1>1, <1>2, <1>8, <2>1, <2>2, QuietRequest DEF IInv, TrySend, Release
  <1>9. CASE SendQueued(h) \/ SendRefused(h)
    <2>1. /\ handler' \in [Handlers -> RequestRecord] /\ Others(h)
          /\ \/ handler'[h].pc = "idle"
             \/ handler'[h].pc = "lookup" /\ handler'[h].account = handler[h].account
      BY <1>1, <1>9, QueuedFacts DEF SendQueued, SendRefused
    <2>2. chan' \in [Tasks -> Seq(Commands)] /\ \A s \in Tasks : Len(chan'[s]) <= Capacity
      BY <1>1, <1>7, <1>9 DEF SendRefused, TypeOK
    <2>3. move' \in [Moves -> MoveState] /\ lock' = IF lock = h THEN Free ELSE lock
      BY <1>1, <1>9 DEF TypeOK, SendQueued, SendRefused, Release, MoveState
    <2>4. TypeOK'
      BY <1>1, <1>2, <1>9, <2>1, <2>2, <2>3 DEF TypeOK, SendQueued, SendRefused
    <2>. QED  BY <1>1, <1>2, <1>9, <2>1, <2>3, <2>4, QuietRequest DEF IInv, SendQueued, SendRefused
  <1>. QED  BY <1>3, <1>4, <1>5, <1>6, <1>8, <1>9

-----------------------------------------------------------------------------
(* start_account and stop_account. *)

(* Shutdown fits or is dropped; aborting changes nothing else of the task. *)
LEMMA ReplaceTypes ==
    ASSUME TypeOK, NEW t \in Tasks \cup {NoTask}
    PROVE  /\ WithShutdown(t) \in [Tasks -> Seq(Commands)]
           /\ \A s \in Tasks : Len(WithShutdown(t)[s]) <= Capacity
           /\ Cancelled(t) \in [Tasks -> TaskRecord]
           /\ \A s \in Tasks :
                /\ Cancelled(t)[s].pc = task[s].pc
                /\ Cancelled(t)[s].account = task[s].account
                /\ (s = t) => (Cancelled(t)[s].aborted \/ Gone(s))
                /\ task[s].aborted => Cancelled(t)[s].aborted
  <1>1. CASE Open(t)
    <2>1. t \in Tasks /\ "Shutdown" \in Commands
      BY <1>1 DEF Open
    <2>2. /\ WithShutdown(t) \in [Tasks -> Seq(Commands)]
          /\ \A s \in Tasks : Len(WithShutdown(t)[s]) <= Capacity
      BY <1>1, <2>1, Appended DEF WithShutdown, TypeOK
    <2> DEFINE r == [task[t] EXCEPT !.aborted = TRUE]
    <2>3. task[t] \in TaskRecord
      BY <2>1 DEF TypeOK
    <2>4. /\ r \in TaskRecord /\ r.aborted
          /\ r.pc = task[t].pc /\ r.account = task[t].account
      BY <2>3 DEF TaskRecord
    <2>5. Cancelled(t) = [task EXCEPT ![t] = r]
      BY <1>1 DEF Cancelled
    <2> HIDE DEF r
    <2>. QED  BY <2>1, <2>2, <2>4, <2>5 DEF TypeOK
  <1>2. CASE ~Open(t)
    <2>1. WithShutdown(t) = chan /\ Cancelled(t) = task
      BY <1>2 DEF WithShutdown, Cancelled
    <2>. QED  BY <1>2, <2>1 DEF TypeOK, Open, Gone, Tasks
  <1>. QED  BY <1>1, <1>2

LEMMA ReplacePreserves ==
    ASSUME IInv, NEW h \in Handlers, StartReplace(h) \/ StopTask(h)
    PROVE  IInv'
  <1> DEFINE a == handler[h].account
             t == registry[a]
  <1>1. /\ TypeOK /\ a \in Accounts /\ t \in Tasks \cup {NoTask}
        /\ lock = Free /\ lock' = h
        /\ chan' = WithShutdown(t) /\ task' = Cancelled(t)
        /\ registry' = [registry EXCEPT ![a] = NoTask]
        /\ UNCHANGED <<row, status, idle, move>>
    BY DEF IInv, TypeOK, Exclusion, HaveAccounts, StartReplace, StopTask
  <1>2. /\ handler' \in [Handlers -> RequestRecord] /\ Others(h)
        /\ handler'[h].pc \in {"reset", "forget"} /\ handler'[h].account = a
    BY <1>1, GotoFacts DEF StartReplace, StopTask, PCs
  <1>3. TypeOK'
    <2>1. chan' \in [Tasks -> Seq(Commands)] /\ \A s \in Tasks : Len(chan'[s]) <= Capacity
      BY <1>1, ReplaceTypes
    <2>2. task' \in [Tasks -> TaskRecord]
      BY <1>1, ReplaceTypes
    <2>. QED  BY <1>1, <1>2, <2>1, <2>2 DEF TypeOK
  <1>4. \A s \in Tasks : /\ task'[s].pc = task[s].pc /\ task'[s].account = task[s].account
                         /\ (s = t) => (task'[s].aborted \/ Gone(s))
                         /\ task[s].aborted => task'[s].aborted
    BY <1>1, ReplaceTypes
  <1>5. \A s \in Tasks : Alive(s)' => Alive(s) /\ s # t
    BY <1>4 DEF Alive, Born, Gone
  <1>6. \A g \in Handlers : handler[g].pc \notin {"reset", "spawn", "forget"}
    BY <1>1, ConstantAssumption DEF IInv, Exclusion, LockHeld
  <1>7. LockHeld'
    BY <1>1, <1>2, <1>6 DEF LockHeld, Others
  <1>8. Vacant'
    <2>1. \A s \in Tasks : Alive(s)' => task'[s].account # a
      BY <1>4, <1>5 DEF IInv, Exclusion, OneTaskPerAccount
    <2>2. \A g \in Handlers : g # h => handler'[g].pc \notin {"reset", "spawn"}
      BY <1>2, <1>6 DEF Others
    <2>. QED  BY <1>2, <2>1, <2>2 DEF Vacant
  <1>9. HaveAccounts'
    <2>1. \A s \in Tasks : (Born(s) /\ ~Gone(s))' => task'[s].account \in Accounts
      BY <1>4 DEF IInv, Exclusion, HaveAccounts, Born, Gone
    <2>2. \A g \in Handlers : handler'[g].pc # "idle" => handler'[g].account \in Accounts
      BY <1>1, <1>2 DEF IInv, Exclusion, HaveAccounts, Others
    <2>. QED  BY <2>1, <2>2 DEF HaveAccounts
  <1>10. OneTaskPerAccount'
    <2>1. \A s \in Tasks : Alive(s)' => task[s].account # a
      BY <1>5 DEF IInv, Exclusion, OneTaskPerAccount
    <2>2. \A b \in Accounts : b # a => registry'[b] = registry[b]
      BY <1>1 DEF TypeOK
    <2>. QED  BY <1>4, <1>5, <2>1, <2>2 DEF IInv, Exclusion, OneTaskPerAccount, HaveAccounts, Alive
  <1>. QED  BY <1>3, <1>7, <1>8, <1>9, <1>10 DEF IInv, Exclusion

LEMMA SpawnPreserves ==
    ASSUME IInv, NEW h \in Handlers, StartSpawn(h)
    PROVE  IInv'
  <1> DEFINE a == handler[h].account
  <1>1. PICK t \in Tasks :
            /\ ~Born(t)
            /\ task' = [task EXCEPT ![t].pc = "load", ![t].account = a]
            /\ registry' = [registry EXCEPT ![a] = t]
    BY DEF StartSpawn
  <1>2. /\ TypeOK /\ a \in Accounts /\ handler[h].pc = "spawn" /\ lock = h /\ lock' = Free
        /\ UNCHANGED <<row, status, chan, idle, move>>
    BY DEF IInv, TypeOK, Exclusion, HaveAccounts, LockHeld, StartSpawn, Release
  <1>3. /\ handler' \in [Handlers -> RequestRecord] /\ Others(h)
        /\ \/ handler'[h].pc = "idle"
           \/ handler'[h].pc = "relookup" /\ handler'[h].account = a
    <2>1. Goto(h, "relookup") \/ Return(h)
      BY DEF StartSpawn
    <2>. QED  BY <1>2, <2>1, GotoFacts, ReturnFacts DEF PCs
  <1> DEFINE r == [task[t] EXCEPT !.pc = "load", !.account = a]
  <1>4. r \in TaskRecord /\ r.pc = "load" /\ r.account = a
    <2>1. task[t] \in TaskRecord
      BY <1>2 DEF TypeOK
    <2>. QED  BY <1>2, <2>1 DEF TaskRecord
  <1>5. task' = [task EXCEPT ![t] = r]
    BY <1>1, <1>2 DEF TypeOK
  <1> HIDE DEF r
  <1>6. /\ task' \in [Tasks -> TaskRecord] /\ task'[t] = r
        /\ \A s \in Tasks : s # t => task'[s] = task[s]
    BY <1>2, <1>4, <1>5 DEF TypeOK
  <1>7. TypeOK'
    BY <1>1, <1>2, <1>3, <1>6 DEF TypeOK
  <1>8. \A g \in Handlers : g # h => handler[g].pc \notin {"reset", "spawn", "forget"}
    BY <1>2 DEF IInv, Exclusion, LockHeld
  <1>9. LockHeld' /\ Vacant'
    BY <1>3, <1>8 DEF LockHeld, Vacant, Others
  <1>10. HaveAccounts'
    BY <1>2, <1>3, <1>4, <1>6 DEF IInv, Exclusion, HaveAccounts, Born, Gone, Others
  <1>11. OneTaskPerAccount'
    <2>1. \A s \in Tasks : Alive(s) => task[s].account # a /\ s # t
      BY <1>1, <1>2 DEF IInv, Exclusion, Vacant, Alive
    <2>2. registry'[a] = t /\ \A b \in Accounts : b # a => registry'[b] = registry[b]
      BY <1>1, <1>2 DEF TypeOK
    <2>3. \A s \in Tasks : s # t /\ Alive(s)' => Alive(s)
      BY <1>6 DEF Alive, Born, Gone
    <2>. QED  BY <1>2, <1>4, <1>6, <2>1, <2>2, <2>3 DEF IInv, Exclusion, OneTaskPerAccount,
              HaveAccounts, Alive
  <1>. QED  BY <1>7, <1>9, <1>10, <1>11 DEF IInv, Exclusion

LEMMA HandlerPreserves ==
    ASSUME IInv, NEW h \in Handlers, HandlerStep(h)
    PROVE  IInv'
  BY QuietHandlerPreserves, ReplacePreserves, SpawnPreserves DEF HandlerStep

-----------------------------------------------------------------------------
(* Tasks. *)

(* The steps of a task leave requests, registry and mutex alone; they may  *)
(* end it, never revive it, and never move it to another account.          *)
OtherTasks(t) == \A s \in Tasks : s # t => task'[s] = task[s]
KeepsAccount(t) ==
    \/ task'[t].pc = "gone"
    \/ /\ task'[t].pc # "unborn" /\ task'[t].account = task[t].account
       /\ task'[t].aborted = task[t].aborted

LEMMA QuietTask ==
    ASSUME IInv, NEW t \in Tasks, Born(t), ~Gone(t), OtherTasks(t), KeepsAccount(t),
           UNCHANGED <<registry, lock, handler>>
    PROVE  Exclusion'
  <1>1. \A s \in Tasks : Alive(s)' => Alive(s) /\ task'[s].account = task[s].account
    BY DEF Alive, Born, Gone, OtherTasks, KeepsAccount
  <1>2. LockHeld'
    BY DEF IInv, Exclusion, LockHeld
  <1>3. Vacant'
    BY <1>1 DEF IInv, Exclusion, Vacant
  <1>4. HaveAccounts'
    BY DEF IInv, Exclusion, HaveAccounts, Born, Gone, OtherTasks, KeepsAccount
  <1>5. OneTaskPerAccount'
    BY <1>1 DEF IInv, Exclusion, OneTaskPerAccount
  <1>. QED  BY <1>2, <1>3, <1>4, <1>5 DEF Exclusion

LEMMA TaskSet ==
    ASSUME TypeOK, NEW t \in Tasks, NEW r \in TaskRecord, task' = [task EXCEPT ![t] = r]
    PROVE  task' \in [Tasks -> TaskRecord] /\ task'[t] = r /\ OtherTasks(t)
  BY DEF TypeOK, OtherTasks

LEMMA TaskGotoFacts ==
    ASSUME TypeOK, NEW t \in Tasks,
           NEW pc \in {"check", "mark", "cycle", "select", "command"}, TaskGoto(t, pc)
    PROVE  task' \in [Tasks -> TaskRecord] /\ OtherTasks(t) /\ KeepsAccount(t)
  <1> DEFINE r == [task[t] EXCEPT !.pc = pc]
  <1>1. task[t] \in TaskRecord
    BY DEF TypeOK
  <1>2. /\ r \in TaskRecord /\ r.pc = pc
        /\ r.account = task[t].account /\ r.aborted = task[t].aborted
    BY <1>1 DEF TaskRecord
  <1>3. task' = [task EXCEPT ![t] = r]
    BY DEF TaskGoto
  <1> HIDE DEF r
  <1>. QED  BY <1>2, <1>3, TaskSet DEF KeepsAccount

LEMMA CommandFacts ==
    ASSUME TypeOK, NEW t \in Tasks, NEW pc \in {"check", "select", "command"},
           NEW c \in Commands, task' = [task EXCEPT ![t].pc = pc, ![t].cmd = c]
    PROVE  task' \in [Tasks -> TaskRecord] /\ OtherTasks(t) /\ KeepsAccount(t)
  <1> DEFINE r == [task[t] EXCEPT !.pc = pc, !.cmd = c]
  <1>1. task[t] \in TaskRecord
    BY DEF TypeOK
  <1>2. /\ r \in TaskRecord /\ r.pc = pc
        /\ r.account = task[t].account /\ r.aborted = task[t].aborted
    BY <1>1 DEF TaskRecord
  <1>3. task' = [task EXCEPT ![t] = r]
    BY DEF TypeOK
  <1> HIDE DEF r
  <1>. QED  BY <1>2, <1>3, TaskSet DEF KeepsAccount

(* The end of a task closes its channel and takes its IDLE child with it. *)
LEMMA FinishFacts ==
    ASSUME TypeOK, NEW t \in Tasks, Finish(t)
    PROVE  /\ task' \in [Tasks -> TaskRecord] /\ OtherTasks(t) /\ KeepsAccount(t)
           /\ chan' \in [Tasks -> Seq(Commands)] /\ \A s \in Tasks : Len(chan'[s]) <= Capacity
           /\ idle' \in [Tasks -> ChildState]
           /\ move' \in [Moves -> MoveState]
  <1>1. /\ [Unborn EXCEPT !.pc = "gone"] \in TaskRecord
        /\ [Unborn EXCEPT !.pc = "gone"].pc = "gone"
    BY DEF Unborn, TaskRecord
  <1>2. task' \in [Tasks -> TaskRecord] /\ OtherTasks(t) /\ KeepsAccount(t)
    BY <1>1, TaskSet DEF Finish, KeepsAccount
  <1>3. chan' \in [Tasks -> Seq(Commands)] /\ \A s \in Tasks : Len(chan'[s]) <= Capacity
    <2>1. << >> \in Seq(Commands) /\ Len(<< >>) = 0
      OBVIOUS
    <2>. QED  BY <2>1, ConstantAssumption DEF Finish, TypeOK
  <1>4. idle' \in [Tasks -> ChildState]
    BY DEF Finish, TypeOK, ChildState
  <1>5. move' \in [Moves -> MoveState]
    BY DEF Finish, TypeOK, MoveState
  <1>. QED  BY <1>2, <1>3, <1>4, <1>5

LEMMA ResumeFacts ==
    ASSUME TypeOK, NEW t \in Tasks, Resume(t)
    PROVE  /\ task' \in [Tasks -> TaskRecord] /\ OtherTasks(t) /\ KeepsAccount(t)
           /\ idle' \in [Tasks -> ChildState]
  BY TaskGotoFacts DEF Resume, TypeOK, ChildState

(* A status written for a task is that of an account. *)
LEMMA StatusFacts ==
    ASSUME TypeOK, NEW a, NEW o \in CycleOutcomes \cup {"syncing", Absent},
           status' = [status EXCEPT ![a] = o]
    PROVE  status' \in [Accounts -> CycleOutcomes \cup {"syncing", Absent}]
  BY DEF TypeOK

LEMMA TaskPreserves ==
    ASSUME IInv, NEW t \in Tasks, TaskStep(t)
    PROVE  IInv'
  <1>0. TypeOK /\ UNCHANGED <<row, registry, lock, handler>>
    BY DEF IInv, TaskStep, LoadContext, CheckReauth, BeginCycle, EndCycle, Tick, CommandDone,
       taskLeaves, registryVars
  <1>1. Born(t) /\ ~Gone(t)
    BY DEF TaskStep, LoadContext, CheckReauth, BeginCycle, EndCycle, Tick, CommandDone, TaskAt,
       Born, Gone
  <1>2. CASE LoadContext(t)
    <2>1. CASE Finish(t)
      BY <1>0, <1>1, <1>2, <2>1, FinishFacts, QuietTask DEF IInv, TypeOK, LoadContext
    <2>2. CASE TaskGoto(t, "check") /\ UNCHANGED <<chan, idle, move>>
      BY <1>0, <1>1, <1>2, <2>2, TaskGotoFacts, QuietTask DEF IInv, TypeOK, LoadContext
    <2>. QED  BY <1>2, <2>1, <2>2 DEF LoadContext
  <1>3. CASE CheckReauth(t)
    <2>1. CASE Resume(t)
      BY <1>0, <1>1, <1>3, <2>1, ResumeFacts, QuietTask DEF IInv, TypeOK, CheckReauth
    <2>2. CASE TaskGoto(t, "mark") /\ UNCHANGED idle
      BY <1>0, <1>1, <1>3, <2>2, TaskGotoFacts, QuietTask DEF IInv, TypeOK, CheckReauth
    <2>. QED  BY <1>3, <2>1, <2>2 DEF CheckReauth
  <1>4. CASE BeginCycle(t)
    <2>0. status' \in [Accounts -> CycleOutcomes \cup {"syncing", Absent}]
      BY <1>0, <1>4, StatusFacts DEF BeginCycle
    <2>1. CASE Finish(t)
      BY <1>0, <1>1, <2>0, <2>1, FinishFacts, QuietTask DEF IInv, TypeOK
    <2>2. CASE TaskGoto(t, "cycle") /\ UNCHANGED <<chan, idle, move>>
      BY <1>0, <1>1, <2>0, <2>2, TaskGotoFacts, QuietTask DEF IInv, TypeOK
    <2>. QED  BY <1>4, <2>1, <2>2 DEF BeginCycle
  <1>5. CASE EndCycle(t)
    <2>1. status' \in [Accounts -> CycleOutcomes \cup {"syncing", Absent}]
      BY <1>0, <1>5, StatusFacts DEF EndCycle, Outcomes
    <2>. QED  BY <1>0, <1>1, <1>5, <2>1, ResumeFacts, QuietTask DEF IInv, TypeOK, EndCycle
  <1>6. CASE Tick(t)
    BY <1>0, <1>1, <1>6, TaskGotoFacts, QuietTask DEF IInv, TypeOK, Tick
  <1>7. CASE CommandDone(t)
    <2>1. task' \in [Tasks -> TaskRecord] /\ OtherTasks(t) /\ KeepsAccount(t)
      BY <1>0, <1>7, CommandFacts DEF CommandDone
    <2>2. move' \in [Moves -> MoveState]
      BY <1>0, <1>7 DEF CommandDone, TypeOK, MoveState
    <2>. QED  BY <1>0, <1>1, <1>7, <2>1, <2>2, QuietTask DEF IInv, TypeOK, CommandDone
  <1>. QED  BY <1>2, <1>3, <1>4, <1>5, <1>6, <1>7 DEF TaskStep

LEMMA ReceivePreserves ==
    ASSUME IInv, NEW t \in Tasks, Receive(t)
    PROVE  IInv'
  <1> DEFINE c == chan[t][1]
  <1>1. /\ TypeOK /\ Born(t) /\ ~Gone(t)
        /\ UNCHANGED <<row, registry, lock, handler, status>>
    BY DEF IInv, Receive, TaskAt, Born, Gone, taskLeaves, registryVars
  <1>2. /\ RemoveAt(chan[t], 1) \in Seq(Commands) /\ c \in Commands
        /\ Len(RemoveAt(chan[t], 1)) <= Capacity
    <2>1. chan[t] \in Seq(Commands) /\ chan[t] # << >> /\ Len(chan[t]) <= Capacity
      BY <1>1 DEF TypeOK, Receive
    <2>2. RemoveAt(chan[t], 1) \in Seq(Commands) /\ c \in Commands
          /\ Len(RemoveAt(chan[t], 1)) = Len(chan[t]) - 1
      BY <2>1, RemovedFirst
    <2>. QED  BY <2>1, <2>2, ConstantAssumption
  <1>3. CASE Finish(t)
    BY <1>1, <1>3, FinishFacts, QuietTask DEF IInv, TypeOK
  <1>4. CASE ~Finish(t)
    <2>1. /\ task' = [task EXCEPT ![t].pc = IF c = "ForcePoll" THEN "check" ELSE "command",
                                  ![t].cmd = c]
          /\ chan' = [chan EXCEPT ![t] = RemoveAt(@, 1)]
          /\ UNCHANGED <<idle, move>>
      BY <1>4 DEF Receive, Received, NextCommand
    <2>2. task' \in [Tasks -> TaskRecord] /\ OtherTasks(t) /\ KeepsAccount(t)
      BY <1>1, <1>2, <2>1, CommandFacts
    <2>3. chan' \in [Tasks -> Seq(Commands)] /\ \A s \in Tasks : Len(chan'[s]) <= Capacity
      BY <1>1, <1>2, <2>1 DEF TypeOK
    <2>. QED  BY <1>1, <2>1, <2>2, <2>3, QuietTask DEF IInv, TypeOK
  <1>. QED  BY <1>3, <1>4

LEMMA DropPreserves ==
    ASSUME IInv, NEW t \in Tasks, Drop(t)
    PROVE  IInv'
  <1>1. TypeOK /\ UNCHANGED <<row, registry, lock, handler, status>>
    BY DEF IInv, Drop, taskLeaves, registryVars
  <1>. QED  BY <1>1, FinishFacts, QuietTask DEF IInv, TypeOK, Drop

(* What Exclusion speaks of is untouched by the IDLE child. *)
LEMMA StillExcluded ==
    ASSUME Exclusion, UNCHANGED <<registry, lock, task, handler>>
    PROVE  Exclusion'
  BY DEF Exclusion, LockHeld, Vacant, HaveAccounts, OneTaskPerAccount, Alive, Born, Gone

LEMMA ChildPreserves ==
    ASSUME IInv, NEW t \in Tasks, ChildStep(t)
    PROVE  IInv'
  <1>1. TypeOK /\ UNCHANGED <<row, registry, lock, status, task, handler, move>>
    BY DEF IInv, ChildStep, IdleConnect, IdleReconnect, IdleActivity, IdleError, IdlePoll,
       IdleStep, childLeaves, registryVars
  <1>2. idle' \in [Tasks -> ChildState]
    BY <1>1 DEF ChildStep, IdleConnect, IdleReconnect, IdleActivity, IdleError, IdlePoll,
       IdleStep, TypeOK, ChildState
  <1>3. chan' \in [Tasks -> Seq(Commands)] /\ \A s \in Tasks : Len(chan'[s]) <= Capacity
    <2>1. CASE IdlePoll(t)
      BY <1>1, <2>1, Appended DEF IdlePoll
    <2>2. CASE chan' = chan
      BY <1>1, <2>2 DEF TypeOK
    <2>. QED  BY <2>1, <2>2 DEF ChildStep, IdleConnect, IdleReconnect, IdleActivity, IdleError,
              IdleStep
  <1>. QED  BY <1>1, <1>2, <1>3, StillExcluded DEF IInv, TypeOK

-----------------------------------------------------------------------------
LEMMA Inductive == IInv /\ [Next]_vars => IInv'
  <1> SUFFICES ASSUME IInv, [Next]_vars  PROVE IInv'
    OBVIOUS
  <1>1. CASE UNCHANGED vars
    BY <1>1, StillExcluded DEF vars, IInv, TypeOK
  <1>2. CASE \E h \in Handlers : NewRequest(h) \/ HandlerStep(h)
    BY <1>2, NewRequestPreserves, HandlerPreserves
  <1>3. CASE \E t \in Tasks : TaskStep(t) \/ Receive(t) \/ Drop(t) \/ ChildStep(t)
    BY <1>3, TaskPreserves, ReceivePreserves, DropPreserves, ChildPreserves
  <1>. QED  BY <1>1, <1>2, <1>3 DEF Next

(* The inductive invariant holds of every reachable state. *)
THEOREM SyncInvariance == Spec => []IInv
  BY Initially, Inductive, PTL DEF Spec

(* Every variable keeps its type; in particular no command channel ever    *)
(* holds more than its capacity (mpsc::channel in start_account).          *)
THEOREM ManagerTypeCorrect == Spec => []TypeOK
  <1>1. IInv => TypeOK
    BY DEF IInv
  <1>. QED  BY <1>1, SyncInvariance, PTL

(* No account is ever synced by two tasks, however start_account,          *)
(* stop_account and trigger_sync interleave.                               *)
THEOREM OneTaskTheorem == Spec => []OneTaskPerAccount
  <1>1. IInv => OneTaskPerAccount
    BY DEF IInv, Exclusion
  <1>. QED  BY <1>1, SyncInvariance, PTL

-----------------------------------------------------------------------------
(* The cycle: a folder with messages has a row, and a cycle about to sync  *)
(* a folder has chosen it from the rows, as nothing drops a row after that.*)
ScTypes ==
    /\ scListed \subseteq ScFolders /\ scFound \subseteq ScFolders
    /\ scMail \in [ScFolders -> Nat] /\ scRows \in [ScFolders -> Nat]
         /\ scLive \in [ScFolders -> Nat]
    /\ scDb \in [ScFolders -> {"absent", "on", "off"}]
    /\ scChoice \in [ScFolders -> {"none", "on", "off"}]
    /\ scPc \in {"idle", "list", "upsert", "drop", "choose", "status", "sync"}
    /\ scChosen \in Seq(ScFolders) /\ scTodo \in Seq(ScFolders)

\* Messages have a folder, and so has every folder a cycle is about to sync.
ScHomed ==
    /\ \A f \in ScFolders : scRows[f] > 0 => scDb[f] # "absent"
    /\ scPc \in {"status", "sync"} =>
         \A f \in Range(scTodo) \cup Range(scChosen) : scDb[f] # "absent"

\* What was chosen was tried or is still to do.
ScToTry == scPc = "sync" => Range(scChosen) \subseteq scTried \cup Range(scTodo)

ScInv == ScTypes /\ ScHomed /\ ScChoiceKept /\ ScToTry /\ ScSuccessTriedAll

\* An order of a set of folders has its members only.
LEMMA ScSeqs ==
    ASSUME NEW S \in SUBSET ScFolders, NEW s \in SetToSeqs(S)
    PROVE  s \in Seq(ScFolders) /\ Range(s) \subseteq S
<1>1. Cardinality(S) \in Nat BY ScAssumption, FS_Subset, FS_CardinalityType
<1>2. s \in [1 .. Cardinality(S) -> S] BY DEF SetToSeqs
<1> QED BY <1>1, <1>2 DEF Range

LEMMA ScTailOf ==
    ASSUME NEW S, NEW s \in Seq(S), s # <<>>
    PROVE  Tail(s) \in Seq(S) /\ Head(s) \in S /\ Head(s) \in Range(s)
           /\ Range(s) = {Head(s)} \cup Range(Tail(s))
<1>1. Tail(s) \in Seq(S) /\ Head(s) \in S /\ Head(s) = s[1] /\ 1 \in DOMAIN s OBVIOUS
<1>2. ASSUME NEW i \in DOMAIN Tail(s) PROVE i + 1 \in DOMAIN s /\ Tail(s)[i] = s[i + 1] OBVIOUS
<1>3. ASSUME NEW i \in DOMAIN s, i # 1 PROVE i - 1 \in DOMAIN Tail(s) /\ Tail(s)[i - 1] = s[i]
  <2>1. i \in 2 .. Len(s) /\ Len(Tail(s)) = Len(s) - 1 BY <1>3
  <2>2. i - 1 \in 1 .. Len(s) - 1 BY <2>1
  <2>3. DOMAIN Tail(s) = 1 .. Len(s) - 1 BY <2>1, <1>1
  <2>4. Tail(s)[i - 1] = s[(i - 1) + 1] BY <2>2, <2>3, <1>3
  <2> QED BY <2>2, <2>3, <2>4, <2>1
<1>4. Range(s) \subseteq {Head(s)} \cup Range(Tail(s)) BY <1>1, <1>3 DEF Range
<1>5. {Head(s)} \cup Range(Tail(s)) \subseteq Range(s) BY <1>1, <1>2 DEF Range
<1> QED BY <1>1, <1>4, <1>5

LEMMA ScMax ==
    ASSUME NEW m \in Nat, NEW n \in Nat PROVE Max({m, n}) \in Nat /\ Max({m, n}) >= m
<1>1. \E x \in {m, n} : \A y \in {m, n} : x >= y OBVIOUS
<1> QED BY <1>1 DEF Max

LEMMA ScInitInv == ScInit => ScInv
<1> SUFFICES ASSUME ScInit PROVE ScInv OBVIOUS
<1> USE DEF ScInit
<1>1. ScTypes BY DEF ScTypes
<1>2. Range(scChosen) = {} BY DEF Range
<1> QED BY <1>1, <1>2 DEF ScInv, ScHomed, ScChoiceKept, ScToTry, ScSuccessTriedAll

\* What a step keeps: the invariant, and the rows and the place of any message.
ScWhole == ScInv' /\ \A f \in ScFolders : scRows[f] > 0 => scRows'[f] >= scRows[f]
    /\ scDb'[f] # "absent"

\* Every step keeps the invariant, and the messages of a folder.
LEMMA ScStep == ASSUME ScInv, [ScNext]_scVars PROVE ScWhole
<1> USE DEF ScInv, ScWhole, ScTypes, ScHomed, ScChoiceKept, ScToTry, ScSuccessTriedAll
<1>s. ASSUME UNCHANGED <<scStore, scCycle, scChoice, scListed>>, scMail' \in [ScFolders -> Nat]
      PROVE  ScWhole
  BY <1>s DEF scStore, scCycle
<1>1. CASE \E f \in ScFolders : ScMailChanges(f) \/ ScListingChanges(f)
  <2> PICK f \in ScFolders : ScMailChanges(f) \/ ScListingChanges(f) BY <1>1
  <2>1. UNCHANGED <<scStore, scCycle, scChoice>> BY DEF ScMailChanges, ScListingChanges
  <2>2. scListed' \subseteq ScFolders BY DEF ScMailChanges, ScListingChanges
  <2>3. scMail' \in [ScFolders -> Nat]
    <3>1. PICK n \in Nat : scMail' = [scMail EXCEPT ![f] = n]
      <4>1. CASE scMail' = [scMail EXCEPT ![f] = 0] BY <4>1
      <4>2. CASE scMail' = [scMail EXCEPT ![f] = @ + 1]
        <5>1. scMail[f] + 1 \in Nat OBVIOUS
        <5> QED BY <4>2, <5>1
      <4>3. CASE scMail[f] > 0 /\ scMail' = [scMail EXCEPT ![f] = @ - 1]
        <5>1. scMail[f] - 1 \in Nat BY <4>3
        <5> QED BY <4>3, <5>1
      <4> QED BY <4>1, <4>2, <4>3 DEF ScMailChanges, ScListingChanges
    <3> QED BY <3>1
  <2> QED BY <2>1, <2>2, <2>3 DEF scStore, scCycle
<1>2. ASSUME NEW fs \in SUBSET ScFolders, NEW v \in {"on", "off"}, ScToggle(fs, v) PROVE ScWhole
  <2>1. UNCHANGED <<scListed, scMail, scRows, scLive, scCycle>> BY <1>2 DEF ScToggle, scRemote
  <2>2. /\ scDb' = [f \in ScFolders |-> IF f \in fs THEN v ELSE scDb[f]]
        /\ scChoice' = [f \in ScFolders |-> IF f \in fs THEN v ELSE scChoice[f]]
    BY <1>2 DEF ScToggle
  <2>3. \A f \in ScFolders : scDb[f] # "absent" => scDb'[f] # "absent" BY <2>2
  <2>4. ScTypes' BY <2>1, <2>2 DEF scCycle
  <2>5. ScChoiceKept' BY <2>2
  <2>6. Range(scTodo) \cup Range(scChosen) \subseteq ScFolders BY DEF Range
  <2>7. ScHomed' BY <2>1, <2>3, <2>6 DEF scCycle
  <2>8. ScToTry' /\ ScSuccessTriedAll' BY <2>1 DEF scCycle
  <2>9. \A f \in ScFolders : scRows[f] > 0 => scRows'[f] >= scRows[f] /\ scDb'[f] # "absent"
    BY <2>1, <2>3
  <2> QED BY <2>4, <2>5, <2>7, <2>8, <2>9
<1>3. CASE ScBegin \/ ScFails \/ ScPaused
  <2>1. UNCHANGED <<scRemote, scStore, scChoice, scChosen>> /\ scFound' \subseteq ScFolders
        /\ scTodo' \in Seq(ScFolders)
    <3>1. CASE ScBegin BY <3>1 DEF ScBegin
    <3>2. CASE ScFails BY <3>2 DEF ScFails, ScEnd
    <3>3. CASE ScPaused BY <3>3 DEF ScPaused, ScEnd
    <3> QED BY <1>3, <3>1, <3>2, <3>3
  <2>2. scPc' \in {"idle", "list"} /\ scState' \in {"syncing", "error", "reauth_required"}
    BY <1>3 DEF ScBegin, ScFails, ScPaused, ScEnd
  <2> QED BY <2>1, <2>2 DEF scRemote, scStore
<1>4. CASE ScReconnected \/ ScList
  <2>1. Range(<<>>) = {} BY DEF Range
  <2>2. CASE ScReconnected
    <3>1. UNCHANGED <<scRemote, scStore, scChoice, scFound, scTodo, scPc>> /\ scPc = "idle"
          /\ scChosen' = <<>>
      BY <2>2 DEF ScReconnected
    <3> QED BY <2>1, <3>1 DEF scRemote, scStore
  <2>3. CASE ScList
    <3>1. UNCHANGED <<scRemote, scStore, scChoice, scChosen, scTodo>> /\ scPc' = "upsert"
          /\ scFound' = scListed
      BY <2>3 DEF ScList
    <3> QED BY <3>1 DEF scRemote, scStore
  <2> QED BY <1>4, <2>2, <2>3
<1>5. CASE ScUpsert
  BY <1>5 DEF ScUpsert, ScUpserted, ScDefault, scRemote
<1>6. CASE ScDrop
  BY <1>6 DEF ScDrop, ScDroppable, scRemote
<1>7. CASE ScChoose
  <2> PICK s \in SetToSeqs(scFound \cap ScEnabled) : scChosen' = s
      /\ scTodo' = s BY <1>7 DEF ScChoose
  <2>1. s \in Seq(ScFolders) /\ Range(s) \subseteq ScEnabled BY ScSeqs DEF ScEnabled
  <2> QED BY <1>7, <2>1 DEF ScChoose, ScEnabled, scRemote, scStore
<1>8. CASE ScStatus
  <2>1. CASE scTodo # <<>>
    <3>1. Tail(scTodo) \in Seq(ScFolders) /\ Range(Tail(scTodo)) \subseteq Range(scTodo)
      BY <2>1, ScTailOf
    <3>2. UNCHANGED <<scRemote, scStore, scChoice, scChosen, scPc, scFound>> /\ scPc = "status"
          /\ scTodo' = Tail(scTodo)
      BY <1>8, <2>1 DEF ScStatus
    <3> QED BY <3>1, <3>2 DEF scRemote, scStore
  <2>2. CASE scTodo = <<>>
    BY <1>8, <2>2 DEF ScStatus, scRemote, scStore
  <2> QED BY <2>1, <2>2
<1>9. CASE ScSyncFolder
  <2> DEFINE f == Head(scTodo)
  <2>1. Tail(scTodo) \in Seq(ScFolders) /\ f \in ScFolders /\ f \in Range(scTodo)
        /\ Range(scTodo) = {f} \cup Range(Tail(scTodo))
    BY <1>9, ScTailOf DEF ScSyncFolder
  <2>2. scLive' \in [ScFolders -> Nat] BY <1>9, <2>1 DEF ScSyncFolder
  <2>3. scRows' = [scRows EXCEPT ![f] = Max({@, scLive'[f]})] BY <1>9 DEF ScSyncFolder
  <2>4. scRows' \in [ScFolders -> Nat] /\ \A g \in ScFolders : scRows'[g] >= scRows[g]
        /\ (g # f => scRows'[g] = scRows[g])
    <3>1. /\ Max({scRows[f], scLive'[f]}) \in Nat
          /\ Max({scRows[f], scLive'[f]}) >= scRows[f]
      BY <2>1, <2>2, ScMax
    <3> DEFINE m == Max({scRows[f], scLive'[f]})
    <3>2. scRows' = [scRows EXCEPT ![f] = m] BY <2>3
    <3>3. m \in Nat /\ m >= scRows[f] BY <3>1
    <3>4. f \in ScFolders BY <2>1
    <3> HIDE DEF m, f
    <3> QED BY <3>2, <3>3, <3>4
  <2>5. scTried' = scTried \cup {f} /\ scTodo' = Tail(scTodo) /\ scPc = "sync"
        /\ UNCHANGED <<scKind, scRemote, scDb, scPc, scState, scFound, scChosen, scChoice>>
    BY <1>9 DEF ScSyncFolder
  <2> QED BY <2>1, <2>2, <2>4, <2>5 DEF scRemote
<1>10. CASE ScDone
  <2>1. Range(scTodo) = {} BY <1>10 DEF ScDone, Range
  <2> QED BY <1>10, <2>1 DEF ScDone, ScEnd, scRemote, scStore
<1>11. CASE UNCHANGED scVars BY <1>11 DEF scVars, scRemote, scStore, scCycle
<1>12. CASE \E v \in {"on", "off"} :
        \/ \E f \in ScFolders : ScToggle({f}, v)
        \/ ScToggle({f \in ScFolders : scDb[f] # "absent"}, v)
  BY <1>2, <1>12
<1> QED BY <1>1, <1>3, <1>4, <1>5, <1>6, <1>7, <1>8, <1>9, <1>10, <1>11, <1>12 DEF ScNext

\* A cycle never switches a folder the user has switched, reports success only after
\* it tried every folder it chose, and drops no folder that has messages (upsert_folder,
\* sync_account).
THEOREM CycleKeeps == ScSpec => ScCycleKeeps
<1>1. ScInv /\ [ScNext]_scVars => ScInv' BY ScStep DEF ScWhole
<1>2. ScInv /\ [ScNext]_scVars
      => [\A f \in ScFolders : scRows[f] > 0 => scRows'[f] >= scRows[f] /\ scDb'[f] # "absent"]_scVars
  BY ScStep DEF ScWhole
<1>3. ScInv => ScChoiceKept /\ ScSuccessTriedAll BY DEF ScInv
<1> QED BY ScInitInv, <1>1, <1>2, <1>3, PTL DEF ScSpec, ScCycleKeeps, ScMessagesKept

-----------------------------------------------------------------------------
(* Sums over finite sets, which the models take with folds.  A sum is the  *)
(* number of pairs of a member and a number up to its value, so that sums  *)
(* compare, join and correspond as sets of pairs do.                       *)
\* Less, as a relation.
LessThan == {d \in Nat \X Nat : d[1] < d[2]}

\* Induction on finite sets, for a set of subsets that has what its members leave.
LEMMA SumSubsets ==
    ASSUME NEW S, IsFiniteSet(S), NEW G, {} \in G,
           \A s \in SUBSET S : s # {} /\ (\A x \in s : s \ {x} \in G) => s \in G
    PROVE  \A s \in SUBSET S : s \in G
<1> DEFINE bad == {s \in SUBSET S : s \notin G}
           sizes == {Cardinality(s) : s \in bad}
<1>0. \A s \in SUBSET S : IsFiniteSet(s) /\ Cardinality(s) \in Nat
  BY FS_Subset, FS_CardinalityType
<1> SUFFICES ASSUME bad # {} PROVE FALSE OBVIOUS
<1>1. sizes \subseteq Nat /\ sizes # {} BY <1>0
<1>2. IsWellFoundedOn(LessThan, Nat)
  BY NatLessThanWellFounded, Zenon DEF OpToRel, LessThan
<1>3. PICK n \in sizes : \A k \in sizes : <<k, n>> \notin LessThan
  BY <1>1, <1>2, WFMin, Zenon
<1>4. PICK s \in bad : n = Cardinality(s) BY <1>3
<1>5. ASSUME NEW x \in s PROVE s \ {x} \in G
  <2>1. Cardinality(s \ {x}) = Cardinality(s) - 1 BY <1>0, <1>5, FS_RemoveElement
  <2>2. s \ {x} \in SUBSET S /\ Cardinality(s \ {x}) \in Nat /\ n \in Nat BY <1>0, <1>4
  <2> DEFINE k == Cardinality(s \ {x})
  <2>3. k \in Nat /\ k < n BY <2>1, <2>2, <1>4
  <2> SUFFICES ASSUME s \ {x} \notin G PROVE FALSE OBVIOUS
  <2>4. k \in sizes BY <2>2
  <2> HIDE DEF k
  <2>5. <<k, n>> \in LessThan BY <2>2, <2>3 DEF LessThan
  <2> QED BY <2>4, <2>5, <1>3
<1> QED BY <1>4, <1>5

\* A sum of naturals is the number of pairs of a member and a number up to its value.
SumPairs(fn, S) == {p \in S \X Nat : p[2] \in 1 .. fn[p[1]]}

LEMMA SumPairsOne ==
    ASSUME NEW S, NEW x \in S, NEW fn, \A y \in S : fn[y] \in Nat,
           IsFiniteSet(SumPairs(fn, S \ {x}))
    PROVE  /\ IsFiniteSet(SumPairs(fn, S))
           /\ Cardinality(SumPairs(fn, S)) = fn[x] + Cardinality(SumPairs(fn, S \ {x}))
<1> DEFINE n == fn[x]
           one == {x} \X (1 .. n)
           rest == SumPairs(fn, S \ {x})
<1>1. SumPairs(fn, S) = rest \cup one /\ rest \cap one = {} BY DEF SumPairs
<1>2. n \in Nat OBVIOUS
<1>6. IsFiniteSet(rest) /\ Cardinality(rest) \in Nat BY FS_CardinalityType
<1> HIDE DEF n, rest
<1>3. IsFiniteSet(1 .. n) /\ Cardinality(1 .. n) = n
  <2>1. 1 \in Int /\ n \in Int BY <1>2
  <2>2. /\ IsFiniteSet(1 .. n)
        /\ Cardinality(1 .. n) = IF 1 > n THEN 0 ELSE n - 1 + 1
    BY <2>1, FS_Interval
  <2> QED BY <1>2, <2>2
<1>4. IsFiniteSet({x}) /\ Cardinality({x}) = 1 BY FS_Singleton
<1>5. IsFiniteSet(one) /\ Cardinality(one) = n
  <2>1. IsFiniteSet(one) /\ Cardinality(one) = Cardinality({x}) * Cardinality(1 .. n)
    BY <1>3, <1>4, FS_Product
  <2>2. Cardinality(one) = 1 * n BY <2>1, <1>3, <1>4
  <2> HIDE DEF one
  <2> QED BY <2>1, <2>2, <1>2
<1> HIDE DEF one
<1>7. /\ IsFiniteSet(rest \cup one)
      /\ Cardinality(rest \cup one) = Cardinality(rest) + Cardinality(one) - Cardinality(rest \cap one)
  BY <1>5, <1>6, FS_Union
<1>8. Cardinality(rest \cap one) = 0 BY <1>1, FS_EmptySet
<1>9. Cardinality(SumPairs(fn, S)) = n + Cardinality(rest)
  <2> DEFINE r == Cardinality(rest)
             m == Cardinality(SumPairs(fn, S))
  <2>1. m = r + n - 0 BY <1>1, <1>5, <1>7, <1>8
  <2>2. r \in Nat BY <1>6
  <2> HIDE DEF m, r
  <2>3. m = n + r BY <2>1, <2>2, <1>2
  <2> QED BY <2>3 DEF m, r
<1> QED BY <1>1, <1>7, <1>9 DEF n, rest

LEMMA SumPairsFinite ==
    ASSUME NEW S, IsFiniteSet(S), NEW fn, \A y \in S : fn[y] \in Nat
    PROVE  \A s \in SUBSET S : IsFiniteSet(SumPairs(fn, s)) /\ Cardinality(SumPairs(fn, s)) \in Nat
<1> DEFINE G == {s \in SUBSET S : IsFiniteSet(SumPairs(fn, s))}
<1>1. SumPairs(fn, {}) = {} BY DEF SumPairs
<1>2. {} \in G BY <1>1, FS_EmptySet
<1>3. ASSUME NEW s \in SUBSET S, s # {}, \A x \in s : s \ {x} \in G PROVE s \in G
  <2>1. PICK x \in s : TRUE BY <1>3
  <2>2. IsFiniteSet(SumPairs(fn, s \ {x})) BY <1>3, <2>1
  <2> QED BY <2>1, <2>2, SumPairsOne
<1> HIDE DEF G
<1>4. \A s \in SUBSET S : s \in G BY <1>2, <1>3, SumSubsets
<1> QED BY <1>4, FS_CardinalityType DEF G

\* A fold that takes any member first, and adds its value to that of the rest, counts
\* the pairs.
LEMMA SumFolded ==
    ASSUME NEW S, IsFiniteSet(S), NEW fn, \A y \in S : fn[y] \in Nat, NEW iter, iter[{}] = 0,
           \A s \in SUBSET S :
               s # {} /\ iter[s \ {CHOOSE x \in s : TRUE}] \in Nat
               => iter[s] = fn[CHOOSE x \in s : TRUE] + iter[s \ {CHOOSE x \in s : TRUE}]
    PROVE  iter[S] = Cardinality(SumPairs(fn, S))
<1> DEFINE G == {s \in SUBSET S : iter[s] = Cardinality(SumPairs(fn, s))}
<1>1. {} \in G
  <2>1. SumPairs(fn, {}) = {} BY DEF SumPairs
  <2> QED BY <2>1, FS_EmptySet
<1>2. ASSUME NEW s \in SUBSET S, s # {}, \A x \in s : s \ {x} \in G PROVE s \in G
  <2> DEFINE x == CHOOSE y \in s : TRUE
  <2>1. x \in s BY <1>2
  <2>2. iter[s \ {x}] \in Nat => iter[s] = fn[x] + iter[s \ {x}] BY <1>2
  <2> HIDE DEF x
  <2>3. s \ {x} \in SUBSET S /\ iter[s \ {x}] = Cardinality(SumPairs(fn, s \ {x})) BY <1>2, <2>1
  <2>4. IsFiniteSet(SumPairs(fn, s \ {x})) /\ Cardinality(SumPairs(fn, s \ {x})) \in Nat
    BY <2>3, SumPairsFinite
  <2>5. Cardinality(SumPairs(fn, s)) = fn[x] + Cardinality(SumPairs(fn, s \ {x}))
    BY <2>1, <2>4, SumPairsOne
  <2> QED BY <2>2, <2>3, <2>4, <2>5
<1> HIDE DEF G
<1>3. \A s \in SUBSET S : s \in G BY <1>1, <1>2, SumSubsets
<1> QED BY <1>3 DEF G

\* The count is such a fold.
LEMMA SumCards ==
    ASSUME NEW S, IsFiniteSet(S), NEW fn, \A y \in S : fn[y] \in Nat
    PROVE  \A s \in SUBSET S : \A x \in s :
              /\ Cardinality(SumPairs(fn, s \ {x})) \in Nat
              /\ Cardinality(SumPairs(fn, s)) = fn[x] + Cardinality(SumPairs(fn, s \ {x}))
<1>1. \A s \in SUBSET S : IsFiniteSet(SumPairs(fn, s)) /\ Cardinality(SumPairs(fn, s)) \in Nat
  BY SumPairsFinite
<1> SUFFICES ASSUME NEW s \in SUBSET S, NEW x \in s
             PROVE  /\ Cardinality(SumPairs(fn, s \ {x})) \in Nat
                    /\ Cardinality(SumPairs(fn, s)) = fn[x] + Cardinality(SumPairs(fn, s \ {x}))
  OBVIOUS
<1>2. s \ {x} \in SUBSET S /\ \A y \in s : fn[y] \in Nat OBVIOUS
<1>3. IsFiniteSet(SumPairs(fn, s \ {x})) /\ Cardinality(SumPairs(fn, s \ {x})) \in Nat
  BY <1>1, <1>2
<1>4. Cardinality(SumPairs(fn, s)) = fn[x] + Cardinality(SumPairs(fn, s \ {x}))
  BY <1>2, <1>3, SumPairsOne
<1> QED BY <1>3, <1>4

SumOf(fn, S) == MapThenSumSet(LAMBDA x : fn[x], S)

LEMMA SumIsCard ==
    ASSUME NEW S, IsFiniteSet(S), NEW fn, \A y \in S : fn[y] \in Nat
    PROVE  SumOf(fn, S) = Cardinality(SumPairs(fn, S))
<1> DEFINE rec(g) == [s \in SUBSET S |-> IF s = {} THEN 0
                        ELSE fn[CHOOSE x \in s : TRUE] + g[s \ {CHOOSE x \in s : TRUE}]]
           cards == [s \in SUBSET S |-> Cardinality(SumPairs(fn, s))]
           iter == CHOOSE g : g = rec(g)
<1>1. SumOf(fn, S) = iter[S] BY DEF SumOf, MapThenSumSet, MapThenFoldSet
<1>2. cards = rec(cards)
  <2>1. ASSUME NEW s \in SUBSET S, s # {}
        PROVE  cards[s] = fn[CHOOSE x \in s : TRUE] + cards[s \ {CHOOSE x \in s : TRUE}]
    <3> DEFINE x == CHOOSE y \in s : TRUE
    <3>1. x \in s BY <2>1
    <3> HIDE DEF x
    <3>2. s \ {x} \in SUBSET S OBVIOUS
    <3>3. Cardinality(SumPairs(fn, s)) = fn[x] + Cardinality(SumPairs(fn, s \ {x}))
      BY <3>1, SumCards
    <3>4. cards[s] = fn[x] + cards[s \ {x}] BY <3>2, <3>3
    <3> QED BY <3>4 DEF x
  <2>2. SumPairs(fn, {}) = {} BY DEF SumPairs
  <2>3. cards[{}] = 0 BY <2>2, FS_EmptySet
  <2> QED BY <2>1, <2>3
<1>3. iter = rec(iter) BY <1>2
<1> HIDE DEF iter
<1>4. iter[{}] = 0 BY <1>3
<1>5. \A s \in SUBSET S : s # {}
        => iter[s] = fn[CHOOSE x \in s : TRUE] + iter[s \ {CHOOSE x \in s : TRUE}]
  BY <1>3
<1>6. iter[S] = Cardinality(SumPairs(fn, S)) BY <1>4, <1>5, SumFolded
<1> QED BY <1>1, <1>6

LEMMA SumNat ==
    ASSUME NEW S, IsFiniteSet(S), NEW fn, \A y \in S : fn[y] \in Nat
    PROVE  SumOf(fn, S) \in Nat
BY SumIsCard, SumPairsFinite

\* A sum is at most another that has as much at each of its members.
LEMMA SumLe ==
    ASSUME NEW S, IsFiniteSet(S), NEW T, IsFiniteSet(T), NEW fn, \A y \in S : fn[y] \in Nat,
           NEW gn, \A y \in T : gn[y] \in Nat,
           \A y \in S : fn[y] = 0 \/ (y \in T /\ fn[y] <= gn[y])
    PROVE  SumOf(fn, S) <= SumOf(gn, T)
<1>1. SumPairs(fn, S) \subseteq SumPairs(gn, T)
  <2> SUFFICES ASSUME NEW p \in SumPairs(fn, S) PROVE p \in SumPairs(gn, T) OBVIOUS
  <2>1. p \in S \X Nat /\ p[2] \in 1 .. fn[p[1]] BY DEF SumPairs
  <2> DEFINE y == p[1]
             k == p[2]
  <2>2. y \in S /\ k \in Nat /\ k \in 1 .. fn[y] /\ p = <<y, k>> BY <2>1
  <2> HIDE DEF y, k
  <2>3. fn[y] # 0 BY <2>2
  <2>4. y \in T /\ fn[y] <= gn[y] /\ fn[y] \in Nat /\ gn[y] \in Nat BY <2>2, <2>3
  <2>5. k \in 1 .. gn[y] BY <2>2, <2>4
  <2> QED BY <2>2, <2>4, <2>5 DEF SumPairs
<1>2. IsFiniteSet(SumPairs(gn, T)) BY SumPairsFinite
<1>3. Cardinality(SumPairs(fn, S)) <= Cardinality(SumPairs(gn, T)) BY <1>1, <1>2, FS_Subset
<1> QED BY <1>3, SumIsCard

\* One more member adds at most its own value.
LEMMA SumWith ==
    ASSUME NEW S, IsFiniteSet(S), NEW x, NEW fn, \A y \in S \cup {x} : fn[y] \in Nat
    PROVE  SumOf(fn, S \cup {x}) <= SumOf(fn, S) + fn[x]
<1> DEFINE W == S \cup {x}
           V == W \ {x}
<1>1. IsFiniteSet(W) BY FS_AddElement
<1>2. IsFiniteSet(V) BY <1>1, FS_Subset
<1>3. x \in W /\ V \subseteq S /\ (\A y \in V : fn[y] \in Nat) /\ (\A y \in W : fn[y] \in Nat)
  OBVIOUS
<1>4. IsFiniteSet(SumPairs(fn, V)) BY <1>2, <1>3, SumPairsFinite
<1>5. Cardinality(SumPairs(fn, W)) = fn[x] + Cardinality(SumPairs(fn, V))
  BY <1>3, <1>4, SumPairsOne
<1>6. SumOf(fn, W) = Cardinality(SumPairs(fn, W)) /\ SumOf(fn, V) = Cardinality(SumPairs(fn, V))
  BY <1>1, <1>2, <1>3, SumIsCard
<1> HIDE DEF W
<1>7. \A y \in V : fn[y] <= fn[y] BY <1>3
<1> HIDE DEF V
<1>8. SumOf(fn, V) <= SumOf(fn, S) BY <1>2, <1>3, <1>7, SumLe
<1> DEFINE a == SumOf(fn, W)
           b == SumOf(fn, V)
           c == SumOf(fn, S)
           n == fn[x]
<1>9. a = n + b /\ b <= c BY <1>5, <1>6, <1>8
<1>10. b \in Nat /\ c \in Nat /\ n \in Nat BY <1>2, <1>3, SumNat
<1> HIDE DEF a, b, c, n
<1>11. a <= c + n BY <1>9, <1>10
<1> QED BY <1>11 DEF a, c, n, W

\* The sums over two sets apart from each other.
LEMMA SumUnion ==
    ASSUME NEW S, IsFiniteSet(S), NEW T, IsFiniteSet(T), S \cap T = {}, NEW fn,
           \A y \in S \cup T : fn[y] \in Nat
    PROVE  SumOf(fn, S \cup T) = SumOf(fn, S) + SumOf(fn, T)
<1> DEFINE P == SumPairs(fn, S)
           Q == SumPairs(fn, T)
           R == SumPairs(fn, S \cup T)
<1>1. R = P \cup Q /\ P \cap Q = {} BY DEF SumPairs
<1>2. IsFiniteSet(S \cup T) BY FS_Union
<1>3. SumOf(fn, S) = Cardinality(P) /\ SumOf(fn, T) = Cardinality(Q) BY SumIsCard
<1>4. SumOf(fn, S \cup T) = Cardinality(R) BY <1>2, SumIsCard
<1>5. IsFiniteSet(P) /\ IsFiniteSet(Q) /\ Cardinality(P) \in Nat /\ Cardinality(Q) \in Nat
  BY SumPairsFinite
<1> HIDE DEF P, Q, R
<1>6. Cardinality(P \cup Q) = Cardinality(P) + Cardinality(Q) - Cardinality(P \cap Q)
  BY <1>5, FS_Union
<1>7. Cardinality(P \cap Q) = 0 BY <1>1, FS_EmptySet
<1> QED BY <1>1, <1>3, <1>4, <1>5, <1>6, <1>7

-----------------------------------------------------------------------------
(* The progress of a cycle: its counters are sums over sets of folders.    *)
\* What a folder can still show: its live rows, or its mail once it is synced.
ScLoad == [f \in ScFolders |-> IF scLive[f] > scMail[f] THEN scLive[f] ELSE scMail[f]]

\* Counting, the total covers the mail of the folders counted so far.  Syncing, it covers
\* what every chosen folder can still show, and the rows of the enabled folders are
\* what is shown.
ScFits ==
    /\ scTotal \in Nat
    /\ scOff = {} /\ scPc = "status" =>
         /\ Range(scChosen) \subseteq ScEnabled
         /\ SumOf(scMail, Range(scChosen) \ Range(scTodo)) <= scTotal
    /\ scOff = {} /\ scPc = "sync" =>
         /\ SumOf(ScLoad, Range(scChosen)) <= scTotal
         /\ scSynced = SumOf(scLive, ScEnabled)

\* The folders are finitely many.
LEMMA ScFinite == \A S \in SUBSET ScFolders : IsFiniteSet(S)
BY ScAssumption, FS_Subset

\* The pass is over folders.
LEMMA ScRanges ==
    ASSUME ScTypes PROVE Range(scChosen) \subseteq ScFolders /\ Range(scTodo) \subseteq ScFolders
BY DEF ScTypes, Range

\* Less mail, and no row of the cycle, leaves the progress within its total.
LEMMA ScFitsLess ==
    ASSUME ScTypes, ScTypes', ScFits, UNCHANGED <<scStore, scCycle>>, scOff' = {} => scOff = {},
           \A f \in ScFolders : scMail'[f] <= scMail[f]
    PROVE  ScFits'
<1> DEFINE C == Range(scChosen)
           D == Range(scChosen) \ Range(scTodo)
<1>0. UNCHANGED <<scDb, scLive, scPc, scChosen, scTodo, scTotal, scSynced>>
  BY DEF scStore, scCycle
<1>1. C \subseteq ScFolders /\ D \subseteq ScFolders BY ScRanges
<1>2. \A f \in ScFolders : scMail[f] \in Nat /\ scMail'[f] \in Nat
      /\ scLive[f] \in Nat BY DEF ScTypes
<1>3. \A f \in ScFolders : ScLoad[f] \in Nat /\ ScLoad'[f] \in Nat /\ ScLoad'[f] <= ScLoad[f]
  BY <1>0, <1>2 DEF ScLoad
<1> HIDE DEF C, D
<1>4. SumOf(scMail', D) <= SumOf(scMail, D) BY <1>1, <1>2, ScFinite, SumLe
<1>5. SumOf(ScLoad', C) <= SumOf(ScLoad, C) BY <1>1, <1>3, ScFinite, SumLe
<1>6. /\ SumOf(scMail', D) \in Nat /\ SumOf(scMail, D) \in Nat
      /\ SumOf(ScLoad', C) \in Nat /\ SumOf(ScLoad, C) \in Nat
  BY <1>1, <1>2, <1>3, ScFinite, SumNat
<1>7. SumOf(scMail, D) <= scTotal => SumOf(scMail', D) <= scTotal BY <1>4, <1>6 DEF ScFits
<1>8. SumOf(ScLoad, C) <= scTotal => SumOf(ScLoad', C) <= scTotal BY <1>5, <1>6 DEF ScFits
<1>9. ScEnabled' = ScEnabled BY <1>0 DEF ScEnabled
<1>10. /\ SumOf(scMail, D)' = SumOf(scMail', D)
       /\ SumOf(ScLoad, C)' = SumOf(ScLoad', C)
       /\ SumOf(scLive, ScEnabled)' = SumOf(scLive, ScEnabled)
  BY <1>0, <1>9 DEF SumOf, C, D, MapThenSumSet, MapThenFoldSet
<1> QED BY <1>0, <1>7, <1>8, <1>9, <1>10 DEF ScFits, C, D

\* Every step keeps the progress within its total.
LEMMA ScFitsStep == ASSUME ScTypes, ScTypes', ScFits, [ScNext]_scVars PROVE ScFits'
<1> USE DEF ScFits
<1>r. CASE scPc' \notin {"status", "sync"} /\ UNCHANGED scTotal BY <1>r
<1>e. CASE scPc' # "idle" /\ scOff' # {} /\ UNCHANGED scTotal BY <1>e
<1>1. ASSUME NEW f \in ScFolders, ScMailChanges(f) \/ ScListingChanges(f) PROVE ScFits'
  <2>1. UNCHANGED <<scStore, scCycle>> BY <1>1 DEF ScMailChanges, ScListingChanges
  <2>2. CASE scMail' = [scMail EXCEPT ![f] = @ + 1] /\ ScExcuse("arrival")
    <3>1. UNCHANGED <<scPc, scTotal>> BY <2>1 DEF scCycle
    <3> QED BY <1>r, <1>e, <2>2, <3>1 DEF ScExcuse, ScRunning
  <2>3. CASE scMail[f] > 0 /\ scMail' = [scMail EXCEPT ![f] = @ - 1] /\ UNCHANGED scOff
    <3>1. \A g \in ScFolders : scMail'[g] <= scMail[g] BY <2>3 DEF ScTypes
    <3> QED BY <2>1, <2>3, <3>1, ScFitsLess
  <2>4. CASE scMail' = [scMail EXCEPT ![f] = 0] /\ UNCHANGED scOff
    <3>1. \A g \in ScFolders : scMail'[g] <= scMail[g] BY <2>4 DEF ScTypes
    <3> QED BY <2>1, <2>4, <3>1, ScFitsLess
  <2> QED BY <1>1, <2>2, <2>3, <2>4 DEF ScMailChanges, ScListingChanges
<1>2. ASSUME NEW fs \in SUBSET ScFolders, NEW v \in {"on", "off"}, ScToggle(fs, v) PROVE ScFits'
  <2>1. UNCHANGED <<scPc, scTotal>> /\ ScExcuse("toggle") BY <1>2 DEF ScToggle, scCycle
  <2> QED BY <1>r, <1>e, <2>1 DEF ScExcuse, ScRunning
<1>3. CASE ScBegin \/ ScFails \/ ScPaused \/ ScReconnected \/ ScList \/ ScUpsert \/ ScDrop
  BY <1>3, <1>r DEF ScBegin, ScFails, ScPaused, ScReconnected, ScList, ScUpsert, ScDrop, ScEnd
<1>4. CASE ScDone BY <1>4, <1>r DEF ScDone, ScEnd
<1>5. CASE ScChoose
  <2> PICK s \in SetToSeqs(scFound \cap ScEnabled) : scChosen' = s
      /\ scTodo' = s BY <1>5 DEF ScChoose
  <2>1. s \in Seq(ScFolders) /\ Range(s) \subseteq ScEnabled BY ScSeqs DEF ScEnabled
  <2>2. scPc' = "status" /\ scTotal' = 0 /\ UNCHANGED scDb BY <1>5 DEF ScChoose, scStore
  <2>3. Range(scChosen') \ Range(scTodo') = {} OBVIOUS
  <2>4. SumOf(scMail', {}) <= SumOf(scMail', {}) /\ SumOf(scMail', {}) = 0
    <3>1. IsFiniteSet({}) /\ Cardinality({}) = 0 BY FS_EmptySet
    <3>2. SumPairs(scMail', {}) = {} BY DEF SumPairs
    <3>3. SumOf(scMail', {}) = 0 BY <3>1, <3>2, SumIsCard
    <3> QED BY <3>3
  <2>5. SumOf(scMail, Range(scChosen) \ Range(scTodo))' = 0
    BY <2>3, <2>4 DEF SumOf, MapThenSumSet, MapThenFoldSet
  <2>6. ScEnabled' = ScEnabled BY <2>2 DEF ScEnabled
  <2> QED BY <2>1, <2>2, <2>5, <2>6
<1>6. CASE ScStatus /\ scTodo # <<>>
  <2> DEFINE h == Head(scTodo)
             C == Range(scChosen) \ Range(scTodo)
             D == Range(scChosen) \ Range(Tail(scTodo))
  <2>1. scTodo' = Tail(scTodo) /\ UNCHANGED <<scPc, scMail, scDb, scChosen>> /\ scPc = "status"
    BY <1>6 DEF ScStatus, scRemote, scStore
  <2>2. h \in ScFolders /\ h \in Range(scTodo) /\ Range(scTodo) = {h} \cup Range(Tail(scTodo))
    BY <1>6, ScTailOf DEF ScTypes
  <2>3. \/ scTotal' = scTotal + scMail[h] /\ UNCHANGED scOff
        \/ UNCHANGED scTotal /\ scOff' # {}
    BY <1>6 DEF ScStatus
  <2>4. \A f \in ScFolders : scMail[f] \in Nat BY DEF ScTypes
  <2>5. C \subseteq ScFolders /\ D \subseteq C \cup {h} BY <2>2, ScRanges
  <2> HIDE DEF C, D, h
  <2>6. D \subseteq ScFolders /\ IsFiniteSet(C) /\ IsFiniteSet(D) /\ C \cup {h} \subseteq ScFolders
        /\ IsFiniteSet(C \cup {h})
    BY <2>2, <2>5, ScFinite
  <2>7. \A y \in C \cup {h} : scMail[y] \in Nat /\ scMail[y] <= scMail[y] BY <2>4, <2>6
  <2>8. SumOf(scMail, D) <= SumOf(scMail, C \cup {h})
    BY <2>5, <2>6, <2>7, SumLe
  <2>9. SumOf(scMail, C \cup {h}) <= SumOf(scMail, C) + scMail[h]
    BY <2>6, <2>7, SumWith
  <2>10. SumOf(scMail, D) \in Nat /\ SumOf(scMail, C) \in Nat /\ SumOf(scMail, C \cup {h}) \in Nat
         /\ scMail[h] \in Nat
    BY <2>2, <2>4, <2>6, <2>7, SumNat
  <2>11. scTotal' \in Nat BY <2>3, <2>10
  <2>12. scOff' = {} => SumOf(scMail, D) <= scTotal'
    <3> SUFFICES ASSUME scOff' = {} PROVE SumOf(scMail, D) <= scTotal' OBVIOUS
    <3>1. scTotal' = scTotal + scMail[h] /\ scOff = {} BY <2>3
    <3>2. SumOf(scMail, C) <= scTotal BY <2>1, <3>1 DEF C
    <3> QED BY <2>8, <2>9, <2>10, <3>1, <3>2
  <2>13. SumOf(scMail, Range(scChosen) \ Range(scTodo))' = SumOf(scMail, D)
    BY <2>1 DEF SumOf, D, MapThenSumSet, MapThenFoldSet
  <2>14. ScEnabled' = ScEnabled BY <2>1 DEF ScEnabled
  <2>15. scOff' = {} => scOff = {} BY <2>3
  <2> QED BY <2>1, <2>11, <2>12, <2>13, <2>14, <2>15
<1>7. CASE ScStatus /\ scTodo = <<>>
  <2> DEFINE C == Range(scChosen)
  <2>1. /\ scPc = "status" /\ scPc' = "sync" /\ UNCHANGED <<scMail, scDb, scLive, scChosen,
             scTotal>>
        /\ scSynced' = ScSyncedCount(scLive)
        /\ scOff' = scOff \cup {"stale" : f \in {g \in ScEnabled : scLive[g] > scMail[g]}}
    BY <1>7 DEF ScStatus, scRemote, scStore
  <2>2. C \subseteq ScFolders /\ IsFiniteSet(C) BY ScRanges, ScFinite
  <2>3. C \ Range(scTodo) = C BY <1>7 DEF Range
  <2>4. ScEnabled' = ScEnabled /\ ScLoad' = ScLoad BY <2>1 DEF ScEnabled, ScLoad
  <2>5. SumOf(scLive, ScEnabled)' = ScSyncedCount(scLive)
        /\ SumOf(ScLoad, C)' = SumOf(ScLoad, C)
    BY <2>1, <2>4 DEF SumOf, ScSyncedCount, MapThenSumSet, MapThenFoldSet
  <2> SUFFICES ASSUME scOff' = {} PROVE SumOf(ScLoad, C) <= scTotal
    BY <2>1, <2>5
  <2>6. scOff = {} /\ \A g \in ScEnabled : ~(scLive[g] > scMail[g]) BY <2>1
  <2>7. C \subseteq ScEnabled /\ SumOf(scMail, C) <= scTotal BY <2>1, <2>3, <2>6
  <2>8. \A f \in C : ScLoad[f] \in Nat /\ scMail[f] \in Nat /\ ScLoad[f] <= scMail[f]
    BY <2>2, <2>6, <2>7 DEF ScLoad, ScTypes
  <2> HIDE DEF C
  <2>9. SumOf(ScLoad, C) <= SumOf(scMail, C) BY <2>2, <2>8, SumLe
  <2>10. SumOf(ScLoad, C) \in Nat /\ SumOf(scMail, C) \in Nat BY <2>2, <2>8, SumNat
  <2> QED BY <2>7, <2>9, <2>10
<1>8. CASE ScSyncFolder
  <2> DEFINE C == Range(scChosen)
  <2>1. /\ scPc = "sync" /\ UNCHANGED <<scMail, scDb, scPc, scChosen, scTotal, scOff>>
        /\ scSynced' = ScSyncedCount(scLive')
    BY <1>8 DEF ScSyncFolder, scRemote
  <2>2. PICK n \in {scLive[Head(scTodo)], scMail[Head(scTodo)]} :
            scLive' = [scLive EXCEPT ![Head(scTodo)] = n]
    BY <1>8 DEF ScSyncFolder
  <2>3. Head(scTodo) \in ScFolders BY <1>8, ScTailOf DEF ScSyncFolder, ScTypes
  <2>4. \A f \in ScFolders : ScLoad[f] \in Nat /\ ScLoad'[f] \in Nat /\ ScLoad'[f] <= ScLoad[f]
    BY <2>1, <2>2, <2>3 DEF ScLoad, ScTypes
  <2>5. C \subseteq ScFolders /\ IsFiniteSet(C) BY ScRanges, ScFinite
  <2>6. ScEnabled' = ScEnabled BY <2>1 DEF ScEnabled
  <2>7. SumOf(scLive, ScEnabled)' = ScSyncedCount(scLive')
        /\ SumOf(ScLoad, C)' = SumOf(ScLoad', C)
    BY <2>1, <2>6 DEF SumOf, ScSyncedCount, MapThenSumSet, MapThenFoldSet
  <2> HIDE DEF C
  <2>8. SumOf(ScLoad', C) <= SumOf(ScLoad, C) /\ SumOf(ScLoad', C) \in Nat
        /\ SumOf(ScLoad, C) \in Nat
    BY <2>4, <2>5, SumLe, SumNat
  <2>9. scOff' = {} => SumOf(ScLoad, C) <= scTotal BY <2>1 DEF C
  <2>10. scOff' = {} => SumOf(ScLoad', C) <= scTotal BY <2>8, <2>9
  <2> QED BY <2>1, <2>7, <2>10 DEF C
<1>9. CASE UNCHANGED scVars
  <2>1. UNCHANGED <<scStore, scCycle>> /\ UNCHANGED <<scMail, scOff>> BY <1>9 DEF scVars, scRemote
  <2>2. \A f \in ScFolders : scMail'[f] <= scMail[f] BY <2>1 DEF ScTypes
  <2> QED BY <2>1, <2>2, ScFitsLess
<1>10. CASE \E v \in {"on", "off"} :
        \/ \E f \in ScFolders : ScToggle({f}, v)
        \/ ScToggle({f \in ScFolders : scDb[f] # "absent"}, v)
  BY <1>2, <1>10
<1> QED BY <1>1, <1>3, <1>4, <1>5, <1>6, <1>7, <1>8, <1>9, <1>10 DEF ScNext, ScStatus

\* The invariant bounds what is shown.
LEMMA ScFitsShown == ASSUME ScTypes, ScFits PROVE ScProgressFits
<1> SUFFICES ASSUME scPc = "sync", scOff = {},
                    \A f \in ScEnabled \ Range(scChosen) : scLive[f] = 0
             PROVE  scSynced <= scTotal
  BY DEF ScProgressFits
<1> DEFINE C == Range(scChosen)
           E == ScEnabled
<1>1. C \subseteq ScFolders /\ IsFiniteSet(C) /\ E \subseteq ScFolders /\ IsFiniteSet(E)
  BY ScRanges, ScFinite DEF ScEnabled
<1>2. \A f \in ScFolders : ScLoad[f] \in Nat /\ scLive[f] \in Nat /\ scLive[f] <= ScLoad[f]
  BY DEF ScLoad, ScTypes
<1>3. \A f \in E : scLive[f] = 0 \/ f \in C OBVIOUS
<1>4. SumOf(ScLoad, C) <= scTotal /\ scSynced = SumOf(scLive, E) /\ scTotal \in Nat BY DEF ScFits
<1> HIDE DEF C, E
<1>5. SumOf(scLive, E) <= SumOf(ScLoad, C) BY <1>1, <1>2, <1>3, SumLe
<1>6. SumOf(scLive, E) \in Nat /\ SumOf(ScLoad, C) \in Nat BY <1>1, <1>2, SumNat
<1> QED BY <1>4, <1>5, <1>6

\* The progress of a cycle fits in its total, for every set of folders and any number
\* of messages, unless one of the named events excuses it (SYNCED_MESSAGE_COUNT_SQL,
\* set_progress).
THEOREM ProgressFits == ScSpec => []ScProgressFits
<1>1. ScInit => ScFits BY DEF ScInit, ScFits
<1>2. ScInv /\ [ScNext]_scVars => ScInv' BY ScStep DEF ScWhole
<1>3. ScInv => ScTypes BY DEF ScInv
<1>4. ScTypes /\ ScTypes' /\ ScFits /\ [ScNext]_scVars => ScFits' BY ScFitsStep
<1>5. ScTypes /\ ScFits => ScProgressFits BY ScFitsShown
<1> QED BY ScInitInv, <1>1, <1>2, <1>3, <1>4, <1>5, PTL DEF ScSpec

-----------------------------------------------------------------------------
(* The score of a message: the sum over the list of findings is that over  *)
(* the kinds in it, because the lists joined have each kind once.          *)
(* FlattenSeq takes the elements of its lists one after another.           *)

\* A set of numbers with 0 and the successors of its members has them all.
LEMMA UpFromZero ==
    ASSUME NEW G, 0 \in G, \A n \in Nat : n \in G => n + 1 \in G
    PROVE  Nat \subseteq G
<1> DEFINE bad == Nat \ G
<1> SUFFICES ASSUME bad # {} PROVE FALSE OBVIOUS
<1>1. bad \subseteq Nat OBVIOUS
<1>2. IsWellFoundedOn(LessThan, Nat) BY NatLessThanWellFounded, Zenon DEF OpToRel, LessThan
<1> HIDE DEF bad
<1>3. PICK n \in bad : \A k \in bad : <<k, n>> \notin LessThan BY <1>1, <1>2, WFMin, Zenon
<1>4. n \in Nat /\ n # 0 /\ n \notin G BY DEF bad
<1> DEFINE k == n - 1
<1>5. k \in Nat /\ k + 1 = n /\ k < n BY <1>4
<1> HIDE DEF k
<1>6. <<k, n>> \in LessThan BY <1>4, <1>5 DEF LessThan
<1>7. k \in G BY <1>3, <1>5, <1>6 DEF bad
<1> QED BY <1>4, <1>5, <1>7

\* What FlattenSeq computes along the way.
PhFlattens(s, f, n) == f = [i \in 1 .. n |-> IF i = 1 THEN s[i] ELSE f[i - 1] \o s[i]]

LEMMA PhFlattenExists == ASSUME NEW s PROVE \A n \in Nat : \E f : PhFlattens(s, f, n)
<1> DEFINE G == {n \in Nat : \E f : PhFlattens(s, f, n)}
<1>1. 0 \in G
  <2> DEFINE f == [i \in {} |-> 0]
  <2>1. f = [i \in 1 .. 0 |-> IF i = 1 THEN s[i] ELSE f[i - 1] \o s[i]] OBVIOUS
  <2> HIDE DEF f
  <2> QED BY <2>1 DEF PhFlattens
<1>2. ASSUME NEW n \in Nat, n \in G PROVE n + 1 \in G
  <2>1. PICK f : PhFlattens(s, f, n) BY <1>2
  <2> DEFINE e(g, i) == IF i = 1 THEN s[i] ELSE g[i - 1] \o s[i]
             g == [i \in 1 .. n + 1 |-> e(f, i)]
  <2>2. ASSUME NEW i \in 1 .. n PROVE g[i] = f[i]
    <3>1. i \in 1 .. n + 1 OBVIOUS
    <3>2. g[i] = e(f, i) BY <3>1
    <3>3. f = [j \in 1 .. n |-> e(f, j)] BY <2>1 DEF PhFlattens
    <3> HIDE DEF e, g
    <3>4. f[i] = e(f, i) BY <3>3
    <3> QED BY <3>2, <3>4
  <2>3. \A i \in 1 .. n + 1 : i = 1 \/ i - 1 \in 1 .. n OBVIOUS
  <2>4. \A i \in 1 .. n + 1 : e(f, i) = e(g, i) BY <2>2, <2>3
  <2>5. g = [i \in 1 .. n + 1 |-> e(g, i)]
    <3> HIDE DEF e
    <3> QED BY <2>4
  <2> HIDE DEF g
  <2>6. PhFlattens(s, g, n + 1) BY <2>5 DEF PhFlattens
  <2> QED BY <2>6
<1> HIDE DEF G
<1>3. Nat \subseteq G BY <1>1, <1>2, UpFromZero
<1> QED BY <1>3 DEF G

LEMMA PhFlattened ==
    ASSUME NEW S, NEW s \in Seq(S), s # <<>>
    PROVE  \E f : PhFlattens(s, f, Len(s)) /\ FlattenSeq(s) = f[Len(s)]
<1> DEFINE f == CHOOSE g : PhFlattens(s, g, Len(s))
<1>1. PhFlattens(s, f, Len(s)) BY PhFlattenExists
<1>2. Len(s) # 0 BY EmptySeq
<1>3. FlattenSeq(s) = f[Len(s)] BY <1>2 DEF FlattenSeq, PhFlattens
<1> QED BY <1>1, <1>3

\* Each element comes from a place of its own, and every place that is not empty is used.
PhPlaced(K, u, s, n) ==
    /\ u \in Seq(K)
    /\ \E h \in [1 .. Len(u) -> 1 .. n] :
        /\ \A a \in 1 .. Len(u) : s[h[a]] = <<u[a]>>
        /\ \A a, b \in 1 .. Len(u) : h[a] = h[b] => a = b
        /\ \A i \in 1 .. n : s[i] # <<>> => \E a \in 1 .. Len(u) : h[a] = i

LEMMA PhPlaceNext ==
    ASSUME NEW K, NEW u, NEW s, NEW n \in Nat, PhPlaced(K, u, s, n),
           s[n + 1] = <<>> \/ \E x \in K : s[n + 1] = <<x>>
    PROVE  PhPlaced(K, u \o s[n + 1], s, n + 1)
<1> DEFINE l == Len(u)
           w == u \o s[n + 1]
<1>0. u \in Seq(K) /\ l \in Nat BY DEF PhPlaced
<1>1. PICK h \in [1 .. l -> 1 .. n] :
        /\ \A a \in 1 .. l : s[h[a]] = <<u[a]>>
        /\ \A a, b \in 1 .. l : h[a] = h[b] => a = b
        /\ \A i \in 1 .. n : s[i] # <<>> => \E a \in 1 .. l : h[a] = i
  BY DEF PhPlaced
<1>2. CASE s[n + 1] = <<>>
  <2>1. w = u BY <1>0, <1>2
  <2>2. h \in [1 .. l -> 1 .. n + 1] BY <1>1
  <2>3. \A i \in 1 .. n + 1 : i \in 1 .. n \/ i = n + 1 OBVIOUS
  <2>4. \A i \in 1 .. n + 1 : s[i] # <<>> => \E a \in 1 .. l : h[a] = i
    BY <1>1, <1>2, <2>3
  <2> HIDE DEF w
  <2> QED BY <1>0, <1>1, <2>1, <2>2, <2>4 DEF PhPlaced, w
<1>3. ASSUME NEW x \in K, s[n + 1] = <<x>> PROVE PhPlaced(K, w, s, n + 1)
  <2> DEFINE d == [a \in 1 .. l + 1 |-> IF a = l + 1 THEN n + 1 ELSE h[a]]
  <2>1. w \in Seq(K) /\ Len(w) = l + 1 /\ w[l + 1] = x /\ \A a \in 1 .. l : w[a] = u[a]
    BY <1>0, <1>3
  <2>2. \A a \in 1 .. l + 1 : a \in 1 .. l \/ a = l + 1 BY <1>0
  <2>3. \A a \in 1 .. l : h[a] \in 1 .. n /\ h[a] # n + 1 /\ a # l + 1 BY <1>0, <1>1
  <2>4. \A a \in 1 .. l : a \in 1 .. l + 1 /\ d[a] = h[a] BY <1>0, <2>3
  <2>5. l + 1 \in 1 .. l + 1 /\ d[l + 1] = n + 1 BY <1>0
  <2>6. \A i \in 1 .. n + 1 : i \in 1 .. n \/ i = n + 1 OBVIOUS
  <2>7. n + 1 \in 1 .. n + 1 /\ 1 .. n \subseteq 1 .. n + 1 OBVIOUS
  <2> HIDE DEF w
  <2>8. d \in [1 .. l + 1 -> 1 .. n + 1] BY <2>2, <2>3, <2>7
  <2> HIDE DEF d
  <2>9. \A a \in 1 .. l + 1 : s[d[a]] = <<w[a]>>
    BY <1>1, <1>3, <2>1, <2>2, <2>4, <2>5
  <2>10. \A a, b \in 1 .. l + 1 : d[a] = d[b] => a = b
    BY <1>1, <2>2, <2>3, <2>4, <2>5
  <2>11. \A i \in 1 .. n + 1 : s[i] # <<>> => \E a \in 1 .. l + 1 : d[a] = i
    BY <1>1, <2>4, <2>5, <2>6
  <2> HIDE DEF l
  <2>12. \E g \in [1 .. l + 1 -> 1 .. n + 1] :
            /\ \A a \in 1 .. l + 1 : s[g[a]] = <<w[a]>>
            /\ \A a, b \in 1 .. l + 1 : g[a] = g[b] => a = b
            /\ \A i \in 1 .. n + 1 : s[i] # <<>> => \E a \in 1 .. l + 1 : g[a] = i
    BY <2>8, <2>9, <2>10, <2>11
  <2>13. w \in Seq(K) /\ Len(w) = l + 1 BY <2>1
  <2> DEFINE q == Len(w)
  <2>14. q = l + 1 BY <2>13
  <2> HIDE DEF q
  <2>15. \E g \in [1 .. q -> 1 .. n + 1] :
            /\ \A a \in 1 .. q : s[g[a]] = <<w[a]>>
            /\ \A a, b \in 1 .. q : g[a] = g[b] => a = b
            /\ \A i \in 1 .. n + 1 : s[i] # <<>> => \E a \in 1 .. q : g[a] = i
    BY <2>12, <2>14
  <2> QED BY <2>13, <2>15, Zenon DEF PhPlaced, q
<1> QED BY <1>2, <1>3

LEMMA PhFlat ==
    ASSUME NEW K, NEW S, NEW s \in Seq(S),
           \A i \in 1 .. Len(s) : s[i] = <<>> \/ \E x \in K : s[i] = <<x>>
    PROVE  PhPlaced(K, FlattenSeq(s), s, Len(s))
<1> DEFINE N == Len(s)
<1>0. N \in Nat OBVIOUS
<1>1. PhPlaced(K, <<>>, s, 0)
  <2>1. <<>> \in Seq(K) /\ Len(<<>>) = 0 /\ 1 .. 0 = {} OBVIOUS
  <2>2. [a \in {} |-> 0] \in [{} -> {}] OBVIOUS
  <2> QED BY <2>1, <2>2 DEF PhPlaced
<1>2. CASE s = <<>>
  <2>1. Len(s) = 0 BY <1>2
  <2>2. FlattenSeq(s) = <<>> BY <1>2, <2>1 DEF FlattenSeq
  <2> QED BY <1>1, <2>1, <2>2
<1>3. CASE s # <<>>
  <2>1. PICK f : PhFlattens(s, f, N) /\ FlattenSeq(s) = f[N] BY <1>3, PhFlattened
  <2>2. N # 0 BY <1>3, EmptySeq
  <2> DEFINE G == {m \in Nat : m \in 1 .. N => PhPlaced(K, f[m], s, m)}
  <2>3. 0 \in G OBVIOUS
  <2>4. ASSUME NEW m \in Nat, m \in G PROVE m + 1 \in G
    <3> SUFFICES ASSUME m + 1 \in 1 .. N PROVE PhPlaced(K, f[m + 1], s, m + 1) OBVIOUS
    <3>1. f[m + 1] = IF m + 1 = 1 THEN s[m + 1] ELSE f[(m + 1) - 1] \o s[m + 1]
      BY <2>1 DEF PhFlattens
    <3>2. s[m + 1] = <<>> \/ \E x \in K : s[m + 1] = <<x>> OBVIOUS
    <3>3. CASE m = 0
      <4>1. f[m + 1] = s[m + 1] BY <3>1, <3>3
      <4>2. s[m + 1] = <<>> \o s[m + 1] BY <3>2
      <4>3. PhPlaced(K, <<>> \o s[m + 1], s, m + 1) BY <1>1, <3>2, <3>3, PhPlaceNext
      <4> QED BY <4>1, <4>2, <4>3
    <3>4. CASE m # 0
      <4>1. m \in 1 .. N /\ (m + 1) - 1 = m BY <1>0, <3>4
      <4>2. PhPlaced(K, f[m], s, m) BY <2>4, <4>1
      <4>3. f[m + 1] = f[m] \o s[m + 1]
        <5>1. m + 1 # 1 BY <3>4
        <5> QED BY <3>1, <4>1, <5>1
      <4>4. PhPlaced(K, f[m] \o s[m + 1], s, m + 1) BY <3>2, <4>2, PhPlaceNext
      <4> QED BY <4>3, <4>4
    <3> QED BY <3>3, <3>4
  <2> HIDE DEF G
  <2>5. Nat \subseteq G BY <2>3, <2>4, UpFromZero
  <2>6. N \in G /\ N \in 1 .. N BY <1>0, <2>2, <2>5
  <2> QED BY <2>1, <2>6 DEF G
<1> QED BY <1>2, <1>3

PhKinds == DOMAIN PhPoints

LEMMA PhPointsType ==
    /\ \A k \in PhKinds : PhPoints[k] \in Nat
    /\ IsFiniteSet(PhKinds)
    /\ PhPoints["link_mismatch"] = 20 /\ PhPoints["openphish_url"] = 70
<1>1. PhKinds = {"dmarc_fail", "spf_fail", "dkim_fail", "reply_to_mismatch",
        "return_path_mismatch", "display_name_spoof", "domain_lookalike",
        "idn_homograph", "link_mismatch", "openphish_url", "openphish_domain"}
  BY DEF PhKinds, PhPoints
<1>2. IsFiniteSet(PhKinds)
  <2>1. \A T, x : IsFiniteSet(T) => IsFiniteSet(T \cup {x}) BY FS_AddElement
  <2>2. IsFiniteSet({} \cup {"dmarc_fail"} \cup {"spf_fail"} \cup {"dkim_fail"}
            \cup {"reply_to_mismatch"} \cup {"return_path_mismatch"} \cup {"display_name_spoof"})
    BY <2>1, FS_EmptySet, Zenon
  <2>3. IsFiniteSet({} \cup {"domain_lookalike"} \cup {"idn_homograph"} \cup {"link_mismatch"}
            \cup {"openphish_url"} \cup {"openphish_domain"})
    BY <2>1, FS_EmptySet, Zenon
  <2>4. \A T, U : IsFiniteSet(T) /\ IsFiniteSet(U) => IsFiniteSet(T \cup U) BY FS_Union
  <2>5. PhKinds = ({} \cup {"dmarc_fail"} \cup {"spf_fail"} \cup {"dkim_fail"}
            \cup {"reply_to_mismatch"} \cup {"return_path_mismatch"} \cup {"display_name_spoof"})
         \cup ({} \cup {"domain_lookalike"} \cup {"idn_homograph"} \cup {"link_mismatch"}
            \cup {"openphish_url"} \cup {"openphish_domain"})
    BY <1>1
  <2> QED BY <2>2, <2>3, <2>4, <2>5, Zenon
<1>3. \A k \in PhKinds : PhPoints[k] \in Nat BY <1>1 DEF PhPoints
<1> QED BY <1>1, <1>2, <1>3 DEF PhPoints

\* The points of each finding.
PhPointsOf(u) == [i \in 1 .. Len(u) |-> PhPoints[u[i]]]

LEMMA PhPointsOfType ==
    ASSUME NEW u \in Seq(PhKinds)
    PROVE  /\ \A i \in 1 .. Len(u) : PhPointsOf(u)[i] \in Nat
           /\ IsFiniteSet(1 .. Len(u))
<1>1. Len(u) \in Int /\ 1 \in Int OBVIOUS
<1>2. IsFiniteSet(1 .. Len(u)) BY <1>1, FS_Interval
<1>3. \A i \in 1 .. Len(u) : PhPointsOf(u)[i] = PhPoints[u[i]] /\ u[i] \in PhKinds BY DEF PhPointsOf
<1> QED BY <1>2, <1>3, PhPointsType

LEMMA PhSumFolds ==
    ASSUME NEW S, IsFiniteSet(S), NEW u, DOMAIN u = S, NEW fn,
           \A y \in S : fn[y] = PhPoints[u[y]], \A y \in S : fn[y] \in Nat
    PROVE  PhSum(u) = Cardinality(SumPairs(fn, S))
<1> DEFINE rec(g) == [s \in SUBSET S |-> IF s = {} THEN 0
                        ELSE g[s \ {CHOOSE x \in s : TRUE}] + PhPoints[u[CHOOSE x \in s : TRUE]]]
           cards == [s \in SUBSET S |-> Cardinality(SumPairs(fn, s))]
           iter == CHOOSE g : g = rec(g)
<1>0. DOMAIN u = S /\ IsFiniteSet(S) /\ \A y \in S : fn[y] = PhPoints[u[y]] /\ fn[y] \in Nat
  OBVIOUS
<1>1. PhSum(u) = iter[S]
  BY <1>0 DEF PhSum, FoldSeq, FoldFunction, FoldFunctionOnSet, MapThenFoldSet
<1>2. cards = rec(cards)
  <2>1. ASSUME NEW s \in SUBSET S, s # {}
        PROVE  cards[s] = cards[s \ {CHOOSE x \in s : TRUE}] + PhPoints[u[CHOOSE x \in s : TRUE]]
    <3> DEFINE x == CHOOSE y \in s : TRUE
    <3>0. x \in s BY <2>1
    <3> HIDE DEF x
    <3>y. \A y \in S : fn[y] \in Nat BY <1>0
    <3>a. fn[x] \in Nat BY <3>0, <3>y
    <3>b. s \ {x} \in SUBSET S OBVIOUS
    <3>c. /\ Cardinality(SumPairs(fn, s \ {x})) \in Nat
          /\ Cardinality(SumPairs(fn, s)) = fn[x] + Cardinality(SumPairs(fn, s \ {x}))
      BY <3>0, SumCards
    <3>1. /\ fn[x] \in Nat /\ s \ {x} \in SUBSET S
          /\ Cardinality(SumPairs(fn, s \ {x})) \in Nat
          /\ Cardinality(SumPairs(fn, s)) = fn[x] + Cardinality(SumPairs(fn, s \ {x}))
      BY <3>a, <3>b, <3>c
    <3>2. fn[x] = PhPoints[u[x]] BY <1>0, <3>0
    <3>3. cards[s] = cards[s \ {x}] + PhPoints[u[x]] BY <3>1, <3>2
    <3> QED BY <3>3 DEF x
  <2>2. SumPairs(fn, {}) = {} BY DEF SumPairs
  <2>3. cards[{}] = 0 BY <2>2, FS_EmptySet
  <2> QED BY <2>1, <2>3
<1>3. iter = rec(iter) BY <1>2
<1> HIDE DEF iter
<1>4. iter[{}] = 0 BY <1>3
<1>5. ASSUME NEW s \in SUBSET S, s # {}, iter[s \ {CHOOSE x \in s : TRUE}] \in Nat
      PROVE  iter[s] = fn[CHOOSE x \in s : TRUE] + iter[s \ {CHOOSE x \in s : TRUE}]
  <2> DEFINE x == CHOOSE y \in s : TRUE
  <2>1. iter[s] = iter[s \ {x}] + PhPoints[u[x]] BY <1>3, <1>5
  <2>2. x \in S BY <1>5
  <2> HIDE DEF x
  <2>3. fn[x] = PhPoints[u[x]] /\ fn[x] \in Nat BY <1>0, <2>2
  <2>4. iter[s \ {x}] \in Nat BY <1>5 DEF x
  <2>5. iter[s] = fn[x] + iter[s \ {x}] BY <2>1, <2>3, <2>4
  <2> QED BY <2>5 DEF x
<1>6. iter[S] = Cardinality(SumPairs(fn, S)) BY <1>0, <1>4, <1>5, SumFolded
<1> QED BY <1>1, <1>6

LEMMA PhSumIsCard ==
    ASSUME NEW u \in Seq(PhKinds)
    PROVE  PhSum(u) = Cardinality(SumPairs(PhPointsOf(u), 1 .. Len(u)))
<1> DEFINE S == 1 .. Len(u)
           fn == PhPointsOf(u)
<1>1. DOMAIN u = S /\ IsFiniteSet(S) BY PhPointsOfType
<1>2. (\A y \in S : fn[y] = PhPoints[u[y]]) /\ \A y \in S : fn[y] \in Nat
  BY PhPointsOfType DEF PhPointsOf
<1> HIDE DEF S, fn
<1>3. PhSum(u) = Cardinality(SumPairs(fn, S)) BY <1>1, <1>2, PhSumFolds
<1> QED BY <1>3 DEF S, fn

\* The reference sum over the kinds.
LEMMA PhKindsSum ==
    ASSUME NEW S \in SUBSET PhKinds
    PROVE  FoldSet(LAMBDA kind, sum : sum + PhPoints[kind], 0, S) = SumOf(PhPoints, S)
<1> DEFINE rec(g) == [s \in SUBSET S |-> IF s = {} THEN 0
                        ELSE g[s \ {CHOOSE x \in s : TRUE}] + PhPoints[CHOOSE x \in s : TRUE]]
           cards == [s \in SUBSET S |-> Cardinality(SumPairs(PhPoints, s))]
           iter == CHOOSE g : g = rec(g)
<1>0. IsFiniteSet(S) /\ \A y \in S : PhPoints[y] \in Nat BY PhPointsType, FS_Subset
<1>1. FoldSet(LAMBDA kind, sum : sum + PhPoints[kind], 0, S) = iter[S]
  BY DEF FoldSet, MapThenFoldSet
<1>2. cards = rec(cards)
  <2>1. ASSUME NEW s \in SUBSET S, s # {}
        PROVE  cards[s] = cards[s \ {CHOOSE x \in s : TRUE}] + PhPoints[CHOOSE x \in s : TRUE]
    <3> DEFINE x == CHOOSE y \in s : TRUE
    <3>0. x \in s BY <2>1
    <3> HIDE DEF x
    <3>1. /\ PhPoints[x] \in Nat /\ s \ {x} \in SUBSET S
          /\ Cardinality(SumPairs(PhPoints, s \ {x})) \in Nat
          /\ Cardinality(SumPairs(PhPoints, s)) = PhPoints[x] + Cardinality(SumPairs(PhPoints, s \ {x}))
      BY <1>0, <3>0, SumCards
    <3>3. cards[s] = cards[s \ {x}] + PhPoints[x] BY <3>1
    <3> QED BY <3>3 DEF x
  <2>2. SumPairs(PhPoints, {}) = {} BY DEF SumPairs
  <2>3. cards[{}] = 0 BY <2>2, FS_EmptySet
  <2> QED BY <2>1, <2>3
<1>3. iter = rec(iter) BY <1>2
<1> HIDE DEF iter
<1>4. iter[{}] = 0 BY <1>3
<1>5. ASSUME NEW s \in SUBSET S, s # {}, iter[s \ {CHOOSE x \in s : TRUE}] \in Nat
      PROVE  iter[s] = PhPoints[CHOOSE x \in s : TRUE] + iter[s \ {CHOOSE x \in s : TRUE}]
  <2> DEFINE x == CHOOSE y \in s : TRUE
  <2>1. iter[s] = iter[s \ {x}] + PhPoints[x] BY <1>3, <1>5
  <2>2. x \in S BY <1>5
  <2> HIDE DEF x
  <2>3. PhPoints[x] \in Nat BY <1>0, <2>2
  <2>4. iter[s \ {x}] \in Nat BY <1>5 DEF x
  <2>5. iter[s] = PhPoints[x] + iter[s \ {x}] BY <2>1, <2>3, <2>4
  <2> QED BY <2>5 DEF x
<1>6. iter[S] = Cardinality(SumPairs(PhPoints, S)) BY <1>0, <1>4, <1>5, SumFolded
<1> QED BY <1>0, <1>1, <1>6, SumIsCard

\* Pairs that correspond are as many.
LEMMA PhSameCard ==
    ASSUME NEW P, NEW Q, IsFiniteSet(P), NEW f \in [P -> Q],
           \A p, q \in P : f[p] = f[q] => p = q, \A q \in Q : \E p \in P : f[p] = q
    PROVE  IsFiniteSet(Q) /\ Cardinality(Q) = Cardinality(P)
<1>1. f \in Bijection(P, Q) BY DEF Bijection, Injection, Surjection, IsInjective
<1>2. ExistsBijection(P, Q) BY <1>1 DEF ExistsBijection
<1> QED BY <1>2, FS_Bijection

LEMMA PhSumOnce ==
    ASSUME NEW u \in Seq(PhKinds), \A i, j \in 1 .. Len(u) : u[i] = u[j] => i = j
    PROVE  PhSum(u) = SumOf(PhPoints, Range(u))
<1> DEFINE S == 1 .. Len(u)
           P == SumPairs(PhPointsOf(u), S)
           Q == SumPairs(PhPoints, Range(u))
           f == [p \in P |-> <<u[p[1]], p[2]>>]
<1>1. IsFiniteSet(S) /\ (\A i \in S : PhPointsOf(u)[i] \in Nat) /\ S \in SUBSET S BY PhPointsOfType
<1>2. IsFiniteSet(P) BY <1>1, SumPairsFinite
<1>3. Range(u) = {u[i] : i \in S} /\ Range(u) \subseteq PhKinds BY DEF Range
<1>4. IsFiniteSet(Range(u)) /\ \A y \in Range(u) : PhPoints[y] \in Nat
  BY <1>3, PhPointsType, FS_Subset
<1>5. \A p \in P : p[1] \in S /\ p[2] \in Nat /\ p = <<p[1], p[2]>>
      /\ p[2] \in 1 .. PhPoints[u[p[1]]]
  BY DEF SumPairs, PhPointsOf
<1>6. \A i \in S, n \in Nat : n \in 1 .. PhPoints[u[i]] => <<i, n>> \in P
  BY DEF SumPairs, PhPointsOf
<1>7. \A q \in Q : q[1] \in Range(u) /\ q[2] \in Nat /\ q = <<q[1], q[2]>>
      /\ q[2] \in 1 .. PhPoints[q[1]]
  BY DEF SumPairs
<1>8. \A y \in Range(u), n \in Nat : n \in 1 .. PhPoints[y] => <<y, n>> \in Q
  BY DEF SumPairs
<1>9. PhSum(u) = Cardinality(P) /\ SumOf(PhPoints, Range(u)) = Cardinality(Q)
  BY <1>4, PhSumIsCard, SumIsCard
<1> HIDE DEF P, Q
<1>10. f \in [P -> Q] BY <1>3, <1>5, <1>8
<1>11. \A p, q \in P : f[p] = f[q] => p = q
  <2> SUFFICES ASSUME NEW p \in P, NEW q \in P, f[p] = f[q] PROVE p = q OBVIOUS
  <2>1. u[p[1]] = u[q[1]] /\ p[2] = q[2] OBVIOUS
  <2>2. p[1] = q[1] BY <1>5, <2>1
  <2> QED BY <1>5, <2>1, <2>2
<1>12. ASSUME NEW q \in Q PROVE \E p \in P : f[p] = q
  <2>1. PICK i \in S : q[1] = u[i] BY <1>3, <1>7
  <2>2. <<i, q[2]>> \in P BY <1>6, <1>7, <2>1
  <2>3. f[<<i, q[2]>>] = q BY <1>7, <2>1, <2>2
  <2> QED BY <2>2, <2>3
<1> HIDE DEF f
<1> QED BY <1>2, <1>9, <1>10, <1>11, <1>12, PhSameCard

LEMMA PhSumConcat ==
    ASSUME NEW u \in Seq(PhKinds), NEW w \in Seq(PhKinds)
    PROVE  /\ u \o w \in Seq(PhKinds) /\ PhSum(u \o w) = PhSum(u) + PhSum(w)
           /\ PhSum(u) \in Nat /\ PhSum(w) \in Nat
<1> DEFINE l == Len(u)
           m == Len(w)
           v == u \o w
           P == SumPairs(PhPointsOf(u), 1 .. l)
           Q == SumPairs(PhPointsOf(w), 1 .. m)
           R == SumPairs(PhPointsOf(v), 1 .. l + m)
           T == {p \in R : p[1] > l}
           f == [p \in Q |-> <<p[1] + l, p[2]>>]
<1>1. l \in Nat /\ m \in Nat /\ v \in Seq(PhKinds) /\ Len(v) = l + m OBVIOUS
<1>2. (\A i \in 1 .. l : v[i] = u[i]) /\ (\A i \in 1 .. m : v[i + l] = w[i]) OBVIOUS
<1>3. /\ PhSum(u) = Cardinality(P) /\ PhSum(w) = Cardinality(Q) /\ PhSum(v) = Cardinality(R)
  BY <1>1, PhSumIsCard
<1>4. /\ IsFiniteSet(P) /\ IsFiniteSet(Q) /\ Cardinality(P) \in Nat /\ Cardinality(Q) \in Nat
  BY PhPointsOfType, SumPairsFinite
<1>5. \A p \in P : p[1] \in 1 .. l /\ p[2] \in Nat /\ p = <<p[1], p[2]>>
      /\ p[2] \in 1 .. PhPoints[u[p[1]]]
  BY DEF SumPairs, PhPointsOf
<1>6. \A p \in Q : p[1] \in 1 .. m /\ p[2] \in Nat /\ p = <<p[1], p[2]>>
      /\ p[2] \in 1 .. PhPoints[w[p[1]]]
  BY DEF SumPairs, PhPointsOf
<1>7. \A p \in R : p[1] \in 1 .. l + m /\ p[2] \in Nat /\ p = <<p[1], p[2]>>
      /\ p[2] \in 1 .. PhPoints[v[p[1]]]
  BY <1>1 DEF SumPairs, PhPointsOf
<1>8. \A i \in 1 .. l, n \in Nat : n \in 1 .. PhPoints[u[i]] => <<i, n>> \in P
  BY DEF SumPairs, PhPointsOf
<1>9. \A i \in 1 .. m, n \in Nat : n \in 1 .. PhPoints[w[i]] => <<i, n>> \in Q
  BY DEF SumPairs, PhPointsOf
<1>10. \A i \in 1 .. l + m, n \in Nat : n \in 1 .. PhPoints[v[i]] => <<i, n>> \in R
  BY <1>1 DEF SumPairs, PhPointsOf
<1> HIDE DEF P, Q, R, v, l, m
<1>11. f \in [Q -> T]
  <2> SUFFICES ASSUME NEW p \in Q PROVE <<p[1] + l, p[2]>> \in T OBVIOUS
  <2>1. p[1] \in 1 .. m /\ p[2] \in Nat /\ p[2] \in 1 .. PhPoints[v[p[1] + l]] BY <1>2, <1>6
  <2>2. p[1] + l \in 1 .. l + m /\ p[1] + l > l BY <1>1, <2>1
  <2> QED BY <1>10, <2>1, <2>2
<1>12. \A p, q \in Q : f[p] = f[q] => p = q
  <2> SUFFICES ASSUME NEW p \in Q, NEW q \in Q, f[p] = f[q] PROVE p = q OBVIOUS
  <2>1. p[1] + l = q[1] + l /\ p[2] = q[2] OBVIOUS
  <2>2. p[1] \in Nat /\ q[1] \in Nat BY <1>1, <1>6
  <2>3. p[1] = q[1] BY <1>1, <2>1, <2>2
  <2> QED BY <1>6, <2>1, <2>3
<1>13. ASSUME NEW q \in T PROVE \E p \in Q : f[p] = q
  <2>1. q \in R /\ q[1] > l /\ q[1] \in 1 .. l + m BY <1>7
  <2> DEFINE i == q[1] - l
  <2>2. i \in 1 .. m /\ i + l = q[1] BY <1>1, <2>1
  <2> HIDE DEF i
  <2>3. q[2] \in Nat /\ q[2] \in 1 .. PhPoints[w[i]] BY <1>2, <1>7, <2>1, <2>2
  <2>4. <<i, q[2]>> \in Q BY <1>9, <2>2, <2>3
  <2>5. f[<<i, q[2]>>] = q BY <1>7, <2>1, <2>2, <2>4
  <2> QED BY <2>4, <2>5
<1>14. R = P \cup T
  <2>1. ASSUME NEW p \in P PROVE p \in R
    <3>1. p[1] \in 1 .. l + m /\ v[p[1]] = u[p[1]] BY <1>1, <1>2, <1>5
    <3> QED BY <1>5, <1>10, <3>1
  <2>2. ASSUME NEW p \in R, ~(p[1] > l) PROVE p \in P
    <3>1. p[1] \in 1 .. l BY <1>1, <1>7, <2>2
    <3>2. p[2] \in 1 .. PhPoints[u[p[1]]] BY <1>2, <1>7, <3>1
    <3> QED BY <1>7, <1>8, <3>1, <3>2
  <2> QED BY <2>1, <2>2
<1>15. P \cap T = {} BY <1>1, <1>5
<1> HIDE DEF f, T
<1>16. IsFiniteSet(T) /\ Cardinality(T) = Cardinality(Q)
  BY <1>4, <1>11, <1>12, <1>13, PhSameCard
<1>17. Cardinality(P \cup T) = Cardinality(P) + Cardinality(T) - Cardinality(P \cap T)
  BY <1>4, <1>16, FS_Union
<1>18. Cardinality(P \cap T) = 0 BY <1>15, FS_EmptySet
<1>19. PhSum(v) = PhSum(u) + PhSum(w) BY <1>3, <1>4, <1>14, <1>16, <1>17, <1>18
<1> QED BY <1>1, <1>3, <1>4, <1>19 DEF v

LEMMA PhSumLinks ==
    ASSUME NEW n \in Nat
    PROVE  /\ [i \in 1 .. n |-> "link_mismatch"] \in Seq(PhKinds)
           /\ PhSum([i \in 1 .. n |-> "link_mismatch"]) = 20 * n
<1> DEFINE u == [i \in 1 .. n |-> "link_mismatch"]
           P == (1 .. n) \X (1 .. 20)
<1>1. "link_mismatch" \in PhKinds BY DEF PhKinds, PhPoints
<1>2. u \in Seq(PhKinds) /\ Len(u) = n BY <1>1
<1>3. PhSum(u) = Cardinality(SumPairs(PhPointsOf(u), 1 .. n)) BY <1>2, PhSumIsCard
<1>4. \A i \in 1 .. n : PhPointsOf(u)[i] = 20 BY <1>2, PhPointsType DEF PhPointsOf
<1>5. SumPairs(PhPointsOf(u), 1 .. n) = P
  <2>1. SumPairs(PhPointsOf(u), 1 .. n) = {p \in (1 .. n) \X Nat : p[2] \in 1 .. 20}
    BY <1>4 DEF SumPairs
  <2>2. {p \in (1 .. n) \X Nat : p[2] \in 1 .. 20} = P OBVIOUS
  <2> QED BY <2>1, <2>2
<1>6. IsFiniteSet(1 .. n) /\ Cardinality(1 .. n) = n
  <2>1. Cardinality(1 .. n) = IF 1 > n THEN 0 ELSE n - 1 + 1 BY FS_Interval
  <2>2. IsFiniteSet(1 .. n) BY FS_Interval
  <2> QED BY <2>1, <2>2
<1>7. IsFiniteSet(1 .. 20) /\ Cardinality(1 .. 20) = 20
  <2> DEFINE m == 20
  <2>1. 1 \in Int /\ m \in Int /\ m > 1 /\ m - 1 + 1 = m OBVIOUS
  <2> HIDE DEF m
  <2>2. /\ IsFiniteSet(1 .. m)
        /\ Cardinality(1 .. m) = IF 1 > m THEN 0 ELSE m - 1 + 1
    BY <2>1, FS_Interval
  <2>3. IsFiniteSet(1 .. m) /\ Cardinality(1 .. m) = m BY <2>1, <2>2
  <2> QED BY <2>3 DEF m
<1>8. Cardinality(P) = Cardinality(1 .. n) * Cardinality(1 .. 20) BY <1>6, <1>7, FS_Product
<1> HIDE DEF u, P
<1>9. Cardinality(P) = n * 20 BY <1>6, <1>7, <1>8
<1>10. PhSum(u) = 20 * n BY <1>3, <1>5, <1>9
<1> QED BY <1>2, <1>10 DEF u

-----------------------------------------------------------------------------
(* Which kinds a list has, and which of them more than once. *)

\* Only the kinds of D occur twice.
PhTwiceIn(u, D) == \A i, j \in 1 .. Len(u) : u[i] = u[j] => i = j \/ u[i] \in D

PhList(u, kinds, D) == u \in Seq(PhKinds) /\ Range(u) = kinds /\ PhTwiceIn(u, D)

LEMMA PhRange == ASSUME NEW u \in Seq(PhKinds) PROVE Range(u) = {u[i] : i \in 1 .. Len(u)}
BY DEF Range

LEMMA PhIfList ==
    ASSUME NEW k \in PhKinds, NEW c
    PROVE  PhList(PhIf(c, k), IF c THEN {k} ELSE {}, {})
<1>1. CASE c
  <2>1. <<k>> \in Seq(PhKinds) /\ Len(<<k>>) = 1 /\ <<k>>[1] = k OBVIOUS
  <2>0. DOMAIN <<k>> = {1} OBVIOUS
  <2>2. Range(<<k>>) = {k} BY <2>0, <2>1 DEF Range
  <2>3. PhTwiceIn(<<k>>, {}) BY <2>1 DEF PhTwiceIn
  <2> QED BY <1>1, <2>1, <2>2, <2>3 DEF PhIf, PhList
<1>2. CASE ~c
  <2>1. <<>> \in Seq(PhKinds) /\ Len(<<>>) = 0 OBVIOUS
  <2>0. DOMAIN <<>> = {} OBVIOUS
  <2>2. Range(<<>>) = {} BY <2>0 DEF Range
  <2>3. PhTwiceIn(<<>>, {}) BY <2>1 DEF PhTwiceIn
  <2> QED BY <1>2, <2>1, <2>2, <2>3 DEF PhIf, PhList
<1> QED BY <1>1, <1>2

LEMMA PhJoin ==
    ASSUME NEW u, NEW w, NEW A, NEW B, NEW D, PhList(u, A, D), PhList(w, B, D), A \cap B \subseteq D
    PROVE  PhList(u \o w, A \cup B, D)
<1> DEFINE l == Len(u)
           m == Len(w)
           v == u \o w
<1>1. u \in Seq(PhKinds) /\ w \in Seq(PhKinds) BY DEF PhList
<1>2. l \in Nat /\ m \in Nat /\ v \in Seq(PhKinds) /\ Len(v) = l + m BY <1>1
<1>3. (\A i \in 1 .. l : v[i] = u[i]) /\ (\A i \in 1 .. m : v[i + l] = w[i]) BY <1>1
<1>4. Range(u) = {u[i] : i \in 1 .. l} /\ Range(w) = {w[i] : i \in 1 .. m}
      /\ Range(v) = {v[i] : i \in 1 .. l + m}
  BY <1>1, <1>2, PhRange
<1>5. A = Range(u) /\ B = Range(w) /\ PhTwiceIn(u, D) /\ PhTwiceIn(w, D) BY DEF PhList
<1>6. /\ \A i, j \in 1 .. l : u[i] = u[j] => i = j \/ u[i] \in D
      /\ \A i, j \in 1 .. m : w[i] = w[j] => i = j \/ w[i] \in D
  BY <1>5 DEF PhTwiceIn
<1> HIDE DEF l, m, v
<1>7. \A i \in 1 .. l + m : i \in 1 .. l \/ (i - l \in 1 .. m /\ (i - l) + l = i) BY <1>2
<1>8. \A i \in 1 .. m : i + l \in 1 .. l + m BY <1>2
<1>9. \A i \in 1 .. l : i \in 1 .. l + m BY <1>2
<1>10. Range(v) = A \cup B
  <2>1. ASSUME NEW i \in 1 .. l + m PROVE v[i] \in A \cup B BY <1>3, <1>4, <1>5, <1>7
  <2>2. \A i \in 1 .. l : u[i] \in Range(v) BY <1>3, <1>4, <1>9
  <2>3. \A i \in 1 .. m : w[i] \in Range(v) BY <1>3, <1>4, <1>8
  <2> QED BY <1>4, <1>5, <2>1, <2>2, <2>3
<1>11. ASSUME NEW i \in 1 .. l + m, NEW j \in 1 .. l + m, v[i] = v[j] PROVE i = j \/ v[i] \in D
  <2>1. CASE i \in 1 .. l /\ j \in 1 .. l BY <1>3, <1>6, <1>11, <2>1
  <2>2. CASE i \in 1 .. l /\ j \notin 1 .. l
    <3>1. v[i] \in A /\ v[j] \in B BY <1>3, <1>4, <1>5, <1>7, <2>2
    <3> QED BY <1>11, <3>1
  <2>3. CASE i \notin 1 .. l /\ j \in 1 .. l
    <3>1. v[i] \in B /\ v[j] \in A BY <1>3, <1>4, <1>5, <1>7, <2>3
    <3> QED BY <1>11, <3>1
  <2>4. CASE i \notin 1 .. l /\ j \notin 1 .. l
    <3> DEFINE a == i - l
               b == j - l
    <3>1. a \in 1 .. m /\ b \in 1 .. m /\ a + l = i /\ b + l = j BY <1>7, <2>4
    <3> HIDE DEF a, b
    <3>2. w[a] = v[i] /\ w[b] = v[j] BY <1>3, <3>1
    <3>3. a = b \/ v[i] \in D BY <1>6, <1>11, <3>1, <3>2
    <3> QED BY <3>1, <3>3
  <2> QED BY <2>1, <2>2, <2>3, <2>4
<1>12. PhTwiceIn(v, D) BY <1>2, <1>11 DEF PhTwiceIn
<1> QED BY <1>2, <1>10, <1>12 DEF PhList, v

LEMMA PhWeaker ==
    ASSUME NEW u, NEW A, NEW D, NEW E, PhList(u, A, D), D \subseteq E
    PROVE  PhList(u, A, E)
BY DEF PhList, PhTwiceIn

\* A list flattened from pieces of at most one kind each.
LEMMA PhFlatList ==
    ASSUME NEW K \in SUBSET PhKinds, NEW N \in Nat, NEW s, DOMAIN s = 1 .. N,
           s = [i \in 1 .. N |-> s[i]],
           \A i \in 1 .. N : s[i] = <<>> \/ \E x \in K : s[i] = <<x>>
    PROVE  /\ PhList(FlattenSeq(s), {x \in K : \E i \in 1 .. N : s[i] = <<x>>}, K)
           /\ PhPlaced(K, FlattenSeq(s), s, N)
<1> DEFINE S == {s[i] : i \in 1 .. N}
           u == FlattenSeq(s)
           l == Len(u)
<1>1. s \in Seq(S) /\ Len(s) = N OBVIOUS
<1>2. PhPlaced(K, u, s, N) BY <1>1, PhFlat
<1> HIDE DEF u
<1>3. u \in Seq(K) /\ u \in Seq(PhKinds) BY <1>2 DEF PhPlaced
<1>4. PICK h \in [1 .. l -> 1 .. N] :
        /\ \A a \in 1 .. l : s[h[a]] = <<u[a]>>
        /\ \A a, b \in 1 .. l : h[a] = h[b] => a = b
        /\ \A i \in 1 .. N : s[i] # <<>> => \E a \in 1 .. l : h[a] = i
  BY <1>2 DEF PhPlaced
<1>5. Range(u) = {u[i] : i \in 1 .. l} /\ \A i \in 1 .. l : u[i] \in K BY <1>3, PhRange
<1> HIDE DEF l
<1>6. ASSUME NEW a \in 1 .. l PROVE \E i \in 1 .. N : s[i] = <<u[a]>> BY <1>4
<1>7. ASSUME NEW x \in K, NEW i \in 1 .. N, s[i] = <<x>> PROVE x \in Range(u)
  <2>0. <<x>> # <<>> OBVIOUS
  <2>1. s[i] # <<>> BY <1>7, <2>0, Zenon
  <2>2. PICK a \in 1 .. l : h[a] = i BY <1>4, <2>1
  <2>3. <<u[a]>> = <<x>> BY <1>4, <1>7, <2>2
  <2>4. u[a] = x BY <2>3
  <2> QED BY <1>5, <2>4
<1>8. Range(u) = {x \in K : \E i \in 1 .. N : s[i] = <<x>>} BY <1>5, <1>6, <1>7
<1>9. PhTwiceIn(u, K) BY <1>5 DEF PhTwiceIn, l
<1> QED BY <1>2, <1>3, <1>8, <1>9 DEF PhList, u

\* dedup_by_id leaves the kinds as they are, and the one it is about once.
LEMMA PhOnceList ==
    ASSUME NEW u, NEW A, NEW D, PhList(u, A, D), NEW k
    PROVE  PhList(PhOnce(u, k), A, D \ {k})
<1> DEFINE N == Len(u)
           keeps(i) == u[i] # k \/ \A j \in 1 .. i - 1 : u[j] # k
           s == [i \in 1 .. N |-> PhIf(keeps(i), u[i])]
           w == PhOnce(u, k)
           m == Len(w)
<1>1. /\ u \in Seq(PhKinds) /\ N \in Nat /\ DOMAIN u = 1 .. N
      /\ \A i \in 1 .. N : u[i] \in PhKinds
  BY DEF PhList
<1>2. A = {u[i] : i \in 1 .. N} /\ PhTwiceIn(u, D) BY <1>1, PhRange DEF PhList
<1>3. w = FlattenSeq(s) BY <1>1 DEF PhOnce
<1>4. \A i \in 1 .. N : s[i] = IF keeps(i) THEN <<u[i]>> ELSE <<>> BY DEF PhIf
<1>5. DOMAIN s = 1 .. N /\ s = [i \in 1 .. N |-> s[i]] OBVIOUS
<1> HIDE DEF s, w, keeps
<1>6. \A i \in 1 .. N : s[i] = <<>> \/ \E x \in PhKinds : s[i] = <<x>> BY <1>1, <1>4
<1> HIDE DEF N
<1>7. PhList(w, {x \in PhKinds : \E i \in 1 .. N : s[i] = <<x>>}, PhKinds)
      /\ PhPlaced(PhKinds, w, s, N)
  BY <1>1, <1>3, <1>5, <1>6, PhFlatList
<1>8. \A i \in 1 .. N, x \in PhKinds : s[i] = <<x>> => keeps(i) /\ u[i] = x
  <2> SUFFICES ASSUME NEW i \in 1 .. N, NEW x \in PhKinds, s[i] = <<x>> PROVE keeps(i) /\ u[i] = x
    OBVIOUS
  <2>1. s[i] # <<>> OBVIOUS
  <2>2. keeps(i) /\ s[i] = <<u[i]>> BY <1>4, <2>1
  <2>3. <<u[i]>> = <<x>> BY <2>2
  <2> QED BY <2>2, <2>3
<1>9. {x \in PhKinds : \E i \in 1 .. N : s[i] = <<x>>} = A
  <2>1. ASSUME NEW i \in 1 .. N PROVE \E j \in 1 .. N : u[j] = u[i] /\ keeps(j)
    <3>1. CASE keeps(i) BY <3>1
    <3>2. CASE ~keeps(i)
      <4> DEFINE with == {n \in Nat : n \in 1 .. N /\ u[n] = k}
      <4>1. u[i] = k BY <3>2 DEF keeps
      <4>2. with \subseteq Nat /\ i \in with BY <4>1
      <4>3. IsWellFoundedOn(LessThan, Nat) BY NatLessThanWellFounded, Zenon DEF OpToRel, LessThan
      <4> HIDE DEF with
      <4>4. PICK n \in with : \A q \in with : <<q, n>> \notin LessThan BY <4>2, <4>3, WFMin, Zenon
      <4>5. n \in 1 .. N /\ u[n] = k BY DEF with
      <4>6. ASSUME NEW j \in 1 .. n - 1, u[j] = k PROVE FALSE
        <5>1. j \in Nat /\ n \in Nat /\ j < n /\ j \in 1 .. N BY <1>1, <4>5
        <5>2. j \in with BY <4>6, <5>1 DEF with
        <5>3. <<j, n>> \in LessThan BY <5>1 DEF LessThan
        <5> QED BY <4>4, <5>2, <5>3
      <4> QED BY <4>1, <4>5, <4>6 DEF keeps
    <3> QED BY <3>1, <3>2
  <2>2. ASSUME NEW x \in A PROVE x \in PhKinds /\ \E i \in 1 .. N : s[i] = <<x>>
    <3>1. PICK i \in 1 .. N : u[i] = x BY <1>2 DEF N
    <3>2. PICK j \in 1 .. N : u[j] = x /\ keeps(j) BY <2>1, <3>1
    <3> QED BY <1>1, <1>4, <3>1, <3>2
  <2>3. ASSUME NEW x \in PhKinds, NEW i \in 1 .. N, s[i] = <<x>> PROVE x \in A
    BY <1>2, <1>8, <2>3 DEF N
  <2> QED BY <2>2, <2>3
<1>10. w \in Seq(PhKinds) /\ Range(w) = A BY <1>7, <1>9 DEF PhList
<1>11. PICK h \in [1 .. m -> 1 .. N] :
        /\ \A a \in 1 .. m : s[h[a]] = <<w[a]>>
        /\ \A a, b \in 1 .. m : h[a] = h[b] => a = b
  BY <1>7 DEF PhPlaced
<1>12. \A a \in 1 .. m : w[a] \in PhKinds BY <1>10
<1>13. \A a \in 1 .. m : h[a] \in 1 .. N /\ keeps(h[a]) /\ u[h[a]] = w[a] BY <1>8, <1>11, <1>12
<1>14. ASSUME NEW a \in 1 .. m, NEW b \in 1 .. m, w[a] = w[b], a # b PROVE w[a] \in D \ {k}
  <2>1. h[a] # h[b] BY <1>11, <1>14
  <2>2. w[a] \in D BY <1>2, <1>13, <1>14, <2>1 DEF PhTwiceIn, N
  <2>3. ASSUME w[a] = k PROVE FALSE
    <3> DEFINE i == h[a]
               j == h[b]
    <3>1. i \in 1 .. N /\ j \in 1 .. N /\ u[i] = k /\ u[j] = k /\ i # j BY <1>13, <1>14, <2>1, <2>3
    <3>2. keeps(i) /\ keeps(j) BY <1>13
    <3> HIDE DEF i, j
    <3>3. (\A q \in 1 .. i - 1 : u[q] # k) /\ (\A q \in 1 .. j - 1 : u[q] # k)
      BY <3>1, <3>2 DEF keeps
    <3>4. i \in 1 .. j - 1 \/ j \in 1 .. i - 1 BY <1>1, <3>1
    <3> QED BY <3>1, <3>3, <3>4
  <2> QED BY <2>2, <2>3
<1>15. PhTwiceIn(w, D \ {k}) BY <1>14 DEF PhTwiceIn
<1> QED BY <1>10, <1>15 DEF PhList, w

-----------------------------------------------------------------------------
(* The parts of an analysis. *)

PhThe(c, k) == IF c THEN {k} ELSE {}

LEMMA PhRepeatList ==
    ASSUME NEW n \in Nat, NEW k \in PhKinds
    PROVE  PhList([i \in 1 .. n |-> k], PhThe(n # 0, k), {k})
<1> DEFINE u == [i \in 1 .. n |-> k]
<1>1. u \in Seq(PhKinds) /\ Len(u) = n /\ DOMAIN u = 1 .. n OBVIOUS
<1>2. \A i \in 1 .. n : u[i] = k OBVIOUS
<1> HIDE DEF u
<1>3. n # 0 => 1 \in 1 .. n OBVIOUS
<1>4. Range(u) = {u[i] : i \in 1 .. n} BY <1>1 DEF Range
<1>5. Range(u) = PhThe(n # 0, k)
  <2>1. CASE n = 0
    <3>1. 1 .. n = {} BY <2>1
    <3> QED BY <1>4, <2>1, <3>1 DEF PhThe
  <2>2. CASE n # 0 BY <1>2, <1>3, <1>4, <2>2 DEF PhThe
  <2> QED BY <2>1, <2>2
<1>6. PhTwiceIn(u, {k}) BY <1>1, <1>2 DEF PhTwiceIn
<1> QED BY <1>1, <1>5, <1>6 DEF PhList, u

LEMMA PhKindNames ==
    PhKinds = {"dmarc_fail", "spf_fail", "dkim_fail", "reply_to_mismatch",
        "return_path_mismatch", "display_name_spoof", "domain_lookalike",
        "idn_homograph", "link_mismatch", "openphish_url", "openphish_domain"}
BY DEF PhKinds, PhPoints

LEMMA PhIndices ==
    /\ Len(PhBrands) \in Nat /\ DOMAIN PhBrands = 1 .. Len(PhBrands) /\ IsFiniteSet(DOMAIN PhBrands)
    /\ \A in \in PhInputs : Len(in.links) \in Nat /\ DOMAIN in.links = 1 .. Len(in.links)
                            /\ IsFiniteSet(DOMAIN in.links)
<1>1. \A S, s : s \in Seq(S) => Len(s) \in Nat /\ DOMAIN s = 1 .. Len(s) OBVIOUS
<1>2. \A n \in Nat : IsFiniteSet(1 .. n)
  <2> TAKE n \in Nat
  <2>1. n \in Int /\ 1 \in Int OBVIOUS
  <2> QED BY <2>1, FS_Interval
<1> QED BY <1>1, <1>2, PhAssumption

\* The kinds of the header's evidence.
PhFirstKinds(in) ==
    PhThe("dmarc" \in in.failed, "dmarc_fail") \cup PhThe("spf" \in in.failed, "spf_fail")
        \cup PhThe("dkim" \in in.failed, "dkim_fail")
PhAddressKinds(in) ==
    PhThe(PhOtherOrg(in, in.replyTo), "reply_to_mismatch")
        \cup PhThe(PhOtherOrg(in, in.returnPath), "return_path_mismatch")
PhBrandKinds(in) ==
    PhThe(\E n \in PhNames : PhSpoofs(in, n), "display_name_spoof")
        \cup PhThe(\E i \in DOMAIN PhBrands : PhLooksLike(in, PhBrands[i].domain), "domain_lookalike")
PhFeedKinds(in) ==
    PhThe(~in.feedEmpty /\ \E i \in DOMAIN in.links : in.links[i].listed, "openphish_url")
        \cup PhThe(~in.feedEmpty /\ \E i \in DOMAIN in.links :
                       ~in.links[i].listed /\ in.links[i].href \in in.feedHosts, "openphish_domain")

PhMany == {"display_name_spoof", "domain_lookalike"}

LEMMA PhIfThe == ASSUME NEW k \in PhKinds, NEW c, NEW D PROVE PhList(PhIf(c, k), PhThe(c, k), D)
<1>1. PhList(PhIf(c, k), PhThe(c, k), {}) BY PhIfList DEF PhThe
<1> QED BY <1>1, PhWeaker

LEMMA PhAuthList == ASSUME NEW in PROVE PhList(PhAuthFindings(in), PhFirstKinds(in), PhMany)
<1> DEFINE a == PhIf("dmarc" \in in.failed, "dmarc_fail")
           b == PhIf("spf" \in in.failed, "spf_fail")
           c == PhIf("dkim" \in in.failed, "dkim_fail")
           A == PhThe("dmarc" \in in.failed, "dmarc_fail")
           B == PhThe("spf" \in in.failed, "spf_fail")
           C == PhThe("dkim" \in in.failed, "dkim_fail")
<1>1. PhList(a, A, PhMany) /\ PhList(b, B, PhMany) /\ PhList(c, C, PhMany)
  BY PhIfThe, PhKindNames
<1>2. A \cap B \subseteq PhMany /\ (A \cup B) \cap C \subseteq PhMany BY DEF PhThe
<1>3. PhAuthFindings(in) = (a \o b) \o c /\ PhFirstKinds(in) = (A \cup B) \cup C
  BY DEF PhAuthFindings, PhFirstKinds
<1> HIDE DEF a, b, c, A, B, C
<1>4. PhList(a \o b, A \cup B, PhMany) BY <1>1, <1>2, PhJoin
<1>5. PhList((a \o b) \o c, (A \cup B) \cup C, PhMany) BY <1>1, <1>2, <1>4, PhJoin
<1> QED BY <1>3, <1>5

LEMMA PhAddressList == ASSUME NEW in PROVE PhList(PhAddressFindings(in), PhAddressKinds(in), PhMany)
<1> DEFINE a == PhIf(PhOtherOrg(in, in.replyTo), "reply_to_mismatch")
           b == PhIf(PhOtherOrg(in, in.returnPath), "return_path_mismatch")
           A == PhThe(PhOtherOrg(in, in.replyTo), "reply_to_mismatch")
           B == PhThe(PhOtherOrg(in, in.returnPath), "return_path_mismatch")
<1>1. PhList(a, A, PhMany) /\ PhList(b, B, PhMany) BY PhIfThe, PhKindNames
<1>2. A \cap B \subseteq PhMany BY DEF PhThe
<1>3. PhAddressFindings(in) = a \o b /\ PhAddressKinds(in) = A \cup B
  BY DEF PhAddressFindings, PhAddressKinds
<1> HIDE DEF a, b, A, B
<1> QED BY <1>1, <1>2, <1>3, PhJoin

LEMMA PhSpoofCount ==
    ASSUME NEW in
    PROVE  LET spoofs == {n \in PhNames : PhSpoofs(in, n)}
           IN  Cardinality(spoofs) \in Nat
               /\ (Cardinality(spoofs) # 0 <=> \E n \in PhNames : PhSpoofs(in, n))
<1> DEFINE spoofs == {n \in PhNames : PhSpoofs(in, n)}
           f == [i \in DOMAIN PhBrands |-> PhBrands[i].name]
<1>1. f \in Surjection(DOMAIN PhBrands, PhNames) BY DEF PhNames, Surjection
<1>2. IsFiniteSet(PhNames)
  <2> HIDE DEF f
  <2> QED BY <1>1, PhIndices, FS_Surjection
<1>3. IsFiniteSet(spoofs) BY <1>2, FS_Subset
<1>4. Cardinality(spoofs) \in Nat /\ (Cardinality(spoofs) = 0 <=> spoofs = {})
  BY <1>3, FS_CardinalityType, FS_EmptySet
<1> QED BY <1>4

LEMMA PhBrandList == ASSUME NEW in PROVE PhList(PhBrandFindings(in), PhBrandKinds(in), PhMany)
<1> DEFINE n == Cardinality({x \in PhNames : PhSpoofs(in, x)})
           a == [i \in 1 .. n |-> "display_name_spoof"]
           N == Len(PhBrands)
           s == [i \in 1 .. N |-> PhIf(PhLooksLike(in, PhBrands[i].domain), "domain_lookalike")]
           b == FlattenSeq(s)
           A == PhThe(\E x \in PhNames : PhSpoofs(in, x), "display_name_spoof")
           B == PhThe(\E i \in DOMAIN PhBrands : PhLooksLike(in, PhBrands[i].domain), "domain_lookalike")
           K == {"domain_lookalike"}
<1>0. N \in Nat /\ DOMAIN PhBrands = 1 .. N BY PhIndices
<1>1. PhBrandFindings(in) = a \o b /\ PhBrandKinds(in) = A \cup B
  BY <1>0 DEF PhBrandFindings, PhBrandKinds
<1>2. n \in Nat /\ (n # 0 <=> \E x \in PhNames : PhSpoofs(in, x)) BY PhSpoofCount
<1>3. A = PhThe(n # 0, "display_name_spoof") BY <1>2 DEF PhThe
<1>4. PhList(a, A, {"display_name_spoof"})
  <2> HIDE DEF n
  <2> QED BY <1>2, <1>3, PhRepeatList, PhKindNames
<1>5. PhList(a, A, PhMany) 
  <2> HIDE DEF a, A
  <2> QED BY <1>4, PhWeaker DEF PhMany
<1>6. DOMAIN s = 1 .. N /\ s = [i \in 1 .. N |-> s[i]] OBVIOUS
<1>7. \A i \in 1 .. N : s[i] = IF PhLooksLike(in, PhBrands[i].domain) THEN <<"domain_lookalike">> ELSE <<>>
  BY DEF PhIf
<1>8. K \in SUBSET PhKinds BY PhKindNames
<1>9. \A i \in 1 .. N : s[i] = <<>> \/ \E x \in K : s[i] = <<x>> BY <1>7
<1> HIDE DEF s
<1>10. PhList(b, {x \in K : \E i \in 1 .. N : s[i] = <<x>>}, K)
  <2> HIDE DEF N, K
  <2> QED BY <1>0, <1>6, <1>8, <1>9, PhFlatList
<1>11. {x \in K : \E i \in 1 .. N : s[i] = <<x>>} = B
  <2>1. \A i \in 1 .. N : s[i] = <<"domain_lookalike">> <=> PhLooksLike(in, PhBrands[i].domain)
    <3>1. <<"domain_lookalike">> # <<>> OBVIOUS
    <3> QED BY <1>7, <3>1
  <2>2. {x \in K : \E i \in 1 .. N : s[i] = <<x>>}
            = PhThe(\E i \in 1 .. N : s[i] = <<"domain_lookalike">>, "domain_lookalike")
    BY DEF PhThe
  <2>3. (\E i \in 1 .. N : s[i] = <<"domain_lookalike">>)
            <=> \E i \in DOMAIN PhBrands : PhLooksLike(in, PhBrands[i].domain)
    BY <1>0, <2>1
  <2> HIDE DEF K
  <2> QED BY <2>2, <2>3 DEF PhThe
<1>12. PhList(b, B, PhMany)
  <2>1. K \subseteq PhMany BY DEF PhMany
  <2> HIDE DEF b, B, K
  <2> QED BY <1>10, <1>11, <2>1, PhWeaker
<1>13. A \cap B \subseteq PhMany BY DEF PhThe
<1> HIDE DEF a, b, A, B
<1> QED BY <1>1, <1>5, <1>12, <1>13, PhJoin

\* dedup_by_id over both kinds leaves each once.
LEMMA PhOnceBoth ==
    ASSUME NEW u, NEW A, NEW j, NEW k, PhList(u, A, {j, k})
    PROVE  PhList(PhOnce(PhOnce(u, j), k), A, {})
<1>1. PhList(PhOnce(u, j), A, {j, k} \ {j}) BY PhOnceList
<1>2. PhList(PhOnce(PhOnce(u, j), k), A, ({j, k} \ {j}) \ {k}) BY <1>1, PhOnceList
<1>3. ({j, k} \ {j}) \ {k} = {} OBVIOUS
<1> QED BY <1>2, <1>3

LEMMA PhFeedList ==
    ASSUME NEW in \in PhInputs
    PROVE  PhList(PhFeedFindings(in), PhFeedKinds(in), {"openphish_url", "openphish_domain"})
<1> DEFINE N == Len(in.links)
           s == [i \in 1 .. N |-> PhListed(in, in.links[i])]
           K == {"openphish_url", "openphish_domain"}
<1>0. N \in Nat /\ DOMAIN in.links = 1 .. N BY PhIndices
<1>1. CASE in.feedEmpty
  <2>1. PhFeedFindings(in) = <<>> BY <1>1 DEF PhFeedFindings
  <2>2. PhFeedKinds(in) = {} BY <1>1 DEF PhFeedKinds, PhThe
  <2>3. PhList(PhIf(FALSE, "spf_fail"), PhThe(FALSE, "spf_fail"), K) BY PhIfThe, PhKindNames
  <2>4. PhIf(FALSE, "spf_fail") = <<>> /\ PhThe(FALSE, "spf_fail") = {} BY DEF PhIf, PhThe
  <2> QED BY <2>1, <2>2, <2>3, <2>4
<1>2. CASE ~in.feedEmpty
  <2>1. PhFeedFindings(in) = FlattenSeq(s) BY <1>0, <1>2 DEF PhFeedFindings
  <2>2. DOMAIN s = 1 .. N /\ s = [i \in 1 .. N |-> s[i]] OBVIOUS
  <2>3. \A i \in 1 .. N : s[i] = IF in.links[i].listed THEN <<"openphish_url">>
                ELSE IF in.links[i].href \in in.feedHosts THEN <<"openphish_domain">> ELSE <<>>
    BY DEF PhListed, PhIf
  <2>4. K \in SUBSET PhKinds BY PhKindNames
  <2>5. \A i \in 1 .. N : s[i] = <<>> \/ \E x \in K : s[i] = <<x>> BY <2>3
  <2> HIDE DEF s
  <2>6. PhList(FlattenSeq(s), {x \in K : \E i \in 1 .. N : s[i] = <<x>>}, K)
    <3> HIDE DEF N, K
    <3> QED BY <1>0, <2>2, <2>4, <2>5, PhFlatList
  <2>7. \A i \in 1 .. N : s[i] = <<"openphish_url">> <=> in.links[i].listed
    <3>1. <<"openphish_url">> # <<>> /\ <<"openphish_url">> # <<"openphish_domain">> OBVIOUS
    <3> QED BY <2>3, <3>1
  <2>8. \A i \in 1 .. N : s[i] = <<"openphish_domain">>
                <=> ~in.links[i].listed /\ in.links[i].href \in in.feedHosts
    <3>1. <<"openphish_domain">> # <<>> /\ <<"openphish_url">> # <<"openphish_domain">> OBVIOUS
    <3> QED BY <2>3, <3>1
  <2>9. {x \in K : \E i \in 1 .. N : s[i] = <<x>>} = PhFeedKinds(in)
    <3> HIDE DEF N
    <3> QED BY <1>0, <1>2, <2>7, <2>8 DEF PhFeedKinds, PhThe
  <2> QED BY <2>1, <2>6, <2>9
<1> QED BY <1>1, <1>2

\* What is found but for the links, in two lists that have nothing twice.
PhBase(in) ==
    PhOnce(PhOnce((PhAuthFindings(in) \o PhAddressFindings(in)) \o PhBrandFindings(in),
                  "display_name_spoof"), "domain_lookalike")
        \o PhIf(in.from \in PhIdn, "idn_homograph")
PhFeedOnce(in) == PhOnce(PhOnce(PhFeedFindings(in), "openphish_url"), "openphish_domain")
PhBaseKinds(in) ==
    ((PhFirstKinds(in) \cup PhAddressKinds(in)) \cup PhBrandKinds(in))
        \cup PhThe(in.from \in PhIdn, "idn_homograph")

LEMMA PhBaseList == ASSUME NEW in PROVE PhList(PhBase(in), PhBaseKinds(in), {})
<1> DEFINE a == PhAuthFindings(in)
           b == PhAddressFindings(in)
           c == PhBrandFindings(in)
           d == PhIf(in.from \in PhIdn, "idn_homograph")
           A == PhFirstKinds(in)
           B == PhAddressKinds(in)
           C == PhBrandKinds(in)
           D == PhThe(in.from \in PhIdn, "idn_homograph")
           e == PhOnce(PhOnce((a \o b) \o c, "display_name_spoof"), "domain_lookalike")
<1>1. PhList(a, A, PhMany) /\ PhList(b, B, PhMany) /\ PhList(c, C, PhMany)
  BY PhAuthList, PhAddressList, PhBrandList
<1>2. PhList(d, D, {}) BY PhIfThe, PhKindNames
<1>3. /\ A \subseteq {"dmarc_fail", "spf_fail", "dkim_fail"}
      /\ B \subseteq {"reply_to_mismatch", "return_path_mismatch"}
      /\ C \subseteq PhMany
      /\ D \subseteq {"idn_homograph"}
  BY DEF PhFirstKinds, PhAddressKinds, PhBrandKinds, PhThe, PhMany
<1>4. PhBase(in) = e \o d /\ PhBaseKinds(in) = ((A \cup B) \cup C) \cup D
  BY DEF PhBase, PhBaseKinds
<1> HIDE DEF a, b, c, d, A, B, C, D
<1>5. A \cap B \subseteq PhMany /\ (A \cup B) \cap C \subseteq PhMany BY <1>3
<1>6. ((A \cup B) \cup C) \cap D \subseteq {} BY <1>3 DEF PhMany
<1>7. PhList(a \o b, A \cup B, PhMany) BY <1>1, <1>5, PhJoin
<1>8. PhList((a \o b) \o c, (A \cup B) \cup C, PhMany) BY <1>1, <1>5, <1>7, PhJoin
<1>9. PhList(e, (A \cup B) \cup C, {}) BY <1>8, PhOnceBoth DEF PhMany
<1> HIDE DEF e
<1>10. PhList(e \o d, ((A \cup B) \cup C) \cup D, {}) BY <1>2, <1>6, <1>9, PhJoin
<1> QED BY <1>4, <1>10

LEMMA PhFeedOnceList == ASSUME NEW in \in PhInputs PROVE PhList(PhFeedOnce(in), PhFeedKinds(in), {})
BY PhFeedList, PhOnceBoth DEF PhFeedOnce

LEMMA PhKindsOf ==
    ASSUME NEW in, in.parses, ~PhTrusted(in)
    PROVE  /\ PhEvidence(in) = PhBaseKinds(in) \cup PhFeedKinds(in)
           /\ PhBaseKinds(in) \cap PhFeedKinds(in) = {}
           /\ PhEvidence(in) \subseteq PhKinds
<1>1. PhBaseKinds(in) \subseteq PhKinds /\ PhFeedKinds(in) \subseteq PhKinds
  BY PhKindNames DEF PhBaseKinds, PhFeedKinds, PhFirstKinds, PhAddressKinds, PhBrandKinds, PhThe
<1>2. ASSUME NEW kind \in PhKinds
      PROVE  kind \in PhEvidence(in) <=> kind \in PhBaseKinds(in) \cup PhFeedKinds(in)
  <2>1. kind \in PhEvidence(in) <=>
         CASE kind = "dmarc_fail" -> "dmarc" \in in.failed
          [] kind = "spf_fail" -> "spf" \in in.failed
          [] kind = "dkim_fail" -> "dkim" \in in.failed
          [] kind = "reply_to_mismatch" -> PhOtherOrg(in, in.replyTo)
          [] kind = "return_path_mismatch" -> PhOtherOrg(in, in.returnPath)
          [] kind = "display_name_spoof" -> \E n \in PhNames : PhSpoofs(in, n)
          [] kind = "domain_lookalike" ->
                \E i \in DOMAIN PhBrands : PhLooksLike(in, PhBrands[i].domain)
          [] kind = "idn_homograph" -> in.from \in PhIdn
          [] kind = "openphish_url" -> ~in.feedEmpty
              /\ \E i \in DOMAIN in.links : in.links[i].listed
          [] kind = "openphish_domain" ->
                ~in.feedEmpty /\ \E i \in DOMAIN in.links :
                    ~in.links[i].listed /\ in.links[i].href \in in.feedHosts
          [] OTHER -> FALSE
    BY DEF PhEvidence, PhTrusted, PhKinds
  <2> QED BY <2>1, PhKindNames
       DEF PhBaseKinds, PhFeedKinds, PhFirstKinds, PhAddressKinds, PhBrandKinds, PhThe
<1>3. PhEvidence(in) \subseteq PhKinds BY DEF PhEvidence, PhKinds
<1>4. PhBaseKinds(in) \cap PhFeedKinds(in) = {}
  BY DEF PhBaseKinds, PhFeedKinds, PhFirstKinds, PhAddressKinds, PhBrandKinds, PhThe
<1> QED BY <1>1, <1>2, <1>3, <1>4

LEMMA PhLinks ==
    ASSUME NEW in \in PhInputs
    PROVE  \E n \in Nat : PhLinkFindings(in) = [i \in 1 .. n |-> "link_mismatch"]
<1> DEFINE bad == {i \in DOMAIN in.links :
                in.links[i].text # PhNoHost /\ ~PhSameOrg(in.links[i].text, in.links[i].href)}
           m == Cardinality(bad)
           n == Min({m, 3})
<1>1. IsFiniteSet(bad) BY PhIndices, FS_Subset
<1>2. m \in Nat BY <1>1, FS_CardinalityType
<1>3. PhLinkFindings(in) = [i \in 1 .. n |-> "link_mismatch"] BY DEF PhLinkFindings
<1> HIDE DEF m
<1>4. n \in {m, 3}
  <2>1. \E x \in {m, 3} : \A y \in {m, 3} : x <= y BY <1>2
  <2> QED BY <2>1 DEF Min
<1> QED BY <1>2, <1>3, <1>4

LEMMA PhSumNothing == PhSum(<<>>) = 0
<1> DEFINE S == 1 .. 0
           fn == PhPointsOf(<<>>)
<1>1. <<>> \in Seq(PhKinds) /\ Len(<<>>) = 0 OBVIOUS
<1>2. PhSum(<<>>) = Cardinality(SumPairs(fn, 1 .. Len(<<>>))) BY <1>1, PhSumIsCard
<1>3. 1 .. Len(<<>>) = {} BY <1>1
<1>4. SumPairs(fn, {}) = {} BY DEF SumPairs
<1> QED BY <1>2, <1>3, <1>4, FS_EmptySet

\* The score of an analysis, and the kinds in it.
LEMMA PhScored ==
    ASSUME NEW in \in PhInputs
    PROVE  /\ PhSum(PhAnalyse(in)) = SumOf(PhPoints, PhEvidence(in))
                + (IF PhTrusted(in) \/ ~in.parses THEN 0 ELSE 20 * Len(PhLinkFindings(in)))
           /\ PhEvidence(in) \in SUBSET PhKinds
           /\ Range(PhAnalyse(in)) \subseteq PhEvidence(in) \cup {"link_mismatch"}
           /\ Len(PhLinkFindings(in)) \in Nat
<1> DEFINE b == PhBase(in)
           f == PhFeedOnce(in)
           k == PhLinkFindings(in)
           B == PhBaseKinds(in)
           F == PhFeedKinds(in)
<1>1. PICK n \in Nat : k = [i \in 1 .. n |-> "link_mismatch"] BY PhLinks
<1>2. /\ k \in Seq(PhKinds) /\ Len(k) = n /\ PhSum(k) = 20 * n
           /\ Range(k) \subseteq {"link_mismatch"}
  <2>1. k \in Seq(PhKinds) /\ PhSum(k) = 20 * n BY <1>1, PhSumLinks
  <2>2. Len(k) = n /\ Range(k) \subseteq {"link_mismatch"} BY <1>1 DEF Range
  <2> QED BY <2>1, <2>2
<1>3. CASE PhTrusted(in) \/ ~in.parses
  <2>1. PhAnalyse(in) = <<>> BY <1>3 DEF PhAnalyse
  <2>2. PhEvidence(in) = {} BY <1>3 DEF PhEvidence, PhTrusted
  <2>3. SumOf(PhPoints, {}) = 0
    <3>1. SumPairs(PhPoints, {}) = {} BY DEF SumPairs
    <3>2. IsFiniteSet({}) /\ \A y \in {} : PhPoints[y] \in Nat BY FS_EmptySet
    <3> QED BY <3>1, <3>2, SumIsCard, FS_EmptySet
  <2>4. DOMAIN <<>> = {} OBVIOUS
  <2>5. Range(<<>>) = {} BY <2>4 DEF Range
  <2> QED BY <1>2, <1>3, <2>1, <2>2, <2>3, <2>5, PhSumNothing
<1>4. CASE ~PhTrusted(in) /\ in.parses
  <2>1. PhAnalyse(in) = (b \o k) \o f BY <1>4 DEF PhAnalyse, PhBase, PhFeedOnce
  <2>2. PhEvidence(in) = B \cup F /\ B \cap F = {} /\ PhEvidence(in) \subseteq PhKinds
    BY <1>4, PhKindsOf
  <2>3. PhList(b, B, {}) /\ PhList(f, F, {}) BY PhBaseList, PhFeedOnceList
  <2> HIDE DEF b, f, k, B, F
  <2>4. /\ b \in Seq(PhKinds) /\ f \in Seq(PhKinds) /\ Range(b) = B /\ Range(f) = F
        /\ \A i, j \in 1 .. Len(b) : b[i] = b[j] => i = j
        /\ \A i, j \in 1 .. Len(f) : f[i] = f[j] => i = j
    BY <2>3 DEF PhList, PhTwiceIn
  <2>5. PhSum(b) = SumOf(PhPoints, B) /\ PhSum(f) = SumOf(PhPoints, F)
    BY <2>4, PhSumOnce
  <2>6. /\ b \o k \in Seq(PhKinds) /\ PhSum(b \o k) = PhSum(b) + PhSum(k)
        /\ PhSum(b) \in Nat /\ PhSum(k) \in Nat
    BY <1>2, <2>4, PhSumConcat
  <2>7. PhSum((b \o k) \o f) = PhSum(b \o k) + PhSum(f) /\ PhSum(f) \in Nat
    BY <2>4, <2>6, PhSumConcat
  <2>8. SumOf(PhPoints, B \cup F) = SumOf(PhPoints, B) + SumOf(PhPoints, F)
    <3>1. IsFiniteSet(B) /\ IsFiniteSet(F) BY <2>2, PhPointsType, FS_Subset
    <3>2. \A y \in B \cup F : PhPoints[y] \in Nat BY <2>2, PhPointsType
    <3> QED BY <2>2, <3>1, <3>2, SumUnion
  <2>9. PhSum(PhAnalyse(in)) = SumOf(PhPoints, PhEvidence(in)) + 20 * Len(k)
    BY <1>2, <2>1, <2>2, <2>5, <2>6, <2>7, <2>8
  <2>10. Range((b \o k) \o f) \subseteq B \cup F \cup {"link_mismatch"}
    <3>1. \A x, y : x \in Seq(PhKinds) /\ y \in Seq(PhKinds)
                => Range(x \o y) \subseteq Range(x) \cup Range(y)
      BY DEF Range
    <3>2. Range((b \o k) \o f) \subseteq Range(b \o k) \cup Range(f) BY <2>4, <2>6, <3>1
    <3>3. Range(b \o k) \subseteq Range(b) \cup Range(k) BY <1>2, <2>4, <3>1
    <3> QED BY <1>2, <2>4, <3>2, <3>3
  <2> QED BY <1>2, <1>4, <2>1, <2>2, <2>9, <2>10 DEF k
<1> QED BY <1>3, <1>4

-----------------------------------------------------------------------------
(* What holds of every message. *)

PhInv ==
    /\ phInput \in PhInputs
    /\ phScore = -1 => phFindings = <<>>
    /\ phScore # -1 => phFindings = PhAnalyse(phInput) /\ phScore = PhSum(phFindings)

LEMMA PhInvHolds == PhSpec => []PhInv
<1>1. PhInit => PhInv BY DEF PhInit, PhInv
<1>2. PhInv /\ [PhRun]_phVars => PhInv'
  <2> SUFFICES ASSUME PhInv, [PhRun]_phVars PROVE PhInv' OBVIOUS
  <2>1. CASE PhRun
    <3>1. phFindings' = PhAnalyse(phInput) /\ phScore' = PhSum(phFindings') /\ phInput' = phInput
      BY <2>1 DEF PhRun
    <3>2. PhAnalyse(phInput)' = PhAnalyse(phInput') /\ PhSum(phFindings)' = PhSum(phFindings')
      OBVIOUS
    <3>3. phScore' # -1
      <4>1. phScore' = PhSum(PhAnalyse(phInput)) /\ phInput \in PhInputs BY <3>1 DEF PhInv
      <4>2. PhSum(PhAnalyse(phInput)) \in Nat
        <5>1. PhEvidence(phInput) \in SUBSET PhKinds /\ Len(PhLinkFindings(phInput)) \in Nat
          BY <4>1, PhScored
        <5>2. SumOf(PhPoints, PhEvidence(phInput)) \in Nat
          BY <5>1, PhPointsType, FS_Subset, SumNat
        <5> QED BY <4>1, <5>1, <5>2, PhScored
      <4> QED BY <4>1, <4>2
    <3> QED BY <3>1, <3>3 DEF PhInv
  <2>2. CASE UNCHANGED phVars BY <2>2 DEF phVars, PhInv
  <2> QED BY <2>1, <2>2
<1> QED BY <1>1, <1>2, PTL DEF PhSpec

LEMMA PhUrlPoints ==
    ASSUME NEW S \in SUBSET PhKinds, "openphish_url" \in S
    PROVE  SumOf(PhPoints, S) \in Nat /\ SumOf(PhPoints, S) >= 70
<1>1. IsFiniteSet(S) /\ \A y \in S : PhPoints[y] \in Nat BY PhPointsType, FS_Subset
<1> DEFINE T == S \ {"openphish_url"}
           a == Cardinality(SumPairs(PhPoints, T))
           c == Cardinality(SumPairs(PhPoints, S))
<1>2. a \in Nat /\ c = PhPoints["openphish_url"] + a
  <2>1. S \in SUBSET S OBVIOUS
  <2> QED BY <1>1, <2>1, SumCards
<1>3. SumOf(PhPoints, S) = c BY <1>1, SumIsCard
<1> HIDE DEF a, c
<1>4. c = 70 + a BY <1>2, PhPointsType
<1> QED BY <1>2, <1>3, <1>4

(* The score is the sum of the kinds of evidence, each once, and of the    *)
(* first three misleading links; a brand's own domain is not a spoof of    *)
(* it, a listed address alone makes the message phishing, and trust in an  *)
(* organisation covers its hosts (analyse, dedup_by_id).                   *)
THEOREM VerdictFits == PhSpec => []PhVerdictFits
<1>1. PhInv => PhVerdictFits
  <2> SUFFICES ASSUME PhInv PROVE PhVerdictFits OBVIOUS
  <2>0. phInput \in PhInputs BY DEF PhInv
  <2>1. /\ PhSum(PhAnalyse(phInput)) = SumOf(PhPoints, PhEvidence(phInput))
                + (IF PhTrusted(phInput) \/ ~phInput.parses THEN 0
                   ELSE 20 * Len(PhLinkFindings(phInput)))
        /\ PhEvidence(phInput) \in SUBSET PhKinds
        /\ Range(PhAnalyse(phInput)) \subseteq PhEvidence(phInput) \cup {"link_mismatch"}
        /\ Len(PhLinkFindings(phInput)) \in Nat
    BY <2>0, PhScored
  <2>2. phScore # -1 => phScore = PhSum(PhAnalyse(phInput)) BY DEF PhInv
  <2>3. PhSumOfKinds
    <3>1. FoldSet(LAMBDA kind, sum : sum + PhPoints[kind], 0, PhEvidence(phInput))
            = SumOf(PhPoints, PhEvidence(phInput))
      BY <2>1, PhKindsSum
    <3> QED BY <2>1, <2>2, <3>1 DEF PhSumOfKinds
  <2>4. PhOwnBrandIsNoSpoof
    <3> SUFFICES ASSUME NEW i \in DOMAIN PhBrands, <<phInput.from, PhBrands[i].domain>> \in PhUnder,
                        phInput.claims = {PhBrands[i].name},
                            "display_name_spoof" \in Range(phFindings)
                 PROVE  FALSE
      BY DEF PhOwnBrandIsNoSpoof
    <3>1. phFindings = PhAnalyse(phInput)
      <4>1. DOMAIN <<>> = {} OBVIOUS
      <4>2. Range(<<>>) = {} BY <4>1 DEF Range
      <4> QED BY <4>2 DEF PhInv
    <3>2. "display_name_spoof" \in PhEvidence(phInput) BY <2>1, <3>1
    <3>3. PICK n \in PhNames : PhSpoofs(phInput, n) BY <3>2 DEF PhEvidence
    <3>4. n = PhBrands[i].name BY <3>3 DEF PhSpoofs
    <3>5. PhBrands[i].domain \in PhDomainsOf(n) BY <3>4 DEF PhDomainsOf
    <3> QED BY <3>3, <3>5 DEF PhSpoofs
  <2>5. PhListedUrlIsPhishing
    <3> SUFFICES ASSUME phScore # -1, phInput.parses, ~PhTrusted(phInput), ~phInput.feedEmpty,
                        \E i \in DOMAIN phInput.links : phInput.links[i].listed
                 PROVE  PhVerdict(phScore) = "phishing"
      BY DEF PhListedUrlIsPhishing
    <3>1. "openphish_url" \in PhEvidence(phInput)
      <4>1. "openphish_url" \in PhFeedKinds(phInput) BY DEF PhFeedKinds, PhThe
      <4> QED BY <4>1, PhKindsOf
    <3>2. phScore \in Nat /\ phScore >= 70
      <4> DEFINE a == SumOf(PhPoints, PhEvidence(phInput))
                 m == Len(PhLinkFindings(phInput))
      <4>1. a \in Nat /\ a >= 70 BY <2>1, <3>1, PhUrlPoints
      <4>2. phScore = a + 20 * m /\ m \in Nat BY <2>1, <2>2
      <4> HIDE DEF a, m
      <4> QED BY <4>1, <4>2
    <3> QED BY <3>2 DEF PhVerdict
  <2>6. PhTrustCoversHosts
    <3> SUFFICES ASSUME NEW h \in PhHosts, h = phInput.from, phScore # -1,
                        PhOrgOf[h] \in phInput.trusted
                 PROVE  phScore = 0
      BY DEF PhTrustCoversHosts
    <3>1. PhTrusted(phInput) BY PhAssumption DEF PhTrusted
    <3>2. PhAnalyse(phInput) = <<>> BY <3>1 DEF PhAnalyse
    <3> QED BY <2>2, <3>2, PhSumNothing
  <2> QED BY <2>3, <2>4, <2>5, <2>6 DEF PhVerdictFits
<1> QED BY <1>1, PhInvHolds, PTL
=============================================================================
