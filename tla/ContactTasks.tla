---------------------------- MODULE ContactTasks ----------------------------
(***************************************************************************)
(* The ContactSyncManager's background task of one contact source:         *)
(* starting, replacing, pausing and stopping it while requests interleave. *)
(* start_account takes its locks one after the other, so that two starts,  *)
(* or a start and a stop, can leave a task no handle refers to; what ends  *)
(* such a task is the eligibility check before each of its runs.           *)
(***************************************************************************)
EXTENDS Naturals, FiniteSets

CONSTANTS CtCalls,      \* concurrent calls of start_account
          CtMaxTasks    \* bound: tasks spawned

ASSUME CtAssumption == CtMaxTasks \in Nat

CtTasks == 1 .. CtMaxTasks
CtNone == 0

VARIABLES
    ctRow,      \* contact_accounts row: "enabled", "disabled" or "none"
    ctState,    \* its capability_state
    ctTask,     \* each task: where its loop is
    ctHandle,   \* the task the manager's map refers to
    ctCall,     \* each start_account call: its place and the task it spawned
    ctStop,     \* disable or delete, between stop_account and its SQL
    ctRaced     \* history: a start overlapped another start or a stop, or a
                \*   reconciliation left a task of a source it made ineligible

ctVars == <<ctRow, ctState, ctTask, ctHandle, ctCall, ctStop, ctRaced>>

CtIdleCall == [pc |-> "idle", task |-> CtNone]

CtInit ==
    /\ ctRow = "enabled" /\ ctState = "pending"
    /\ ctTask = [t \in CtTasks |-> "unborn"] /\ ctHandle = CtNone
    /\ ctCall = [r \in CtCalls |-> CtIdleCall] /\ ctStop = "idle"
    /\ ctRaced = FALSE

CtLive(t) == ctTask[t] \in {"due", "syncing", "waiting"}
CtUnder(r) == ctCall[r].pc # "idle"

(* stop_account: remove the handle and abort its task. *)
CtNotAborted == ctTask
CtAborted == [t \in CtTasks |-> IF t = ctHandle THEN "ended" ELSE ctTask[t]]
CtStopAccount == ctTask' = CtAborted /\ ctHandle' = CtNone

-----------------------------------------------------------------------------
(* start_account. *)
CtBeginStart(r) ==
    /\ ~CtUnder(r)
    /\ CtStopAccount
    /\ ctCall' = [ctCall EXCEPT ![r].pc = "spawn"]
    /\ ctRaced' = (ctRaced \/ ctStop # "idle" \/ \E q \in CtCalls : CtUnder(q))
    /\ UNCHANGED ctStop

(* trigger_sync: for any source that exists. *)
CtTrigger(r) ==
    /\ ctRow # "none"
    /\ CtBeginStart(r)
    /\ UNCHANGED <<ctRow, ctState>>

(* reconcile_mailbox_contact_source with the source enabled: a task is     *)
(* started only when the state is pending, that is, when the mailbox's     *)
(* credentials carry the contact grant.                                    *)
CtEnableGranted(r) ==
    /\ ctRow # "none"
    /\ ctRow' = "enabled" /\ ctState' = "pending"
    /\ CtBeginStart(r)

CtEnableWithoutGrant(state) ==
    /\ ctRow # "none"
    /\ IF state = "unavailable" THEN ctRow' = "disabled" ELSE ctRow' = "enabled"
    /\ ctState' = state
    /\ ctRaced' = (ctRaced \/ \E t \in CtTasks : CtLive(t))
    /\ UNCHANGED <<ctTask, ctHandle, ctCall, ctStop>>

CtSpawn(r) ==
    /\ ctCall[r].pc = "spawn"
    /\ \E t \in CtTasks :
         /\ ctTask[t] = "unborn" /\ \A u \in 1 .. t - 1 : ctTask[u] # "unborn"
         /\ ctTask' = [ctTask EXCEPT ![t] = "due"]
         /\ ctCall' = [ctCall EXCEPT ![r] = [pc |-> "insert", task |-> t]]
    /\ UNCHANGED <<ctRow, ctState, ctHandle, ctStop, ctRaced>>

CtInsert(r) ==
    /\ ctCall[r].pc = "insert"
    /\ ctHandle' = ctCall[r].task
    /\ ctCall' = [ctCall EXCEPT ![r] = CtIdleCall]
    /\ UNCHANGED <<ctRow, ctState, ctTask, ctStop, ctRaced>>

-----------------------------------------------------------------------------
(* disable_mailbox_contacts, and delete_account of an independent source:  *)
(* stop_account, then the row.                                             *)
CtBeginStop(kind) ==
    /\ ctStop = "idle" /\ ctRow # "none"
    /\ CtStopAccount
    /\ ctStop' = kind
    /\ ctRaced' = (ctRaced \/ \E q \in CtCalls : CtUnder(q))
    /\ UNCHANGED <<ctRow, ctState, ctCall>>

CtDisableRow ==
    /\ ctStop = "disable"
    /\ ctRow' = "disabled" /\ ctState' = "disabled"
    /\ ctStop' = "idle"
    /\ UNCHANGED <<ctTask, ctHandle, ctCall, ctRaced>>

CtDeleteRow ==
    /\ ctStop = "delete"
    /\ ctRow' = "none" /\ ctState' = "none"
    /\ ctStop' = "idle"
    /\ UNCHANGED <<ctTask, ctHandle, ctCall, ctRaced>>

-----------------------------------------------------------------------------
(* The task's loop.  An update of a row that is gone changes nothing.      *)
CtIneligible == {"disabled", "consent_required", "reauth_required", "unavailable"}
CtSetState(s) == ctState' = IF ctRow = "none" THEN ctState ELSE s
CtMove(t, pc) == ctTask' = [ctTask EXCEPT ![t] = pc]
CtRest == UNCHANGED <<ctRow, ctHandle, ctCall, ctStop, ctRaced>>

\* Fault: whether the source is still there and enabled is not asked.
CtEligibleByState == ctState \notin CtIneligible

CtEligible == ctRow = "enabled" /\ ctState \notin CtIneligible

CtRun(t) ==
    /\ ctTask[t] = "due"
    /\ IF CtEligible THEN CtMove(t, "syncing") /\ CtSetState("syncing")
                     ELSE CtMove(t, "ended") /\ UNCHANGED ctState
    /\ CtRest

CtSucceeds(t) ==
    /\ ctTask[t] = "syncing"
    /\ CtMove(t, "waiting") /\ CtSetState("idle")
    /\ CtRest

(* A task whose row was deleted under it cannot write its pages.           *)
CtFails(t, state, pauses) ==
    /\ ctTask[t] = "syncing"
    /\ state \in CtIneligible => pauses
    /\ CtMove(t, IF pauses THEN "ended" ELSE "waiting") /\ CtSetState(state)
    /\ CtRest

(* The 300 second interval, or the retry delay, is over. *)
CtWakes(t) ==
    /\ ctTask[t] = "waiting"
    /\ CtMove(t, "due") /\ UNCHANGED ctState
    /\ CtRest

-----------------------------------------------------------------------------
CtTaskStep(t) ==
    \/ CtRun(t) \/ CtSucceeds(t) \/ CtWakes(t)
    \/ \E s \in {"error", "consent_required", "unavailable"}, p \in BOOLEAN : CtFails(t, s, p)

CtNext ==
    \/ \E r \in CtCalls : CtTrigger(r) \/ CtEnableGranted(r) \/ CtSpawn(r) \/ CtInsert(r)
    \/ \E s \in {"consent_required", "unavailable"} : CtEnableWithoutGrant(s)
    \/ \E kind \in {"disable", "delete"} : CtBeginStop(kind)
    \/ CtDisableRow \/ CtDeleteRow
    \/ \E t \in CtTasks : CtTaskStep(t)

CtSpec == CtInit /\ [][CtNext]_ctVars

(* A task the runtime polls gets on: its calls return, its pauses end.     *)
CtFairSpec == CtSpec /\ \A t \in CtTasks : WF_ctVars(CtTaskStep(t))

-----------------------------------------------------------------------------
(* Starts and stops that do not overlap leave one task at most. *)
CtOneTask ==
    ~ctRaced => \A t, u \in CtTasks : CtLive(t) /\ CtLive(u) => t = u

(* A source disabled while no start overlapped stays disabled: no task is  *)
(* left that would report another state for it.                            *)
CtDisabledStays ==
    ~ctRaced /\ ctRow = "disabled" => ctState \in {"disabled", "unavailable"}

(* What the tasks of a source keep while no start overlapped, under one    *)
(* name.                                                                   *)
CtTasksAlone == CtOneTask /\ CtDisabledStays

(* Even a task no handle refers to ends once its source is deleted.        *)
CtTasksEnd == (ctRow = "none") ~> \A t \in CtTasks : ~CtLive(t)
=============================================================================
