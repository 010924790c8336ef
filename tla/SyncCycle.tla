------------------------------ MODULE SyncCycle ------------------------------
(***************************************************************************)
(* One account's sync cycle (do_sync, sync_account) around the per-folder  *)
(* work: the provider is opened, its folders are listed and stored, folders*)
(* no longer listed are dropped, the enabled ones are chosen and ordered,  *)
(* counted for the progress and synced one by one.  Meanwhile the mailbox  *)
(* changes and the user switches folders on and off (set_folder_sync).     *)
(* What syncing one folder does in detail is FolderSync's; here it brings  *)
(* the folder's rows up to the server, some of the way, or fails.          *)
(***************************************************************************)
EXTENDS Integers, Sequences, FiniteSets, FiniteSetsExt, SequencesExt

CONSTANTS ScFolders,
          ScTypeOf,         \* [ScFolders -> folder type]
          ScKinds,          \* provider kinds an account may have
          ScMaxMail,        \* bound: messages of a folder
          ScMaxEvents       \* bound: changes in the mailbox, and of the user's choice

ASSUME ScAssumption == IsFiniteSet(ScFolders)

VARIABLES
    scKind,         \* email_accounts.provider_kind
    scListed,       \* folders the server lists
    scMail,         \* messages in each
    scDb,           \* folders: "absent", or the row's sync_enabled, "on" or "off"
    scRows, scLive, \* message rows of each folder, and those not hidden
    scPc, scState,  \* where the cycle is; the status reported for the account
    scFound,        \* list_folders' answer
    scChosen, scTodo,       \* synced_folders, and those still to do in this pass
    scTotal, scSynced,      \* the progress counters
    scEvents,
    scChoice,       \* history: what the user chose for each row, "none" if nothing
    scTried,        \* history: folders this cycle synced or failed to
    scOff           \* history: why this cycle's counters need not fit

scRemote == <<scListed, scMail>>
scStore == <<scDb, scRows, scLive>>
scCycle == <<scPc, scState, scFound, scChosen, scTodo, scTotal, scSynced, scTried>>
scVars == <<scKind, scRemote, scStore, scCycle, scEvents, scChoice, scOff>>

ScEnabled == {f \in ScFolders : scDb[f] = "on"}
ScRunning == scPc # "idle"

ScInit ==
    /\ scKind \in ScKinds
    /\ scListed = ScFolders /\ scMail \in [ScFolders -> {0, 1}]
    /\ scDb = [f \in ScFolders |-> "absent"]
    /\ scRows = [f \in ScFolders |-> 0] /\ scLive = scRows
    /\ scPc = "idle" /\ scState = "idle"
    /\ scFound = {} /\ scChosen = <<>> /\ scTodo = <<>> /\ scTotal = 0 /\ scSynced = 0
    /\ scEvents = 0
    /\ scChoice = [f \in ScFolders |-> "none"] /\ scTried = {} /\ scOff = {}

-----------------------------------------------------------------------------
(* The mailbox and the user. *)

ScEvent == scEvents < ScMaxEvents /\ scEvents' = scEvents + 1
ScExcuse(why) == scOff' = IF ScRunning THEN scOff \cup {why} ELSE scOff

ScMailChanges(f) ==
    /\ ScEvent /\ f \in scListed
    /\ \/ scMail[f] < ScMaxMail /\ scMail' = [scMail EXCEPT ![f] = @ + 1] /\ ScExcuse("arrival")
       \/ scMail[f] > 0 /\ scMail' = [scMail EXCEPT ![f] = @ - 1] /\ UNCHANGED scOff
    /\ UNCHANGED <<scKind, scListed, scStore, scCycle, scChoice>>

\* A folder is created or removed, or becomes a container that is no longer listed.
ScListingChanges(f) ==
    /\ ScEvent
    /\ scListed' = IF f \in scListed THEN scListed \ {f} ELSE scListed \cup {f}
    /\ scMail' = [scMail EXCEPT ![f] = 0]
    /\ UNCHANGED <<scKind, scStore, scCycle, scChoice, scOff>>

\* set_folder_sync and set_all_folders_sync: a folder without a row is not found.
ScToggle(fs, v) ==
    /\ ScEvent /\ fs # {} /\ \A f \in fs : scDb[f] # "absent"
    /\ scDb' = [f \in ScFolders |-> IF f \in fs THEN v ELSE scDb[f]]
    /\ scChoice' = [f \in ScFolders |-> IF f \in fs THEN v ELSE scChoice[f]]
    /\ ScExcuse("toggle")
    /\ UNCHANGED <<scKind, scRemote, scRows, scLive, scCycle>>

-----------------------------------------------------------------------------
(* do_sync and sync_account *)

\* A paused account skips its cycles.
ScBegin ==
    /\ scPc = "idle" /\ scState # "reauth_required"
    /\ scPc' = "list" /\ scState' = "syncing"
    /\ scTried' = {} /\ scOff' = {}
    /\ UNCHANGED <<scKind, scRemote, scStore, scFound, scChosen, scTodo, scTotal, scSynced,
                   scEvents, scChoice>>

ScEnd(state) ==
    /\ scPc' = "idle" /\ scState' = state
    /\ scFound' = {} /\ scTodo' = <<>>
    /\ UNCHANGED <<scChosen, scTotal, scSynced>>

\* oauth_reauthentication_error: 401 of an API provider pauses the account.
ScUnauthorized == scKind \in {"gmail_api", "outlook_api"}

\* Opening the provider or listing its folders fails, a statement fails, or the cycle
\* runs into its 30 minutes.
ScFails ==
    /\ ScRunning
    /\ ScEnd("error")
    /\ UNCHANGED <<scKind, scRemote, scStore, scEvents, scChoice, scTried, scOff>>

ScPaused ==
    /\ scPc \in {"list", "status", "sync"} /\ ScUnauthorized
    /\ ScEnd("reauth_required")
    /\ UNCHANGED <<scKind, scRemote, scStore, scEvents, scChoice, scTried, scOff>>

\* OAuth was repeated: start_account resets the status.
ScReconnected ==
    /\ scPc = "idle" /\ scState = "reauth_required"
    /\ scState' = "idle" /\ scChosen' = <<>> /\ scTried' = {}
    /\ UNCHANGED <<scKind, scRemote, scStore, scPc, scFound, scTodo, scTotal, scSynced,
                   scEvents, scChoice, scOff>>

ScList ==
    /\ scPc = "list"
    /\ scFound' = scListed /\ scPc' = "upsert"
    /\ UNCHANGED <<scKind, scRemote, scStore, scState, scChosen, scTodo, scTotal, scSynced,
                   scTried, scEvents, scChoice, scOff>>

ScDefaultOn(f) ==
    CASE scKind = "gmail_api" -> ScTypeOf[f] \in {"INBOX", "SENT"}
      [] scKind = "gmail_imap" -> ScTypeOf[f] \in {"INBOX", "SENT", "DRAFTS"}
      [] OTHER -> TRUE
ScDefault(f) == IF ScDefaultOn(f) THEN "on" ELSE "off"

\* The conflict clause of the upsert leaves sync_enabled alone.
ScUpserted(f) == IF f \in scFound /\ scDb[f] = "absent" THEN ScDefault(f) ELSE scDb[f]

ScUpsert ==
    /\ scPc = "upsert"
    /\ scDb' = [f \in ScFolders |-> ScUpserted(f)]
    /\ scPc' = "drop"
    /\ UNCHANGED <<scKind, scRemote, scRows, scLive, scState, scFound, scChosen, scTodo,
                   scTotal, scSynced, scTried, scEvents, scChoice, scOff>>

\* Fault: the folder's messages are not looked at.
ScDroppableFull(f) == f \notin scFound

\* Not listed any more, and no message row left.
ScDroppable(f) == f \notin scFound /\ scRows[f] = 0

ScDrop ==
    /\ scPc = "drop"
    /\ LET gone == {f \in ScFolders : scDb[f] # "absent" /\ ScDroppable(f)}
       IN  /\ scDb' = [f \in ScFolders |-> IF f \in gone THEN "absent" ELSE scDb[f]]
           /\ scRows' = [f \in ScFolders |-> IF f \in gone THEN 0 ELSE scRows[f]]
           /\ scLive' = [f \in ScFolders |-> IF f \in gone THEN 0 ELSE scLive[f]]
           /\ scChoice' = [f \in ScFolders |-> IF f \in gone THEN "none" ELSE scChoice[f]]
    /\ scPc' = "choose"
    /\ UNCHANGED <<scKind, scRemote, scState, scFound, scChosen, scTodo, scTotal, scSynced,
                   scTried, scEvents, scOff>>

ScPriority(f) ==
    CASE ScTypeOf[f] = "INBOX" -> 0 [] ScTypeOf[f] = "DRAFTS" -> 1 [] ScTypeOf[f] = "SENT" -> 2
      [] ScTypeOf[f] = "ARCHIVE" -> 3 [] ScTypeOf[f] = "CUSTOM" -> 4 [] ScTypeOf[f] = "SPAM" -> 5
      [] ScTypeOf[f] = "TRASH" -> 6 [] OTHER -> 7

\* Folders of one priority keep the provider's order, any order here.
ScChoose ==
    /\ scPc = "choose"
    /\ \E s \in SetToSeqs(scFound \cap ScEnabled) :
        /\ \A i, j \in DOMAIN s : i < j => ScPriority(s[i]) <= ScPriority(s[j])
        /\ scChosen' = s /\ scTodo' = s
    /\ scTotal' = 0
    /\ scPc' = "status"
    /\ UNCHANGED <<scKind, scRemote, scStore, scState, scFound, scSynced, scTried, scEvents,
                   scChoice, scOff>>

\* Fault: folders switched off are counted too.
ScSyncedOfAll(live) == MapThenSumSet(LAMBDA f : live[f], ScFolders)

\* SYNCED_MESSAGE_COUNT_SQL: the live rows of the folders enabled now.
ScSyncedCount(live) == MapThenSumSet(LAMBDA f : live[f], ScEnabled)

\* folder_status of the next folder, or the end of the pre-pass.  A status that fails
\* is left out of the total.
ScStatus ==
    /\ scPc = "status"
    /\ IF scTodo # <<>>
       THEN /\ scTodo' = Tail(scTodo)
            /\ \/ scTotal' = scTotal + scMail[Head(scTodo)] /\ UNCHANGED scOff
               \/ UNCHANGED scTotal /\ scOff' = scOff \cup {"status"}
            /\ UNCHANGED <<scPc, scSynced>>
       ELSE /\ scSynced' = ScSyncedCount(scLive)
            /\ scTodo' = scChosen /\ scPc' = "sync"
            /\ scOff' = scOff \cup {"stale" : f \in {g \in ScEnabled : scLive[g] > scMail[g]}}
            /\ UNCHANGED scTotal
    /\ UNCHANGED <<scKind, scRemote, scStore, scState, scFound, scChosen, scTried, scEvents,
                   scChoice>>

\* sync_folder on the next folder: up to date, or an error on the way, after which the
\* pass goes on with the others.
ScSyncFolder ==
    /\ scPc = "sync" /\ scTodo # <<>>
    /\ LET f == Head(scTodo)
       IN  /\ \E n \in {scLive[f], scMail[f]} : scLive' = [scLive EXCEPT ![f] = n]
           /\ scRows' = [scRows EXCEPT ![f] = Max({@, scLive'[f]})]
           /\ scTried' = scTried \cup {f}
    /\ scTodo' = Tail(scTodo) /\ scSynced' = ScSyncedCount(scLive')
    /\ UNCHANGED <<scKind, scRemote, scDb, scPc, scState, scFound, scChosen, scTotal,
                   scEvents, scChoice, scOff>>

ScDone ==
    /\ scPc = "sync" /\ scTodo = <<>>
    /\ ScEnd("idle")
    /\ UNCHANGED <<scKind, scRemote, scStore, scEvents, scChoice, scTried, scOff>>

ScNext ==
    \/ \E f \in ScFolders : ScMailChanges(f) \/ ScListingChanges(f)
    \/ \E v \in {"on", "off"} :
        \/ \E f \in ScFolders : ScToggle({f}, v)
        \/ ScToggle({f \in ScFolders : scDb[f] # "absent"}, v)
    \/ ScBegin \/ ScFails \/ ScPaused \/ ScReconnected
    \/ ScList \/ ScUpsert \/ ScDrop \/ ScChoose \/ ScStatus \/ ScSyncFolder \/ ScDone

ScSpec == ScInit /\ [][ScNext]_scVars

-----------------------------------------------------------------------------
(* Properties. *)

\* The folders the user switched on or off stay so, whatever the server lists and
\* however cycles end, for as long as the folder's row exists (the upsert of
\* sync_account).  A row is dropped, and the choice with it, only while it is empty.
ScChoiceKept ==
    \A f \in ScFolders : scChoice[f] # "none" => scDb[f] = scChoice[f]

\* A folder the server stops listing takes no messages with it: rows that are stored
\* stay stored, hidden ones included, and so does their folder ("never ones that still
\* hold local messages", sync_account).
ScMessagesKept ==
    [][\A f \in ScFolders : scRows[f] > 0 => scRows'[f] >= scRows[f] /\ scDb'[f] # "absent"]_scVars

\* A cycle that reports success has tried every folder it chose, although some of them
\* failed (sync_account's loop).
ScSuccessTriedAll ==
    scPc = "idle" /\ scState = "idle" => Range(scChosen) \subseteq scTried

\* What a cycle keeps of the folders, their messages and its own report, under one
\* name.
ScCycleKeeps == [](ScChoiceKept /\ ScSuccessTriedAll) /\ ScMessagesKept

\* "519 / 226": the progress shown never exceeds its total, unless during the cycle
\* mail arrived, a folder was switched or its status failed, the server had expunged
\* mail not yet reconciled, or an enabled folder with messages is not listed any more
\* (SYNCED_MESSAGE_COUNT_SQL, set_progress).
ScProgressFits ==
    scPc = "sync" /\ scOff = {} /\ (\A f \in ScEnabled \ Range(scChosen) : scLive[f] = 0)
    => scSynced <= scTotal
=============================================================================
