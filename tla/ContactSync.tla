---------------------------- MODULE ContactSync ----------------------------
(***************************************************************************)
(* One contact source managed by a mailbox (CardDAV, Google People or      *)
(* Microsoft Graph): the provider, the local cache it is copied to, the    *)
(* background task that synchronizes it, and a request handler that edits  *)
(* a contact on the provider first and in the cache afterwards.  Both the  *)
(* task and, when its local write fails, the handler run sync_source_once. *)
(*                                                                         *)
(* A contact never leaves its address book; its version is the moment of   *)
(* its last change, and a cursor is the moment of the listing it ended.    *)
(* The pages of one listing describe one moment of the provider.           *)
(***************************************************************************)
EXTENDS Naturals, FiniteSets

CONSTANTS Contacts, Books,
          BookOf,        \* the address book of each contact
          MaxChanges,    \* bound: changes of the provider's contacts
          MaxEdits,      \* bound: user requests (edits, selection, enable, disable)
          MaxFaults      \* bound: failed calls, cancelled tasks and restarts

ASSUME ContactAssumption ==
    /\ BookOf \in [Contacts -> Books]
    /\ "none" \notin Books /\ "none" \notin Contacts
    /\ MaxChanges \in Nat /\ MaxEdits \in Nat /\ MaxFaults \in Nat

Runners == {"task", "handler"}
Moments == 0 .. MaxChanges
NoCursor == MaxChanges + 1
NoRow == [version |-> 0, gen |-> 0]
NoBook == [gen |-> 0, cursor |-> NoCursor]
Blank == [pc |-> "off", incremental |-> TRUE, full |-> FALSE, gen |-> 0, todo |-> {},
          cursor |-> [b \in Books |-> NoCursor], book |-> "none",
          upserts |-> {}, tombstones |-> {}, moment |-> 0]
NoEdit == [pc |-> "off", op |-> "none", contact |-> "none", version |-> 0, gen |-> 0]

VARIABLES
    now,        \* the provider: moment of the last change
    changed,    \*   moment each contact last changed, 0 before it exists
    alive,      \*   the contacts that exist
    selected,   \* contact_accounts: the address books chosen in the assistant
    generation, \*   sync_generation
    capability, \*   capability_state
    enabled, retained,
    book,       \* contact_books: generation and cursor
    row,        \* contacts: remote version and generation
    run,        \* the sync of each runner
    edit,       \* the handler's contact request
    overlap,    \* history: a request and a sync, or two syncs, were under way together
    abandoned,  \* history: a full sync was left unfinished, or reused a generation
    edits, faults

provider == <<now, changed, alive>>
account == <<generation, capability, enabled, retained>>
cache == <<book, row>>
history == <<overlap, abandoned>>
vars == <<now, changed, alive, selected, generation, capability, enabled, retained,
          book, row, run, edit, overlap, abandoned, edits, faults>>

Init ==
    /\ now = 0 /\ changed = [c \in Contacts |-> 0] /\ alive = {}
    /\ selected = Books
    /\ generation = 0 /\ capability = "pending" /\ enabled = TRUE /\ retained = TRUE
    /\ book = [b \in Books |-> NoBook] /\ row = [c \in Contacts |-> NoRow]
    /\ run = [a \in Runners |-> Blank] /\ edit = NoEdit
    /\ overlap = FALSE /\ abandoned = FALSE
    /\ edits = 0 /\ faults = 0

HasRow(c) == row[c] # NoRow
HasBook(b) == book[b] # NoBook
Fault == faults < MaxFaults /\ faults' = faults + 1
Running(a) == run[a].pc \notin {"off", "paused"}
Editing == edit.pc # "off"
(* What a runner that stops here leaves behind. *)
Abandons(a) == run[a].full /\ run[a].pc = "books"

-----------------------------------------------------------------------------
(* The provider. *)

Stamp(c) == now < MaxChanges /\ now' = now + 1 /\ changed' = [changed EXCEPT ![c] = now + 1]

RemoteWrite(c) ==
    /\ changed[c] = 0 \/ c \in alive
    /\ Stamp(c) /\ alive' = alive \cup {c}
    /\ overlap' = (overlap \/ edit.contact = c)
    /\ UNCHANGED <<selected, account, cache, run, edit, abandoned, edits, faults>>

RemoteDelete(c) ==
    /\ c \in alive
    /\ Stamp(c) /\ alive' = alive \ {c}
    /\ overlap' = (overlap \/ edit.contact = c)
    /\ UNCHANGED <<selected, account, cache, run, edit, abandoned, edits, faults>>

-----------------------------------------------------------------------------
(* sync_source_once: the task starts it for an eligible source.            *)

IneligibleAfterError == {"disabled", "error", "unavailable"}
Ineligible == {"disabled", "unavailable"}

StartSync ==
    /\ run["task"].pc = "off"
    /\ enabled /\ capability \notin Ineligible
    /\ capability' = "syncing"
    /\ run' = [run EXCEPT !["task"].pc = "plan"]
    /\ overlap' = (overlap \/ Editing \/ Running("handler"))
    /\ UNCHANGED <<provider, selected, generation, enabled, retained, cache, edit,
                   abandoned, edits, faults>>

(* sync_source_attempt: the books, the next generation and the cursors.  A *)
(* run is full when it may not be incremental or a book has no cursor.     *)
NextGeneration == generation + 1
Reused == \/ \E c \in Contacts : row[c].gen = NextGeneration
          \/ \E b \in Books \ selected : book[b].gen = NextGeneration

Plan(a) ==
    /\ run[a].pc = "plan"
    /\ LET full == ~run[a].incremental \/ \E b \in selected : book[b].cursor = NoCursor
       IN  /\ run' = [run EXCEPT ![a].pc = "books", ![a].full = full,
                                 ![a].gen = NextGeneration, ![a].todo = selected,
                                 ![a].cursor = [b \in Books |-> book[b].cursor]]
           /\ abandoned' = (abandoned \/ (full /\ Reused))
    /\ UNCHANGED <<provider, selected, account, cache, edit, overlap, edits, faults>>

(* The adapter's changes call: everything, or what changed since. *)
Upserts(b, since) ==
    {[contact |-> c, version |-> changed[c]] :
        c \in {d \in alive : BookOf[d] = b /\ changed[d] > since}}
Tombstones(b, since) ==
    {c \in Contacts \ alive : BookOf[c] = b /\ changed[c] > since}

Request(a, b) ==
    /\ run[a].pc = "books" /\ run[a].book = "none" /\ b \in run[a].todo
    /\ LET since == IF run[a].full THEN 0 ELSE run[a].cursor[b]
       IN  run' = [run EXCEPT ![a].book = b, ![a].moment = now,
                              ![a].upserts = Upserts(b, since),
                              ![a].tombstones = IF run[a].full THEN {} ELSE Tombstones(b, since)]
    /\ UNCHANGED <<provider, selected, account, cache, edit, history, edits, faults>>

(* apply_change_page: one transaction; the last page stores the cursor.    *)
(* Empty pages that are not the last are left out.                         *)
Upserted(c, ups, g) ==
    LET hits == {u \in ups : u.contact = c}
    IN  IF hits = {} THEN row[c] ELSE [version |-> (CHOOSE u \in hits : TRUE).version, gen |-> g]

ApplyPageEarlyCursor(a, ups, tombs) ==
    LET b == run[a].book
        g == run[a].gen
        last == ups = run[a].upserts /\ tombs = run[a].tombstones
    IN
    /\ run[a].pc = "books" /\ b # "none"
    /\ last \/ ups # {} \/ tombs # {}
    /\ row' = [c \in Contacts |-> IF c \in tombs THEN NoRow ELSE Upserted(c, ups, g)]
    /\ book' = [book EXCEPT ![b] = [gen |-> g, cursor |-> run[a].moment]]
    /\ run' = [run EXCEPT ![a].upserts = @ \ ups, ![a].tombstones = @ \ tombs,
                          ![a].book = IF last THEN "none" ELSE @,
                          ![a].todo = IF last THEN @ \ {b} ELSE @]
    /\ UNCHANGED <<provider, selected, account, edit, history, edits, faults>>

ApplyPage(a, ups, tombs) ==
    LET b == run[a].book
        g == run[a].gen
        last == ups = run[a].upserts /\ tombs = run[a].tombstones
    IN
    /\ run[a].pc = "books" /\ b # "none"
    /\ last \/ ups # {} \/ tombs # {}
    /\ row' = [c \in Contacts |-> IF c \in tombs THEN NoRow ELSE Upserted(c, ups, g)]
    /\ book' = [book EXCEPT ![b] = [gen |-> g, cursor |-> IF last THEN run[a].moment ELSE @.cursor]]
    /\ run' = [run EXCEPT ![a].upserts = @ \ ups, ![a].tombstones = @ \ tombs,
                          ![a].book = IF last THEN "none" ELSE @,
                          ![a].todo = IF last THEN @ \ {b} ELSE @]
    /\ UNCHANGED <<provider, selected, account, edit, history, edits, faults>>

(* Deleting a book row deletes its contacts. *)
Keep(books, rows) ==
    /\ book' = [b \in Books |-> IF b \in books THEN book[b] ELSE NoBook]
    /\ row' = [c \in Contacts |-> IF c \in rows /\ BookOf[c] \in books THEN row[c] ELSE NoRow]

OfGeneration(g) == {b \in Books : HasBook(b) /\ book[b].gen = g}
Done(a) == run[a].pc = "books" /\ run[a].todo = {}

FinishWithoutPruning(a) ==
    /\ Done(a) /\ run[a].full
    /\ Keep(OfGeneration(run[a].gen), Contacts)
    /\ generation' = run[a].gen
    /\ capability' = "idle"
    /\ run' = [run EXCEPT ![a].pc = "report"]
    /\ UNCHANGED <<provider, selected, enabled, retained, edit, history, edits, faults>>

FinishFullSync(a) ==
    /\ Done(a) /\ run[a].full
    /\ Keep(OfGeneration(run[a].gen), {c \in Contacts : row[c].gen = run[a].gen})
    /\ generation' = run[a].gen
    /\ capability' = "idle"
    /\ run' = [run EXCEPT ![a].pc = "report"]
    /\ UNCHANGED <<provider, selected, enabled, retained, edit, history, edits, faults>>

FinishBookDiscovery(a) ==
    /\ Done(a) /\ ~run[a].full
    /\ Keep(OfGeneration(run[a].gen), Contacts)
    /\ run' = [run EXCEPT ![a].pc = "report"]
    /\ UNCHANGED <<provider, selected, account, edit, history, edits, faults>>

(* A runner that stops: the handler's request ends with it. *)
Stops(a) ==
    /\ run' = [run EXCEPT ![a] = Blank]
    /\ edit' = IF a = "handler" THEN NoEdit ELSE edit

Report(a) ==
    /\ run[a].pc = "report"
    /\ capability' = "idle"
    /\ Stops(a)
    /\ UNCHANGED <<provider, selected, generation, enabled, retained, cache, history, edits, faults>>

(* A listing answered with an expired cursor: the same run starts over.    *)
CursorExpires(a) ==
    /\ run[a].pc = "books" /\ run[a].book = "none" /\ run[a].todo # {}
    /\ run[a].incremental /\ ~run[a].full
    /\ Fault
    /\ run' = [run EXCEPT ![a] = [Blank EXCEPT !.pc = "plan", !.incremental = FALSE]]
    /\ UNCHANGED <<provider, selected, account, cache, edit, history, edits>>

(* Any other error ends the run.  The states that wait for the user, here  *)
(* "unavailable", and an invalid response also end the task.               *)
SyncFails(a, state, pauses) ==
    /\ run[a].pc \in {"plan", "books"}
    /\ state = "unavailable" => pauses
    /\ Fault
    /\ capability' = state
    /\ abandoned' = (abandoned \/ Abandons(a))
    /\ run' = [run EXCEPT ![a] = [Blank EXCEPT !.pc = IF pauses /\ a = "task" THEN "paused" ELSE "off"]]
    /\ edit' = IF a = "handler" THEN NoEdit ELSE edit
    /\ UNCHANGED <<provider, selected, generation, enabled, retained, cache, overlap, edits>>

-----------------------------------------------------------------------------
(* The handlers of routes/contacts.rs.                                     *)

UserRequest == edits < MaxEdits /\ edits' = edits + 1
NotAborted == UNCHANGED run
Aborted == run' = [run EXCEPT !["task"] = Blank]

(* trigger_sync: spawn_contact_sync_task aborts the task it replaces. *)
TriggerSync ==
    /\ UserRequest
    /\ run["task"].pc # "off"
    /\ Aborted
    /\ abandoned' = (abandoned \/ Abandons("task"))
    /\ UNCHANGED <<provider, selected, account, cache, edit, overlap, faults>>

(* discover_mailbox_contacts with a selection. *)
SelectBooks(books) ==
    /\ UserRequest
    /\ books # {} /\ books # selected
    /\ selected' = books
    /\ overlap' = (overlap \/ \E a \in Runners : Running(a))
    /\ UNCHANGED <<provider, account, cache, run, edit, abandoned, faults>>

DisableContacts(keep) ==
    /\ UserRequest
    /\ enabled
    /\ Aborted
    /\ enabled' = FALSE /\ capability' = "disabled" /\ retained' = keep
    /\ IF keep THEN UNCHANGED cache ELSE Keep({}, {})
    /\ overlap' = (overlap \/ Editing)
    /\ abandoned' = (abandoned \/ Abandons("task"))
    /\ UNCHANGED <<provider, selected, generation, edit, faults>>

(* enable_mailbox_contacts: reconcile_mailbox_contact_source, then a new task. *)
EnableContacts ==
    /\ UserRequest
    /\ ~enabled \/ capability \in {"error", "unavailable"}
    /\ Aborted
    /\ enabled' = TRUE /\ capability' = "pending"
    /\ abandoned' = (abandoned \/ Abandons("task"))
    /\ UNCHANGED <<provider, selected, generation, retained, cache, edit, overlap, faults>>

(* create_contact, update_contact and delete_contact up to the provider's  *)
(* answer.  An update names the version it replaces; a deletion of what is *)
(* already gone succeeds.                                                  *)
Edit(op, c) ==
    /\ UserRequest
    /\ ~Editing /\ HasBook(BookOf[c])
    /\ CASE op = "create" -> changed[c] = 0 /\ Stamp(c) /\ alive' = alive \cup {c}
         [] op = "update" -> /\ HasRow(c) /\ c \in alive /\ row[c].version = changed[c]
                             /\ Stamp(c) /\ UNCHANGED alive
         [] op = "delete" -> /\ HasRow(c)
                             /\ IF c \in alive THEN Stamp(c) /\ alive' = alive \ {c}
                                               ELSE UNCHANGED provider
    /\ edit' = [pc |-> "generation", op |-> op, contact |-> c, version |-> changed'[c], gen |-> 0]
    /\ overlap' = (overlap \/ Running("task"))
    /\ UNCHANGED <<selected, account, cache, run, abandoned, faults>>

(* persist_mutation_or_reconcile: read the generation, then one page. *)
ReadGeneration ==
    /\ edit.pc = "generation"
    /\ edit' = [edit EXCEPT !.pc = "persist", !.gen = generation]
    /\ UNCHANGED <<provider, selected, account, cache, run, history, edits, faults>>

Persist ==
    LET c == edit.contact
        b == BookOf[c]
    IN
    /\ edit.pc = "persist"
    /\ book' = [book EXCEPT ![b] = [gen |-> edit.gen, cursor |-> @.cursor]]
    /\ row' = [row EXCEPT ![c] = IF edit.op = "delete" THEN NoRow
                                 ELSE [version |-> edit.version, gen |-> edit.gen]]
    /\ edit' = NoEdit
    /\ UNCHANGED <<provider, selected, account, run, history, edits, faults>>

PersistFails ==
    /\ edit.pc = "persist"
    /\ Fault
    /\ edit' = [edit EXCEPT !.pc = "reconcile"]
    /\ capability' = "syncing"
    /\ run' = [run EXCEPT !["handler"].pc = "plan"]
    /\ overlap' = (overlap \/ Running("task"))
    /\ UNCHANGED <<provider, selected, generation, enabled, retained, cache, abandoned, edits>>

(* The server process stops; start-up reconciles the source and restarts   *)
(* its task.                                                               *)
Restart ==
    /\ Fault
    /\ abandoned' = (abandoned \/ \E a \in Runners : Abandons(a))
    /\ run' = [a \in Runners |-> Blank] /\ edit' = NoEdit
    /\ capability' = IF enabled THEN "pending" ELSE "disabled"
    /\ UNCHANGED <<provider, selected, generation, enabled, retained, cache, overlap, edits>>

-----------------------------------------------------------------------------
SyncStep(a) ==
    \/ Plan(a)
    \/ \E b \in Books : Request(a, b)
    \/ \E ups \in SUBSET run[a].upserts, tombs \in SUBSET run[a].tombstones : ApplyPage(a, ups, tombs)
    \/ FinishFullSync(a) \/ FinishBookDiscovery(a) \/ Report(a)

ServerStep == StartSync \/ (\E a \in Runners : SyncStep(a)) \/ ReadGeneration \/ Persist

Next ==
    \/ \E c \in Contacts : RemoteWrite(c) \/ RemoteDelete(c)
    \/ ServerStep
    \/ \E a \in Runners :
        \/ CursorExpires(a)
        \/ \E s \in {"error", "unavailable"}, p \in BOOLEAN : SyncFails(a, s, p)
    \/ TriggerSync \/ Restart
    \/ \E books \in SUBSET Books : SelectBooks(books)
    \/ \E keep \in BOOLEAN : DisableContacts(keep)
    \/ EnableContacts
    \/ \E op \in {"create", "update", "delete"}, c \in Contacts : Edit(op, c)
    \/ PersistFails

Spec == Init /\ [][Next]_vars

(* The task loops every 300 seconds and every call returns. *)
FairSpec == Spec /\ WF_vars(ServerStep)

-----------------------------------------------------------------------------
(* The variables' types: a run in progress lists a book of its plan. *)
TypeOK ==
    /\ now \in Moments /\ changed \in [Contacts -> Moments] /\ alive \subseteq Contacts
    /\ selected \subseteq Books /\ generation \in Nat
    /\ capability \in {"pending", "syncing", "idle", "error", "unavailable", "disabled"}
    /\ enabled \in BOOLEAN /\ retained \in BOOLEAN
    /\ book \in [Books -> [gen : Nat, cursor : Moments \cup {NoCursor}]]
    /\ row \in [Contacts -> [version : Moments, gen : Nat]]
    /\ \A a \in Runners : run[a].book \in run[a].todo \cup {"none"} /\ run[a].todo \subseteq Books
    /\ edit.pc \in {"off", "generation", "persist", "reconcile"}
    /\ edit.pc = "reconcile" <=> Running("handler")
    /\ overlap \in BOOLEAN /\ abandoned \in BOOLEAN
    /\ edits \in 0 .. MaxEdits /\ faults \in 0 .. MaxFaults

Covered(c) == HasBook(BookOf[c]) /\ book[BookOf[c]].cursor \in Moments
              /\ changed[c] <= book[BookOf[c]].cursor

(* While requests and syncs do not overlap, a contact the provider has and *)
(* the stored cursor covers is in the cache at its version: whatever pages *)
(* failed, were cancelled or were replayed after an expired cursor, no     *)
(* change is skipped.  (After a full sync that reused a generation number, *)
(* a deselected book may keep its cursor and lose its contacts.)           *)
NoChangeSkipped ==
    ~overlap /\ ~abandoned => \A c \in alive : Covered(c) => row[c].version = changed[c]

Ghosts == {c \in Contacts \ alive : changed[c] > 0 /\ Covered(c) /\ HasRow(c)}
Quiet == ~overlap /\ \A a \in Runners : ~Running(a)

(* Between runs, a contact the provider deleted before the stored cursor   *)
(* is gone from the cache, unless a full sync stopped between a book's     *)
(* cursor and finish_full_sync's pruning, or a full sync reused the        *)
(* generation number an earlier run had stamped on rows.                   *)
GhostsNeedAbandonedRun == Quiet /\ ~abandoned => Ghosts = {}

(* A source disabled with its cache removed stays empty until it is        *)
(* enabled: the aborted task, and any handler that was not already editing *)
(* when it was disabled, adds nothing back.                                *)
RemovedCacheStaysEmpty ==
    ~enabled /\ ~retained /\ ~overlap =>
        (\A c \in Contacts : ~HasRow(c)) /\ (\A b \in Books : ~HasBook(b))

(* When requests, remote changes and faults have ended, an enabled source  *)
(* whose task is not paused copies every contact of the selected books.     *)
CatchesUp ==
    <>[](\/ ~enabled \/ run["task"].pc = "paused" \/ capability = "unavailable"
         \/ overlap \/ abandoned
         \/ \A c \in alive : BookOf[c] \in selected => row[c].version = changed[c])
=============================================================================
