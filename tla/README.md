# A verification project for mailquill

TLA+ models of mailquill's server - mail synchronisation, moves, drafts,
contacts, calendars, logins -, the TLC runs that check them on small instances,
and TLAPS proofs of the properties that matter most. Paths below are relative to
the repository; a file without a directory is named in section 1.

`PROJECT.json` holds the details in machine-readable form: which source lines a
definition translates, what each run checks, one mutant of the code per checked
property, the hazards the properties are for, and the findings.

## 1. The system

mailquill is a mail client with a server of its own. The server keeps one SQLite
database per user, synchronises it with the user's mail accounts (IMAP, Gmail
over IMAP, the Gmail API or Microsoft Graph), contacts and calendars, and serves
a web client. The following table is the inventory; "state" is what survives
between operations. All paths are under `src/backend`.

| Component | State | Operations | Interacts with | Module |
|---|---|---|---|---|
| flag outbox (`mail-sync/src/sync.rs`, `api/src/routes/messages.rs`, migration 0044) | flags of `messages`, `pending_flag_ops` | mark read, star, thread and bulk actions; flush; reconcile; re-import | handlers write, the sync task pushes and reads back | FlagOutbox |
| folder sync (`sync.rs`, `sync_folder`) | `folders.uidvalidity/last_uid`, `messages`, notifications | status, purge, reconciliation, chunk walk, batches, cursor | the provider; the user's deletes on the same rows | FolderSync |
| Gmail discovery (`mail-sync/src/provider/gmail.rs`, `idmap.rs`) | `remote_message_ids`, backfill token and completeness | list pages, assign uids, store state, drop mappings | folder sync sees it as a provider | GmailDiscovery, IdMap |
| Outlook provider (`provider/outlook.rs`, `http.rs`) | `remote_message_ids` | list, assign, flag fetches, moves | the same | OutlookSync, IdMap |
| folder counters (migrations 0038, 0039) | `folders.live_message_count/unread_count` | triggers; the recount | everything that writes `messages` | FolderCounters |
| sync manager and task loop (`manager.rs`, `sync.rs`) | task registry, status map, channels of 32 commands, IDLE child | start, stop, poll, queue move / expunge / flush; select loop | account and message routes, start-up | SyncManager |
| sync cycle (`sync.rs`, `sync_account`) | `folders` rows, progress | discover, upsert, drop, choose, order, sync each | task loop above it, folder sync below it | SyncCycle |
| moves (`session.rs`, `provider/imap.rs`, `gmail_imap.rs`, `messages.rs`) | hidden rows, the queue, the server's folders | delete, archive, move, not spam | queue of the sync manager, poll of folder sync | MailMoves |
| bodies (`core/src/blob.rs`, `messages.rs`, `mail-sync/src/lib.rs`) | blob store, `message_bodies`, `attachments`, verdict, trusted senders | store at import, fetch lazily, re-analyse, trust | folder sync, phishing | MessageBodies |
| threading (`threading.rs`, `api/src/routes/threads.rs`) | `messages.thread_id` | assign at import, collect a conversation | folder sync | Threading |
| phishing (`phishing/src/lib.rs`) | none | findings, score, verdict | import and bodies | PhishingScore |
| lists and search (`db/src/queries.rs`, `mailbox.rs`, `search.rs`) | none of their own | pages under a cursor, fuzzy terms, bulk scope | everything that writes `messages` | MailList |
| drafts and sending (`drafts.rs`, `send.rs`, `smtp`) | draft rows with negative uids, blobs | save, send, copy to Sent, delete | folder purge of folder sync | Compose |
| credentials (`oauth_tokens.rs`, `oauth.rs`, `accounts.rs`) | the encrypted blob and status of an account | refresh, connect, reconnect, add, edit, delete | every provider connection | AccountCredentials |
| login sessions (`auth.rs`, app migrations 0002, 0007) | `refresh_tokens` | login, rotate with a grace window, logout | the web client's tabs | AuthSessions |
| contacts (`contact-sync`, `contacts.rs`, `contact_reconcile.rs`) | sources, books with cursor and generation, contacts | sync; task registry; edit, photo | own servers, account and OAuth routes | ContactSync, ContactTasks, ContactEdits |
| calendars (`calendar-sync`, `calendar.rs`) | accounts, calendars with ctag or delta link, events | pull, create, edit, delete, RSVP | own servers | CalendarSync |
| DAV accounts (`dav.rs`) | contacts; calendars with ctag; events, dirty and deleted | sync_dav | CalDAV and CardDAV servers | DavSync |
| the rest | | push, events, rules, PGP, settings, pool, crypto, rendering | | - |

What is hard here is not in any one function:

- almost nothing shares a transaction. A handler's row update, its outbox upsert
  and its command are three steps; a sync reads, awaits a server, and writes what
  it read. Two requests for one calendar, contact, draft or account exclude each
  other nowhere. Every such gap is an interleaving;
- anything may stop anywhere: a provider error, the cycle's timeout that drops
  the future, `abort`, a closed browser tab that drops the handler, a restart of
  the process. What was committed stays;
- the servers change meanwhile: mail arrives, is expunged or renumbered, other
  devices edit, pages shift, page tokens and cursors expire, refresh tokens rotate;
- commands live in memory and channels are bounded;
- caches (counters, status, cursors, ctags, id maps, generations) are maintained
  beside what they summarise.

What makes each component correct is stated by its properties (section 3). The
hazards behind them, each at its line, are listed in PROJECT.json.

## 2. Modules

One module per component. Properties are at the end of a module, proofs in
`...Proofs`. Definitions introduced as a "Fault", and those named like
`...OffByOne`, `...Without...`, `...Ignoring...`, are deliberately wrong variants
of the definition that follows them; no specification uses them, they are the
mutants of section 3. The newer modules prefix their names (`Mv`, `Dr`, ...) so
that an MC module can extend several.

History variables (`hist`, `raced`, `abandoned`, ...) record that something
happened which the code does not guard against - two requests overlapped, one was
cut short. A property conditional on them says that these are the only ways to
the bad state; that they are real ways is described in section 7.

**FlagOutbox.** One account, one folder, the two flag columns; `pending_flag_ops`
with the id the upsert keeps. A request is `WriteRows` and one `EnqueueFlagOp` per
row; the bulk action enqueues from a spawned task. The sync task is a program
counter: flush (`SnapshotOps`, `PushFlag`, `RecordOutcome`), reconciliation
(`ReadPending`, per chunk `FetchFlags`, `ReadStored`, `ApplyFlags`) and re-import
(`FetchChunk`, `PersistMetadata`, `ReapplyPending`). `raced` holds the keys whose
latest change was made while the task held older data about them, `released`
those whose value another device changed or whose retry budget was spent.

**OutboxIntent** is the abstract specification of it, flag by flag: a change is
accepted, waits with its value while the server may be written with that value and no
other, and is done when the server has it. FlagOutbox implements it
(`OutboxKeepsIntent`, `INSTANCE OutboxIntent WITH ...`): a flag with an outbox row is
waiting and its wish is the row's value, one without is done and its wish is the local
flag, a raced or released one is open. This says more than `UnracedChangeNotLost`: no
push of an old snapshot, no reconciliation and no restart may change the wish or write
the server with another value on the way, and a row may only leave with the server's
flag in agreement.

**FolderSync.** `sync_folder` against a mailbox that may deliver, expunge and
renumber between any two steps. Locals of the function are variables, so that
what is read before an await and used after it is stale as in the code. `Imap`
selects the cursor rule: chunk end, or contiguous rows for API providers, whose
fetches may leave messages out. `Interrupted` ends the cycle at any step.

**IdMap** is the abstract specification of `remote_message_ids`: a batch of new
ids is numbered oldest first above every uid in use, a batch that left gives its
uids back, nothing else changes. **GmailDiscovery** (one label; passes of up to
`MaxPages` pages, page tokens, completeness) and **OutlookSync** (one folder; no
stored position, so a pass that runs out of pages or fails keeps nothing or loses
the rest; flag fetches whose 404s drop mappings; the import; moves) implement it:
`LabelHasIdMap` and part of `OlFolderKept` are `INSTANCE IdMap WITH ...` used as
properties, and theorems of DiscoveryProofs.

**FolderCounters.** The triggers as one operator (`After`), applied by every
statement that writes `messages`; the recount is a COUNT, whose failure counts as
0, and a later UPDATE.

**SyncManager.** Registry, lock, status, tasks, channels, IDLE children and API
requests. `start_account` is three steps under the mutex; `abort` only marks a
task, which may run on to its next suspension, and `Drop` takes it away with its
channel and child.

**SyncCycle.** `do_sync` and `sync_account`: the pause for reauthentication, the
listing with its defaults, the upsert that keeps the user's choice, the dropping
of empty vanished folders, choice and order by type, the progress counters and the
loop that goes on after a folder's failure, while folders appear, vanish and are
switched.

**MailMoves.** One message from the hidden row over the in-memory queue to MOVE,
to COPY + \Deleted + EXPUNGE, or to Gmail's labels, with lost queues, commands that
fail between their steps, and polls that give rows to what they find.

**MessageBodies.** Keys without a folder, the fetch of bodies and images by
concurrent opens, the import that does the same, re-analysis and trusted senders.
A dropped handler or a restart stops any of it.

**Threading.** `assign_thread_id` over several folders with copies of one message,
with the map of known threads read when a walk begins. **PhishingScore** is
`analyse` as a list of findings built check by check, compared with a definition
that counts each kind of evidence. **MailList** is keyset paging while rows come,
go and change, the fuzzy search and the scope of a bulk action.

**Compose.** Save (blob, then rows), background delivery, copy to Sent, deletion
after delivery, deletion on request, the folder purge, a restart.

**AccountCredentials.** Every writer of the blob - refresh, reconnect, login,
addition, edit, deletion - as read, request, write. **AuthSessions** - tabs sharing
a cookie: SELECT, rotating UPDATE and INSERT as separate steps, the grace window,
logout, lost answers, restored cookies.

**ContactSync.** One source: provider versions, books with cursor and generation,
page by page syncs run by the task and by handlers whose local write failed,
expired cursors, cancellation, disabling with or without the cache.
**ContactTasks.** The registry whose start and stop take locks one after another.
**ContactEdits.** One contact: conditional updates of three providers, what each
loses in conversion, late local writes, the photo cache.

**CalendarSync.** One collection (CalDAV by ctag, Graph by delta link, Google by full list):
pulls, recurrences, remote-first edits, RSVP, deletion of the account in three
statements. **DavSync.** `sync_dav`: contacts replaced by DELETE and INSERTs, the
two-way merge of events with ctag, etag, dirty and deleted rows.

### How they fit together

FlagOutbox, FolderSync and FolderCounters are three views of the same `messages`
rows: flags, visibility and cursor, counts. SyncManager schedules the cycles
(SyncCycle) and commands (MailMoves) whose folder work FolderSync describes.
GmailDiscovery and OutlookSync implement what FolderSync assumes of an API
provider, each with the import composed in. ContactSync composes the task and the
edit handler on one cache; MailMoves composes handler, queue, task and poll;
MessageBodies composes import, handlers and verdicts.

### Suites

Many components are small enough that a run of their own would cost more in
start-up than in states. `MCMailbox`, `MCMessages` and `MCAccounts` extend several
modules and explore **one component at a time**: `component` is chosen initially, only
its actions happen, the others keep one initial state. The modules share no variables,
so this checks each of them exactly as a run of its own would, and the number of
states is the sum and not the product. The fairness of `MCMailbox` conjoins
`component = ...` with each component's fair action for the same reason. TLC's
coverage reports a suite's next-state relation as a whole; its per-expression
counts show every action of every extended module taken (those of Gmail that
`MCMailbox_all` bounds away, in `MCAccounts_safety`).

## 3. Runs

Every passing run has, for each property, a mutant of the code that violates it.

| Run | Checks | Shows |
|---|---|---|
| FlagOutbox_converges | Converges | one message below and one above the cursor, bulk action: the outbox drains, local and server flags agree |
| FlagOutbox_confirm | ConfirmedBeforeRemoval (violated) | a newer change leaves the outbox unpushed |
| FolderSync_imap | CursorCovers, SyncNeverUnhides, CatchesUp | four uids in chunks of two, batches of one, two faults |
| FolderSync_resync | CursorCovers (violated) | the old cursor survives the purge |
| GmailDiscovery_moved | DiscoversAll (violated) | a message that returns to a label is never found |
| SyncManager_isolation | TypeOK, OneTaskPerAccount, RequestsReturn, SyncingEnds | two accounts, two requests, one task may hang with a full channel |
| SyncManager_commands | QueuedMoveAttempted | moves are not starved by ticker and IDLE |
| ContactSync_sync | NoChangeSkipped, GhostsNeedAbandonedRun, RemovedCacheStaysEmpty, CatchesUp | a source edited, disabled, cancelled, restarted and expired at any step |
| MCMailbox_all | CompleteMeansKnown, DiscoversAll, LiveCountExact, DriftNeedsRace, UnreadHeals, MbContentFits, PhVerdictFits, ThViewWhole, DrDraftKept, CtTasksAlone, CtTasksEnd | Gmail backfill, counters, bodies, phishing, threads, drafts, contact tasks, with fairness |
| FolderSync_renumber | NotifiedAtMostOnce, SyncHidesOnlyExpunged | an API provider's folder, renumbered at any step, with partial fetches (for IMAP both are proved, section 5) |
| MCMessages_safety | PendingWins, UnracedChangeNotLost, OutboxKeepsIntent, MlListShown, MvMessageKept, ScCycleKeeps, ScProgressFits | flags: two requests, both flags, another device and one fault against flush and reconciliation; lists; moves; the sync cycle |
| MCAccounts_safety | CaCalendarKept, CrCredentialsKept, CeContactKept, AuSessionsEnd, DvNothingLost, LabelHasIdMap, OlFolderKept | calendars, credentials, contact edits, sessions, DAV, the two REST id maps |

A property that names a whole component (`...Kept`, `...Fits`, `...Ends`) is the
conjunction of parts stated separately, each with its own comment, just above it:

- `MbContentFits`: pointers lead to the message's own blob; attachments once;
  trusted senders are not flagged; a stored body has been judged.
- `MvMessageKept`: no loss on the server; a hidden row is on its way or gone; one
  copy unless a move failed half-way or was asked twice.
- `DrDraftKept`: a listed draft opens; what was saved last is in the drafts or
  delivered; a save under way does not bring a deleted draft back.
- `ScCycleKeeps`: the user's switches; messages of unlisted folders; a cycle that
  reports success tried every folder.
- `PhVerdictFits`: the sum is that of the kinds of evidence; own brands are no
  spoof; a listed url is phishing; trust covers subdomains.
- `ThViewWhole`: opening a message shows its whole conversation, unless a message
  was threaded before its chain was known and the guess from its oldest reference
  was wrong, or its headers name several conversations at once or none
  (`ThOneConversation`; the headers of the run name one each, so it excludes nothing
  there and matters for the theorem, whose headers are arbitrary).
- `CaCalendarKept`: a stored ctag or delta link skips nothing; one row per event;
  no orphans of a deleted account; an accepted invitation is stored.
- `CrCredentialsKept`: a rotated token is kept; reauthentication is asked only
  for tokens the provider refuses; one account per mailbox.
- `CeContactKept`: a lost update needs an answer without version; versions tell
  contents; a stale row needs a late write; the photo is current.
- `MlListShown`: a list walked to its end showed everything that matched all
  along, and nothing twice.
- `AuSessionsEnd`: tabs do not log each other out; logout and expiry end sessions.
- `DvNothingLost`: ctags vouch for rows; one row per event; edits wait until the
  server has them; contacts whole; no unseen change overwritten.
- `OlFolderKept`: unknown mail below known mail was moved in or fell off a pass
  that ran out of pages; hidden is gone; the cursor covers stored mail; IdMap.
- `CtTasksAlone`: one task unless requests raced; a disabled source stays so.

The violation runs check what a comment or a migration of the repository says; the
findings in PROJECT.json quote it.

### Bounds

All bounds are CONSTANTS named in the modules (`MaxChanges`, `MaxFaults`,
`MvMaxOps`, ...). They are chosen so that each race the hazards name fits: two
requests and one task make every pairwise interleaving; two changes let a newer
one overtake an older one; two attempts reach the retry budget; four uids in
chunks of two make a second chunk with an inner and a last uid; one page per
request and two pages per pass make a label of three or four messages exceed the
budget; two tasks let a replaced one outlive its successor's start; capacity one
or two fills the channel; three messages and a page of two put a page's edge
between equal dates; two tabs and three tokens give a rotation within a rotation;
three moves of one message include there and back. `MaxFaults` of one or two
suffices because a fault returns the actor to its start with what was committed,
and a second one from there is again a single one. Calendars and DAV accounts have
one synchronisation beside the other requests: two that overlap are what the history
variables exclude. The proofs of section 5 have no bounds.

CHECK_DEADLOCK is off where the instance ends when its bounded requests are used
up: SyncManager, ContactSync and the suites. In FlagOutbox, FolderSync and
GmailDiscovery the task always starts another cycle, and deadlock is checked.

Requests are interchangeable (`HandlerSymmetry` in MCFlagOutbox); symmetry is used
in MCMessages_safety only, which checks no liveness.

## 4. Fairness

- FlagOutbox: handlers run to their end and the task keeps taking steps; tokio
  polls both and the ticker fires again. Nothing is assumed of pushes: the server
  may refuse every one, the retry budget ends it.
- FolderSync, GmailDiscovery: weak fairness of the task's steps. The properties
  are conditional on the mailbox becoming quiet.
- FolderCounters: the pending UPDATE is executed, and every folder is recounted
  again and again (strong, as recounts of other folders come in between).
- SyncManager: weak fairness of handlers and of tasks that are not `Stuck` (their
  awaits are bounded by the cycle timeout and the connection timeouts). Strong
  fairness of receiving (select! chooses among ready branches at random) and of
  waiting senders (tokio's semaphore is first come, first served). Nothing is
  assumed of the IDLE child or of new requests.
- ContactSync: weak fairness of the server's steps, the task's and the handler's;
  provider calls have timeouts and the task's timer fires. Not of users, other
  clients, or faults.
- ContactTasks: weak fairness of each task's steps; nothing of requests.

The other modules claim safety only: what they model is started by requests, and
the code promises no retry that could be waited for.

## 5. Proofs

`tlapm` checks every leaf. All theorems hold for every value of the constants
that satisfies the modules' ASSUMEs.

**FlagOutboxProofs** (`TypeCorrect`, `PendingProtected`, `UnracedChangeKept`).
Neither safety property is inductive: both depend on what the task is holding. The
invariant adds, for the outbox, that ids are unique and below `nextId`; for the
task, which locals are in scope at each program counter; that an operation in
hand either matches the outbox row with its id or its key is raced
(`OpsMatchRows`, `FlushValues`); that the flags fetched for reconciliation or
import agree with what the server has or the key is raced or released
(`ReconcileValues`, `ImportValues`); and that a key some request still has to
enqueue is raced (`HandlersRace`). Each action is then a case on whether it
touches the key in question. `TypeCorrect` is proved only; no run spends a property
on it.

*The outbox as an intention* (`IntentKept`). The refinement of OutboxIntent, flag by
flag: for each action a lemma says which of `Excuse`, `Accept`, `Deliver`, `Confirm` and
`Rest` the step is for a flag, from the same invariant. That a push is a `Deliver`
needs that the operation in hand carries the row's value unless raced, that the deletion
of a row is a `Confirm` needs that the server took that value, and that what the
reconciliation writes is a `Rest` needs that it agrees with the wish.

**FolderSyncProofs.** For servers that renumber a folder as often as they like
(`FolderRows`): no message is announced twice (`AnnouncedOnce`), and two action
properties - the task shows no hidden message again (`HiddenStaysHidden`) and hides
only what the server has lost (`OnlyExpungedIsHidden`). `Numbering` says when the
stored row speaks of the current uids, `Cycle` what each statement may rely on: after
a purge the cursor in hand is one of the old numbering, but then nothing is stored.
For folders whose UIDVALIDITY does not change (`MaxValidity = 1` is a hypothesis;
without it `CursorCovers` is false, see FolderSync_resync) the cursor passes no
message that is not stored (`NoMessageSkipped`): uids are assigned upwards, before
the walk the locals are the stored ones (`Approach`), and during it everything
between the saved cursor and the chunk that the server holds is stored (`Walk`).

**SyncManagerProofs** (`ManagerTypeCorrect`, `OneTaskTheorem`). The argument is
the critical section of `start_account`: a request that has cancelled the old
task and not yet registered the new one holds the mutex (`LockHeld`), and
meanwhile no task of that account is alive (`Vacant`). `HaveAccounts` says that
running tasks and requests have an account.

**DiscoveryProofs: the id maps** (`GmailImplementsIdMap`, `OutlookImplementsIdMap`,
`GmailIdsDistinct`, `OutlookIdsDistinct`). The refinement: `AssignIds` and the
assigning end of an Outlook pass map to `Assign` of the ids found, dropped
mappings to `Release`, every other step to a stutter. The code numbers a batch by
rank above the largest mapped uid, so the lemma the simulation rests on is that the
rank of a member of a finite set of numbers grows with it (`RankGrows`). The
invariants it needs (`GmMapInv`, `OlMapInv`) only say that what is found exists and
that uids are numbers. Distinctness is an invariant of IdMap (`BatchStaysDistinct`)
and carried over to both providers.

**DiscoveryProofs: the counters** (`LiveCountTheorem`, `DriftTheorem`), for any finite set
of messages (`FcConstantAssumption`). A trigger subtracts what leaves a counted set
and adds what enters it; because the rows a statement leaves alone are counted before and
after, an exact count stays exact and the clamp at 0 never bites
(`TriggerKeepsCount`, for both counters). All statements are writes of a table of
rows, so `WriteKeeps` treats them at once. `unread_count` needs one fact more: the
count a recount holds is still true of a folder nobody touched meanwhile
(`CountIsCurrent`).

**DiscoveryProofs: Gmail** (`StopIsSafe`), for any page size and budget, where no
older message is moved into the label and no cycle is cut short (`MaxLabelings = 0`,
`MaxFaults = 0` are hypotheses of the theorems; TLC refutes the property without either,
see section 7). That unknown messages of a complete label are newer than the known
ones only becomes inductive with what an incomplete label promises: a message that no
pass has found is below the token, so that it will still be listed, or newer than all
that was found (`NothingSkipped`, with `ToList` for each step of a pass). A page is
the newest part of what is below the token (`PageIsTop`), which rests on finite
cardinalities and on the least-number principle (`NewestOnTop`, used for both
providers).

**DiscoveryProofs: Outlook** (`FolderKept`), with every failure and interruption the
module has. The three parts of `OlFolderKept` lean on each other. That a known id is a
safe place to stop needs the same of a pass under way: what it has not found below what
it found is accounted for or still listed (`OlFoundExplained`), and `NewestOnTop` carries
it over a page. That only the rows of vanished messages are hidden needs that a message
keeps the uid its row was stored under (`OlRowMapped`), that the cursor covers stored
mail needs the converse (`OlRowIsOwn`); both hold up to uids handed out twice.

**ContactSyncProofs** (`ChangesReachTheCache`, `DeletionsReachTheCache`,
`RemovedCacheIsNotRefilled`) of one invariant (`ContactInvariance`). What a run has in
hand is old by the time it is written, so the invariant dates it: the listing in hand
accounts for every change up to its moment (`PageTrue`), an incremental run still starts
from the cursors that are stored (`FromStoredCursors`), and the generation a full run
stamps separates the books it has done from those to come, so that pruning takes exactly
the contacts that are gone (`Stamped`). `OneWriter` and `Removed` say who may write.

**MailboxProofs.** *Drafts* (`DraftKept`, with `DrStaysDeleted` as an action property):
whoever deletes a body deleted its row before, and a save at its transaction has put a
body there (`DrBodies`); what is sent is no older than what was saved last (`DrSent`).
*Bodies* (`ContentFits`): a blob's key leads to a message with that uid, and a request
about to insert a row has its blob (`MbPointers`); without overlaps a request is alone
with its message (`MbAlone`), whoever stores a body will judge it (`MbJudged`), and the
list of a marking in progress still holds every flagged message (`MbCleans`). *Moves*
(`MessageKept`): a folder's next uid is fresh, so that a copy never lands on a hidden
row (`MvFresh`); an original is marked only when its copy is live (`MvSomewhere`); and
only that original may be live beside its copy (`MvApart`). *Lists* (`ListShown`): what was
shown is at the cursor or above it until it is deleted (`MlAbove`), and what has matched
from the opening on is below the cursor if it was not shown (`MlAwaited`). Both rest on
what a page is: the first rows of what belongs to the view below the cursor
(`MlPageIsFirst`), also where two queries are merged (`MlMergeFirst`).

**AccountsProofs.** *Credentials* (`CredentialsKept`): a token belongs to one account,
in rows and in calls under way (`CrOwned`); without a race a call is the only one about
its row and asks with the token stored there (`CrAlone`); a token that was rotated away is
left only where it is about to be written over (`CrRotated`). *Contacts at their provider*
(`ContactKept`, for unbounded versions): every copy of the contact - the row, what a
request read, what it will store - fits the server (`CeFits`: its version tells its content,
current content has the current photo, and what is as new as the page under way has the
page's photo), and content that no sync could have replaced has one photo (`CeOnePhoto`).
*Sessions* (`SessionsEnd`, two invariants and an action property): a token that logged out
unused is revoked and carries no time of replacement, and no request under way rotates it
(`AuSentOut`); while no answer was lost, a token in an answer is good and nowhere else, and
only a request in flight leaves a replaced token in the cookie (`AuFresh`).

**CalendarProofs** (`CalendarKept`), for any number of events and of requests. Two facts
hold whatever overlaps: a row is named after an event (`CaNamed`), and what a handler found
is there or was erased (`CaFound`). The rest holds while requests have not overlapped, so
that one actor is at work (`CaAlone`). A stored tag vouches for the rows (`CaVouched`): a
sync reads its tag before it lists events, stores every event it listed, and stores the tag
last (`CaStoring`, `CaSyncVouches`), and a handler changes the resource, and with it the
collection's tag, before the row (`CaUnderEdit`). One row per event needs that a row's key
is in nobody else's hand (`CaSingle`, `CaOnce`); `CaInvitedStays`, `CaLeft` and `CaUnlinked`
speak of accepted invitations, deleted accounts and accounts that have no calendar.

*Threads, in MailboxProofs* (`ThreadsWhole`), for arbitrary headers. A conversation is
named by the message its chain of headers leads back to, and the chain is the least set
closed under the headers, so no induction over its length is needed. The invariant says
that every row, and the map a walk reads once and then uses for all its chunks, names
the conversation's own thread wherever nothing on the chain was guessed wrong
(`ThSound`). Guesses are never taken back, so what is sound after a step was so before;
and the first reference the walk knows is sound if the message is, with the same root
(`ThRootOf`), whichever it is.

*DAV, in AccountsProofs* (`NothingLost`). That edits wait until the server has them
needs no exclusion: a row that a request has selected still names its event and is the
stored row while that is dirty, whoever else is merging (`DvCopies`). The rest holds
until two requests overlap, so that one is between its ctag and its last row, and
`DvUnraced` says what a tag that is still current tells of the listing it holds
(`DvFreshOf`), of the rows merged so far (`DvMergedOf`) and of those to come
(`DvAwaitedOf`). Contacts are whole and no unseen change is overwritten while no request
was cut short either (`DvBooks`, `DvUnknown`).

*The cycle, in SyncManagerProofs* (`CycleKeeps`, an invariant and an action property),
for any finite set of folders. A folder with messages has a row and a cycle about to
sync a folder has chosen it from the rows (`ScHomed`), as nothing drops a row after
that; what was chosen was tried or is still to do (`ScToTry`). That the progress never exceeds
its total (`ProgressFits`) is about sums. While a cycle counts, the total covers the mail
of the folders counted so far; while it syncs, the total covers what every chosen folder
can still show, its rows or its mail, whichever is more (`ScLoad`, `ScFits`), and what is
shown is the sum of the enabled folders' rows. The models take sums with folds, whose
values no induction of the prover reaches; but a sum of naturals is the number of pairs of
a member and a number up to its value (`SumIsCard`, by the least counterexample among the
subsets), and pairs are compared, joined and mapped to each other as sets are (`SumLe`,
`SumUnion`).

*Verdicts, in SyncManagerProofs for the lemmas about sums* (`VerdictFits`), for any
message, list of brands and relations between hosts. The list of findings is joined from
pieces; `PhList` keeps of each which kinds it has and which of them twice. `dedup_by_id`
leaves the kinds as they are and its own kind once (`PhOnceList`: every element of a
flattened list comes from a place of its own, `PhFlat`), so that all but the misleading
links are there once, and the score is the sum over the kinds of evidence
(`PhSumOnce`, `PhSumConcat`, `PhScored`).

*Contact tasks, in ContactSyncProofs* (`TasksAlone`). Until calls overlap, one request
at a time is between its stop and its insert; the live task is the one the handle names
or the one that request spawned (`CtHandled`), so stopping ends it, and a disabled
source has no run left that would report another state (`CtIdleWhenDisabled`).

Only model-checked: all liveness properties (`Converges`, `CatchesUp`, `DiscoversAll`,
`UnreadHeals`, `RequestsReturn`, `SyncingEnds`, `QueuedMoveAttempted`, `CtTasksEnd`), since
fairness and ENABLED are beyond the prover. Every other property of a passing run is
stated by a theorem.

## 6. Abstractions, and what is not modelled

- Messages, contacts and events are names or numbers with a version; the version
  stands for the content. Where a conversion loses something that matters
  (Graph's phone numbers, a vCard's photo) it is modelled by what it loses.
- SQLite statements are atomic and serialised, as the database guarantees;
  transactions are one step where the code uses one, and only there.
- A notification is sent when the code sends it; the seen and deleted flags that
  also suppress it are left out, so the model announces at least as much.
- In FolderSync a failed batch rolls back and ends the cycle, which `Interrupted`
  covers. In SyncManager a cycle is a step with three outcomes. In SyncCycle
  syncing a folder brings its rows up to the server, some of the way, or fails.
- In MailList a row of a list is one message, and a date is what the cursor compares.
  In Threading a message is its Message-ID and a list with a subject one name.
- In PhishingScore, which organisation a host belongs to, which brand it lies
  under or resembles, and which links were extracted, are given relations.
- In AuthSessions and AccountCredentials signing, hashing and encryption are
  perfect; a token is a number.
- CalendarSync and DavSync treat one collection and up to two events; time zones,
  iCalendar text and the windows of expansion are left out.

Not modelled, with the reasons in PROJECT.json: web push and events (best effort),
the plain single-row routes for rules, PGP keys, settings and discovery, databases,
pool and start-up, cryptography and TLS, the web client's rendering; within the
modelled components MIME and iCalendar parsing, SMTP and IMAP protocol text, the S3
backend, search ranking and contact deduplication.

## 7. Behaviour the models show

These are states the code reaches; the properties are conditional on them, and no
run is spent on most because the repository promises nothing about them.

Mail:

- `reconcile_flags` reads the outbox once per folder and the stored flags once per
  chunk; a flag changed and queued in between is written back to the server's
  stale value (sync.rs:1330), though the comment above says it is kept. These are
  the `raced` keys of `UnracedChangeNotLost`; the queued push then restores it.
- `highest_uid` assigns a pass's ids before it stores that the scan is incomplete
  (gmail.rs:315). Interrupted in between, a complete label stays complete and older
  messages are left below a known id: `DiscoversAll` is checked with `MaxFaults = 0`.
- `IdMap::assign` continues from the largest uid still mapped (idmap.rs:92), so a
  removed newest mapping frees its uid while the old row is stored under it. At or
  below the cursor the message that gets it is not imported (`olReused`).
- Outlook: an older message moved into a folder lies below known ids and is never
  discovered (`olMoved`); so is what a pass of 50 pages left out (`olLost`).
- the recount's COUNT and UPDATE are two statements (sync.rs:911), so
  `unread_count` is exact only up to `DriftNeedsRace` and `UnreadHeals`.
- a manual poll between `stop_account` and the DELETE of an account starts a task
  that never looks at the row again (accounts.rs:591).
- `start_account` drops the moves queued on the task it replaces (manager.rs:89);
  `QueuedMoveAttempted` counts them as lost, and in MailMoves their row stays hidden.
  A move out of Gmail's archive hides the row although the message stays there.
- a cycle in which every folder failed still reports idle, and an empty folder that
  a listing misses loses the user's switch with its row (sync.rs:296).
- lists continue strictly below the last date: of messages with one date that a
  page's edge separates, the rest is skipped (queries.rs:108). "All N" bulk actions
  do not use the list's unread filter.
- a body's key has no folder (blob.rs:30): two folders that use equal uids share it.
- a delivery that times out after the server took the message is reported failed;
  a renumbered Drafts folder deletes the local drafts (sync.rs:657).

Accounts:

- a session that logged out while a renewal was under way can continue within the
  grace window (auth.rs:204, 282); `AuLogoutEnds` speaks of idle sessions.
- refresh, reconnect and edit write whole credential blobs they read earlier
  (oauth_tokens.rs:167): the later write wins, with a token already rotated.
- two additions of one mailbox that overlap, or an addition and an OAuth login, both
  pass the duplicate check, and both insert.
- ContactSync: generations are read and not reserved, so a run that reuses one may
  take a selected book's rows out of the cache (repository.rs:475).
- an edit that stores its answer after a sync applied a later change leaves the row
  stale until the contact changes again; an answer without a version makes the next
  update unconditional. A photo cached for a stale row stays with the row of the next
  edit, since neither has a photo version (repository.rs:256); this takes four versions
  of one contact, more than the run's bound of two edits reaches, and was met when the
  inductive invariant was proved. Graph's business phones are erased by an edit.
- a calendar's pull never removes events that left the server; answering one
  invitation twice inserts it twice; deleting an account in three statements leaves
  what a running pull inserts in between.
- sync_dav pushes without recurrence and attendees, and stores the guessed url when
  discovery fails (dav.rs:301).

## 8. Plan

Done so far: the core of the mail synchronisation with its proofs; the sync cycle,
moves, drafts, bodies, threads, lists, phishing, the REST providers with their
abstract id map, the abstract outbox, credentials, sessions, contacts, calendars, DAV.

Next, in this order:

1. FlagOutbox with renumbering, composed with FolderSync.
2. The late `reauth_required`: SyncManager composed with AccountCredentials.
3. Invitations that arrive by mail, between the import and CalendarSync.
