----------------------------- MODULE FolderSync -----------------------------
(***************************************************************************)
(* One folder's incremental sync (sync_folder): the uid cursor, the chunk  *)
(* walk, the import transactions, the expunge reconciliation, the          *)
(* UIDVALIDITY purge and the new-mail notifications, against a mailbox     *)
(* that changes while the walk runs and a cycle that can stop anywhere.    *)
(*                                                                         *)
(* A stored message is only its visibility here (is_deleted); read and     *)
(* star flags are FlagOutbox's, the cached counts FolderCounters'.  The    *)
(* cursor rule depends on the provider: an IMAP range fetch is             *)
(* authoritative, an API fetch may leave messages out.                     *)
(***************************************************************************)
EXTENDS Integers, FiniteSets

CONSTANTS MaxUid,       \* bound: highest uid the mailbox ever assigns
          MaxValidity,  \* bound: number of UIDVALIDITY values
          UidChunk,     \* uid_chunk: 500, or 200 for the Gmail API
          WriteBatch,   \* WRITE_BATCH_SIZE
          Imap,         \* provider_kind.syncs_over_imap()
          MaxFaults     \* bound: cycles that end early

ASSUME ConstantAssumption ==
    /\ MaxUid \in Nat \ {0} /\ MaxValidity \in Nat \ {0}
    /\ UidChunk \in Nat \ {0} /\ WriteBatch \in Nat \ {0}
    /\ Imap \in BOOLEAN /\ MaxFaults \in Nat

Uid == 1 .. MaxUid
Cursor == 0 .. MaxUid

VARIABLES
    mailbox,    \* uids the server holds
    uidNext,    \* the next uid it assigns
    validity,   \* its UIDVALIDITY
    rows,       \* stored messages by uid: "none", "live" or "hidden" (is_deleted)
    folder,     \* the folders row: uidvalidity (0 is NULL) and last_uid (0 is NULL)
    notified,   \* history: notifications sent per uid of the current UIDVALIDITY
    pc,         \* where sync_folder is
    prev,       \* last_uid as read at the start of the cycle
    known,      \* stored_uidvalidity as read then
    status,     \* the UIDVALIDITY folder_status returned
    present,    \* uids in the last fetch_flags or chunk fetch
    highest,    \* highest_uid
    start,      \* chunk_start
    maxUid,     \* max_uid, the cursor to be saved
    fresh,      \* messages of the chunk that are new and not announced yet
    unsaved,    \* messages of the chunk not persisted yet
    faults      \* the bound's counter

server == <<mailbox, uidNext, validity>>
locals == <<prev, known, status, present, highest, start, maxUid, fresh, unsaved>>
vars == <<server, rows, folder, notified, pc, locals, faults>>

Stored(u) == rows[u] # "none"
ChunkEnd == IF start + UidChunk - 1 < highest THEN start + UidChunk - 1 ELSE highest
ChunkOpenEnded == start .. ChunkEnd - 1      \* Fault: the end is left out.
Chunk == start .. ChunkEnd

LocalsOutOfScope ==
    /\ prev' = 0 /\ known' = 0 /\ status' = 0 /\ present' = {} /\ highest' = 0
    /\ start' = 1 /\ maxUid' = 0 /\ fresh' = {} /\ unsaved' = {}

Init ==
    /\ mailbox = {} /\ uidNext = 1 /\ validity = 1
    /\ rows = [u \in Uid |-> "none"]
    /\ folder = [uidvalidity |-> 0, last_uid |-> 0]
    /\ notified = [u \in Uid |-> 0]
    /\ pc = "idle"
    /\ prev = 0 /\ known = 0 /\ status = 0 /\ present = {} /\ highest = 0
    /\ start = 1 /\ maxUid = 0 /\ fresh = {} /\ unsaved = {}
    /\ faults = 0

-----------------------------------------------------------------------------
(* The mail server and the user. *)

Deliver ==
    /\ uidNext <= MaxUid
    /\ mailbox' = mailbox \cup {uidNext}
    /\ uidNext' = uidNext + 1
    /\ UNCHANGED <<validity, rows, folder, notified, pc, locals, faults>>

Expunge(u) ==
    /\ u \in mailbox
    /\ mailbox' = mailbox \ {u}
    /\ UNCHANGED <<uidNext, validity, rows, folder, notified, pc, locals, faults>>

\* The server renumbers the mailbox: a new UIDVALIDITY and uids 1..n.  A server
\* keeps UIDVALIDITY stable while the folder is selected.
Renumber(n) ==
    /\ pc \in {"idle", "status"}
    /\ validity < MaxValidity
    /\ validity' = validity + 1
    /\ mailbox' = 1 .. n /\ uidNext' = n + 1
    /\ notified' = [u \in Uid |-> 0]
    /\ UNCHANGED <<rows, folder, pc, locals, faults>>

\* delete_message, move_message, a bulk or thread delete: hidden at once.
Hide(u) ==
    /\ rows[u] = "live"
    /\ rows' = [rows EXCEPT ![u] = "hidden"]
    /\ UNCHANGED <<server, folder, notified, pc, locals, faults>>

\* mark_not_spam on a message that is already in the inbox: visible again.
Unhide(u) ==
    /\ rows[u] = "hidden"
    /\ rows' = [rows EXCEPT ![u] = "live"]
    /\ UNCHANGED <<server, folder, notified, pc, locals, faults>>

-----------------------------------------------------------------------------
(* sync_folder, up to the chunk walk. *)

ReadFolderRow ==
    /\ pc = "idle"
    /\ prev' = folder.last_uid /\ known' = folder.uidvalidity
    /\ pc' = "status"
    /\ UNCHANGED <<server, rows, folder, notified, status, present, highest, start, maxUid,
                   fresh, unsaved, faults>>

\* Reconciling is skipped on the folder's first sync.
AfterStatus == IF prev > 0 THEN "flags" ELSE "highest"

FolderStatus ==
    /\ pc = "status"
    /\ status' = validity
    /\ pc' = IF known = 0 THEN "adopt" ELSE IF known # validity THEN "purge" ELSE AfterStatus
    /\ UNCHANGED <<server, rows, folder, notified, prev, known, present, highest, start,
                   maxUid, fresh, unsaved, faults>>

\* First sync: UPDATE folders SET uidvalidity.
AdoptValidity ==
    /\ pc = "adopt"
    /\ folder' = [folder EXCEPT !.uidvalidity = status]
    /\ pc' = AfterStatus
    /\ UNCHANGED <<server, rows, notified, locals, faults>>

\* UIDVALIDITY changed: DELETE FROM messages, then a second statement resets the
\* folder row.  `last_uid' was read before both and is used unchanged afterwards.
PurgeMessages ==
    /\ pc = "purge"
    /\ rows' = [u \in Uid |-> "none"]
    /\ pc' = "reset"
    /\ UNCHANGED <<server, folder, notified, locals, faults>>

ResetCursor ==
    /\ pc = "reset"
    /\ folder' = [uidvalidity |-> status, last_uid |-> 0]
    /\ pc' = AfterStatus
    /\ UNCHANGED <<server, rows, notified, locals, faults>>

\* reconcile_flags over 1..prev: a live row the server did not return is expunged.
FetchFlags ==
    /\ pc = "flags"
    /\ present' = mailbox \cap 1 .. prev
    /\ pc' = "hide"
    /\ UNCHANGED <<server, rows, folder, notified, prev, known, status, highest, start,
                   maxUid, fresh, unsaved, faults>>

\* Faults: the range of the response is ignored; nothing is hidden at all.
ExpungedEverywhere == {u \in Uid : rows[u] = "live" /\ u \notin present}
ExpungedNothing == {}

\* expunged_uids
Expunged == {u \in 1 .. prev : rows[u] = "live" /\ u \notin present}

HideExpunged ==
    /\ pc = "hide"
    /\ rows' = [u \in Uid |-> IF u \in Expunged THEN "hidden" ELSE rows[u]]
    /\ present' = {}
    /\ pc' = "highest"
    /\ UNCHANGED <<server, folder, notified, prev, known, status, highest, start, maxUid,
                   fresh, unsaved, faults>>

\* highest_uid bounds the walk; without new uids the cycle ends here.
HighestUid ==
    /\ pc = "highest"
    /\ IF \E u \in mailbox : u > prev
       THEN /\ \E h \in mailbox : (\A u \in mailbox : u <= h) /\ highest' = h
            /\ start' = prev + 1 /\ maxUid' = prev
            /\ pc' = "fetch"
            /\ UNCHANGED <<prev, known, status, present, fresh, unsaved>>
       ELSE LocalsOutOfScope /\ pc' = "idle"
    /\ UNCHANGED <<server, rows, folder, notified, faults>>

-----------------------------------------------------------------------------
(* The chunk walk. *)

\* fetch_headers / fetch_full.  IMAP returns every message of the range; an API
\* provider skips the messages whose own request failed.
FetchChunk ==
    /\ pc = "fetch"
    /\ \E got \in SUBSET (mailbox \cap Chunk) :
        /\ Imap => got = mailbox \cap Chunk
        /\ present' = got
    /\ pc' = "existing"
    /\ UNCHANGED <<server, rows, folder, notified, prev, known, status, highest, start,
                   maxUid, fresh, unsaved, faults>>

\* Fault: everything that was fetched counts as new.
NewInChunkAll == IF prev = 0 THEN {} ELSE present

\* existing_uids decides what is new; the folder's first sync announces nothing.
NewInChunk == IF prev = 0 THEN {} ELSE {u \in present : ~Stored(u)}

ReadExisting ==
    /\ pc = "existing"
    /\ fresh' = NewInChunk
    /\ unsaved' = present
    /\ present' = {}
    /\ pc' = "persist"
    /\ UNCHANGED <<server, rows, folder, notified, prev, known, status, highest, start,
                   maxUid, faults>>

\* One write transaction: the next WriteBatch messages by uid.  The upsert's
\* MAX(excluded.is_deleted, messages.is_deleted) keeps a hidden row hidden.
Batch == {u \in unsaved : Cardinality({w \in unsaved : w < u}) < WriteBatch}

\* Fault: the upsert takes the server's is_deleted as it is.
ImportedUnhidden(u) == "live"

Imported(u) == IF rows[u] = "hidden" THEN "hidden" ELSE "live"

PersistBatch ==
    /\ pc = "persist" /\ unsaved # {}
    /\ rows' = [u \in Uid |-> IF u \in Batch THEN Imported(u) ELSE rows[u]]
    /\ unsaved' = unsaved \ Batch
    /\ UNCHANGED <<server, folder, notified, pc, prev, known, status, present, highest,
                   start, maxUid, fresh, faults>>

\* After the transactions: bodies, phishing verdicts and one push per new message.
\* Fewer than all of `fresh' are announced: seen ones and excluded folders are not.
Notify(u) ==
    /\ pc = "persist" /\ unsaved = {} /\ u \in fresh
    /\ \E sent \in {0, 1} : notified' = [notified EXCEPT ![u] = @ + sent]
    /\ fresh' = fresh \ {u}
    /\ UNCHANGED <<server, rows, folder, pc, prev, known, status, present, highest, start,
                   maxUid, unsaved, faults>>

\* contiguous_uid: n is the end of the gap-free run of stored uids after maxUid.
EndsRun(n) ==
    /\ \A u \in maxUid + 1 .. n : Stored(u)
    /\ n < ChunkEnd => ~Stored(n + 1)

\* The cursor after a chunk.  A gap before the chunk pins the API cursor.
NewCursor(n) ==
    IF Imap THEN n = (IF maxUid > ChunkEnd THEN maxUid ELSE ChunkEnd)
    ELSE IF maxUid + 1 < start THEN n = maxUid
    ELSE n \in maxUid .. ChunkEnd /\ EndsRun(n)

AdvanceCursor ==
    /\ pc = "persist" /\ unsaved = {} /\ fresh = {}
    /\ \E n \in Cursor : NewCursor(n) /\ maxUid' = n
    /\ pc' = "save"
    /\ UNCHANGED <<server, rows, folder, notified, prev, known, status, present, highest,
                   start, fresh, unsaved, faults>>

\* UPDATE folders SET last_uid, and on to the next chunk or out.
SaveCursor ==
    /\ pc = "save"
    /\ folder' = [folder EXCEPT !.last_uid = maxUid]
    /\ IF ChunkEnd >= highest
       THEN LocalsOutOfScope /\ pc' = "idle"
       ELSE /\ start' = ChunkEnd + 1 /\ pc' = "fetch"
            /\ UNCHANGED <<prev, known, status, present, highest, maxUid, fresh, unsaved>>
    /\ UNCHANGED <<server, rows, notified, faults>>

\* A provider or database error, the cycle timeout, an aborted task or a restart.
Interrupted ==
    /\ pc # "idle" /\ faults < MaxFaults
    /\ faults' = faults + 1
    /\ LocalsOutOfScope /\ pc' = "idle"
    /\ UNCHANGED <<server, rows, folder, notified>>

-----------------------------------------------------------------------------
SyncStep ==
    \/ ReadFolderRow \/ FolderStatus \/ AdoptValidity \/ PurgeMessages \/ ResetCursor
    \/ FetchFlags \/ HideExpunged \/ HighestUid \/ FetchChunk \/ ReadExisting \/ PersistBatch
    \/ (\E u \in Uid : Notify(u)) \/ AdvanceCursor \/ SaveCursor

Environment ==
    \/ Deliver
    \/ \E u \in Uid : Expunge(u) \/ Hide(u) \/ Unhide(u)
    \/ \E n \in Cursor : Renumber(n)

Next == SyncStep \/ Environment \/ Interrupted

\* The ticker and the runtime keep the task going; nothing is asked of the server.
Spec == Init /\ [][Next]_vars
FairSpec == Spec /\ WF_vars(SyncStep)

-----------------------------------------------------------------------------
(* Properties. *)

\* Type invariant of sync_folder: the cursor and the walk stay within the uids.
TypeOK ==
    /\ mailbox \in SUBSET Uid /\ uidNext \in 1 .. MaxUid + 1 /\ validity \in 1 .. MaxValidity
    /\ rows \in [Uid -> {"none", "live", "hidden"}]
    /\ folder \in [uidvalidity : 0 .. MaxValidity, last_uid : Cursor]
    /\ notified \in [Uid -> Nat]
    /\ pc \in {"idle", "status", "adopt", "purge", "reset", "flags", "hide", "highest",
               "fetch", "existing", "persist", "save"}
    /\ prev \in Cursor /\ known \in 0 .. MaxValidity /\ status \in 0 .. MaxValidity
    /\ present \in SUBSET Uid /\ highest \in Cursor /\ start \in 1 .. MaxUid + 1
    /\ maxUid \in Cursor /\ fresh \in SUBSET Uid /\ unsaved \in SUBSET Uid
    /\ faults \in 0 .. MaxFaults

\* No message is skipped: what the server holds at or below the saved cursor is
\* stored, whatever was delivered, expunged, left out of a fetch or interrupted
\* ("moving past a gap would permanently skip those messages", sync_folder).
CursorCovers ==
    folder.uidvalidity = validity =>
        \A u \in mailbox : u <= folder.last_uid => Stored(u)

\* A message is announced at most once, however often its chunk is imported again
\* (existing_uids in persist_message_metadata_chunk).
NotifiedAtMostOnce == \A u \in Uid : notified[u] <= 1

\* Only the user makes a hidden message visible again: no import and no
\* reconciliation does (MAX(excluded.is_deleted, messages.is_deleted)).
SyncNeverUnhides ==
    [][SyncStep => \A u \in Uid : rows[u] = "hidden" => rows'[u] # "live"]_vars

\* The reconciliation hides a message only if the server did not have it: a live
\* row is hidden by the task only when the mailbox has lost the message.
SyncHidesOnlyExpunged ==
    [][SyncStep => \A u \in Uid : rows[u] = "live" /\ rows'[u] = "hidden" => u \notin mailbox]_vars

\* Once the mailbox is quiet an IMAP folder holds every message of it, and shows
\* none below its cursor that is gone (reconcile_flags, the chunk walk).  A row an
\* interrupted chunk left above the cursor is only reconciled once newer mail
\* moves the cursor past it.
CatchesUp ==
    <>[][UNCHANGED <<server, rows>> \/ SyncStep]_vars =>
        <>[](/\ \A u \in mailbox : Stored(u)
             /\ \A u \in Uid : rows[u] = "live" /\ u <= folder.last_uid => u \in mailbox)
=============================================================================
