--------------------------- MODULE FolderSyncProofs ---------------------------
(***************************************************************************)
(* FolderSync for every mailbox size, chunk size, batch size and provider  *)
(* kind.  First for servers that renumber a mailbox as often as they like: *)
(* no message is announced twice, the task never shows a hidden message    *)
(* again and hides only what the server has lost.  Numbering says when the *)
(* folder row speaks about the server's current uids, Cycle what each      *)
(* statement of the task may rely on, the stale cursor after a purge       *)
(* included.  Then for a server that keeps its UIDVALIDITY: the cursor     *)
(* never passes a message that is not stored.  Covers(c) is the heart of   *)
(* it: everything the server holds up to c is stored.                      *)
(***************************************************************************)
EXTENDS FolderSync, TLAPS

Walking == pc \in {"fetch", "existing", "persist", "save"}

\* What the purge leaves until the walk starts.
NoRows == \A u \in Uid : rows[u] = "none"

\* A folder row of the current numbering lies below the server's next uid; one of
\* an older numbering belongs to a mailbox of which nothing was announced yet.
Numbering ==
    /\ \A u \in mailbox : u < uidNext
    /\ folder.uidvalidity <= validity
    /\ folder.uidvalidity = 0 => folder.last_uid = 0
    /\ folder.uidvalidity = validity => folder.last_uid < uidNext
    /\ folder.uidvalidity # validity => \A u \in Uid : notified[u] = 0

\* What each statement of the cycle relies on.  After a purge prev is a cursor of
\* the old numbering: it may lie above the new uids, but then nothing is stored.
Cycle ==
    /\ pc = "status" => known = folder.uidvalidity /\ prev = folder.last_uid
    /\ pc \in {"adopt", "purge", "reset"} => status = validity
    /\ pc = "adopt" => folder.uidvalidity = 0 /\ prev = 0
    /\ pc = "purge" => folder.uidvalidity # validity
    /\ pc = "reset" => folder.uidvalidity # validity /\ NoRows
    /\ pc \in {"flags", "hide", "highest"} \/ Walking => folder.uidvalidity = validity
    /\ pc = "flags" => prev < uidNext \/ NoRows
    /\ pc = "hide" => NoRows \/ (prev < uidNext /\ mailbox \cap 1 .. prev \subseteq present)
    /\ Walking => highest < uidNext /\ maxUid < uidNext

\* A message to be announced has not been announced, and an announced one is stored.
Announced ==
    /\ \A u \in Uid : notified[u] <= 1 /\ (notified[u] = 1 => Stored(u))
    /\ \A u \in fresh : notified[u] = 0 /\ (u \in unsaved \/ Stored(u))
    /\ pc # "persist" => fresh = {}

RInv == TypeOK /\ Numbering /\ Cycle /\ Announced

-----------------------------------------------------------------------------
\* No step leaves the types.
LEMMA TypeStep == ASSUME TypeOK, [Next]_vars PROVE TypeOK'
<1>1. ASSUME Deliver PROVE TypeOK'
  BY <1>1, ConstantAssumption DEF Deliver, TypeOK, Uid, Cursor, server, locals
<1>2. ASSUME NEW u \in Uid, Expunge(u) PROVE TypeOK'
  BY <1>2 DEF Expunge, TypeOK, locals
<1>3. ASSUME NEW n \in Cursor, Renumber(n) PROVE TypeOK'
  BY <1>3, ConstantAssumption DEF Renumber, TypeOK, Uid, Cursor, locals
<1>4. ASSUME NEW u \in Uid, Hide(u) PROVE TypeOK'
  BY <1>4 DEF Hide, TypeOK, server, locals
<1>5. ASSUME NEW u \in Uid, Unhide(u) PROVE TypeOK'
  BY <1>5 DEF Unhide, TypeOK, server, locals
<1>6. ASSUME ReadFolderRow PROVE TypeOK'
  BY <1>6 DEF ReadFolderRow, TypeOK, server
<1>7. ASSUME FolderStatus PROVE TypeOK'
  BY <1>7 DEF FolderStatus, AfterStatus, TypeOK, server
<1>8. ASSUME AdoptValidity PROVE TypeOK'
  BY <1>8 DEF AdoptValidity, AfterStatus, TypeOK, server, locals
<1>9. ASSUME PurgeMessages PROVE TypeOK'
  BY <1>9 DEF PurgeMessages, TypeOK, server, locals
<1>10. ASSUME ResetCursor PROVE TypeOK'
  BY <1>10, ConstantAssumption DEF ResetCursor, AfterStatus, TypeOK, Uid, Cursor, server,
     locals
<1>11. ASSUME FetchFlags PROVE TypeOK'
  BY <1>11 DEF FetchFlags, TypeOK, server
<1>12. ASSUME HideExpunged PROVE TypeOK'
  BY <1>12 DEF HideExpunged, TypeOK, server
<1>13. ASSUME HighestUid PROVE TypeOK'
  <2>1. CASE \E u \in mailbox : u > prev
    <3>1. highest' \in mailbox /\ start' = prev + 1 /\ maxUid' = prev
      BY <1>13, <2>1 DEF HighestUid
    <3>2. highest' \in Cursor /\ start' \in 1 .. MaxUid + 1 /\ maxUid' \in Cursor
      BY <3>1, ConstantAssumption DEF TypeOK, Uid, Cursor
    <3>. QED  BY <1>13, <2>1, <3>2 DEF HighestUid, TypeOK, server
  <2>2. CASE ~\E u \in mailbox : u > prev
    BY <1>13, <2>2, ConstantAssumption DEF HighestUid, LocalsOutOfScope, TypeOK, Cursor,
       server
  <2>. QED  BY <2>1, <2>2
<1>14. ASSUME FetchChunk PROVE TypeOK'
  BY <1>14 DEF FetchChunk, TypeOK, server
<1>15. ASSUME ReadExisting PROVE TypeOK'
  BY <1>15 DEF ReadExisting, NewInChunk, TypeOK, server
<1>16. ASSUME PersistBatch PROVE TypeOK'
  BY <1>16 DEF PersistBatch, Imported, TypeOK, server
<1>17. ASSUME NEW u \in Uid, Notify(u) PROVE TypeOK'
  BY <1>17, ConstantAssumption DEF Notify, TypeOK, Uid, Cursor, server, locals
<1>18. ASSUME AdvanceCursor PROVE TypeOK'
  BY <1>18 DEF AdvanceCursor, TypeOK, server
<1>19. ASSUME SaveCursor PROVE TypeOK'
  <2>1. folder' \in [uidvalidity : 0 .. MaxValidity, last_uid : Cursor]
    BY <1>19 DEF SaveCursor, TypeOK
  <2>2. CASE ChunkEnd >= highest
    BY <1>19, <2>1, <2>2, ConstantAssumption DEF SaveCursor, LocalsOutOfScope, TypeOK, Cursor,
       server
  <2>3. CASE ~(ChunkEnd >= highest)
    <3>1. ChunkEnd \in Int /\ ChunkEnd >= start /\ start >= 1 /\ highest <= MaxUid
      BY <2>3, ConstantAssumption DEF TypeOK, ChunkEnd, Cursor
    <3>2. start' \in 1 .. MaxUid + 1
      BY <1>19, <2>3, <3>1, ConstantAssumption DEF SaveCursor, TypeOK, Cursor
    <3>. QED  BY <1>19, <2>1, <2>3, <3>2 DEF SaveCursor, TypeOK, server
  <2>. QED  BY <2>2, <2>3
<1>20. ASSUME Interrupted PROVE TypeOK'
  BY <1>20, ConstantAssumption DEF Interrupted, LocalsOutOfScope, TypeOK, Cursor, server
<1>21. CASE UNCHANGED vars
  BY <1>21 DEF vars, server, locals, TypeOK
<1>. QED
  BY <1>1, <1>2, <1>3, <1>4, <1>5, <1>6, <1>7, <1>8, <1>9, <1>10, <1>11, <1>12, <1>13, <1>14,
     <1>15, <1>16, <1>17, <1>18, <1>19, <1>20, <1>21 DEF Next, SyncStep, Environment

\* New mail gets a uid above everything the folder row of this numbering knows.
LEMMA DeliverKeeps ==
    ASSUME RInv, TypeOK', Deliver
    PROVE  RInv'
<1> USE ConstantAssumption DEF RInv
<1>1. Numbering'
  BY DEF Deliver, Numbering, TypeOK, Uid, Cursor, locals
<1>2. Cycle'
  BY DEF Deliver, Cycle, TypeOK, Cursor, Walking, NoRows, locals
<1>3. Announced'
  BY DEF Deliver, Announced, Stored, locals
<1>. QED  BY <1>1, <1>2, <1>3

\* An expunge only shrinks what the flag fetch must have seen.
LEMMA ExpungeKeeps ==
    ASSUME RInv, TypeOK', NEW u \in Uid, Expunge(u)
    PROVE  RInv'
<1> USE ConstantAssumption DEF RInv
<1>1. Numbering'
  BY DEF Expunge, Numbering
<1>2. Cycle'
  BY DEF Expunge, Cycle, Walking, NoRows, locals
<1>3. Announced'
  BY DEF Expunge, Announced, Stored, locals
<1>. QED  BY <1>1, <1>2, <1>3

\* A renumbering makes the folder row one of an older numbering, of which nothing
\* was announced; the task is not past FolderStatus yet.
LEMMA RenumberKeeps ==
    ASSUME RInv, TypeOK', NEW n \in Cursor, Renumber(n)
    PROVE  RInv'
<1> USE ConstantAssumption DEF RInv
<1>1. Numbering'
  BY DEF Renumber, Numbering, TypeOK, Cursor, locals
<1>2. Cycle'
  BY DEF Renumber, Cycle, Walking, locals
<1>3. Announced'
  BY DEF Renumber, Announced, locals
<1>. QED  BY <1>1, <1>2, <1>3

\* Hiding a row keeps it stored, and an empty table has none to hide.
LEMMA HideKeeps ==
    ASSUME RInv, TypeOK', NEW u \in Uid, Hide(u)
    PROVE  RInv'
<1> USE ConstantAssumption DEF RInv
<1>1. Numbering'
  BY DEF Hide, Numbering, server
<1>2. Cycle'
  BY DEF Hide, Cycle, Walking, NoRows, server, locals
<1>3. Announced'
  BY DEF Hide, Announced, Stored, locals
<1>. QED  BY <1>1, <1>2, <1>3

\* Showing a hidden row keeps it stored.
LEMMA UnhideKeeps ==
    ASSUME RInv, TypeOK', NEW u \in Uid, Unhide(u)
    PROVE  RInv'
<1> USE ConstantAssumption DEF RInv
<1>1. Numbering'
  BY DEF Unhide, Numbering, server
<1>2. Cycle'
  BY DEF Unhide, Cycle, Walking, NoRows, server, locals
<1>3. Announced'
  BY DEF Unhide, Announced, TypeOK, Uid, Cursor, Stored, Walking, NoRows, server, locals,
     Numbering, Cycle
<1>. QED  BY <1>1, <1>2, <1>3

\* prev and known are the folder row's.
LEMMA ReadFolderRowKeeps ==
    ASSUME RInv, TypeOK', ReadFolderRow
    PROVE  RInv'
<1> USE ConstantAssumption DEF RInv
<1>1. Numbering'
  BY DEF ReadFolderRow, Numbering, server
<1>2. Cycle'
  BY DEF ReadFolderRow, Cycle, Walking
<1>3. Announced'
  BY DEF ReadFolderRow, Announced, Stored
<1>. QED  BY <1>1, <1>2, <1>3

\* The answer decides: an old numbering leads to the purge, the current one to a
\* prev below the server's next uid.
LEMMA FolderStatusKeeps ==
    ASSUME RInv, TypeOK', FolderStatus
    PROVE  RInv'
<1> USE ConstantAssumption DEF RInv
<1>1. Numbering'
  BY DEF FolderStatus, Numbering, server
<1>2. Cycle'
  BY DEF FolderStatus, AfterStatus, Cycle, Walking, server, Numbering
<1>3. Announced'
  BY DEF FolderStatus, Announced, Stored
<1>. QED  BY <1>1, <1>2, <1>3

\* A folder without UIDVALIDITY has no cursor either.
LEMMA AdoptValidityKeeps ==
    ASSUME RInv, TypeOK', AdoptValidity
    PROVE  RInv'
<1> USE ConstantAssumption DEF RInv
<1>1. Numbering'
  BY DEF AdoptValidity, AfterStatus, Numbering, TypeOK, Uid, Cursor, Stored, Walking, NoRows,
     server, locals, Cycle
<1>2. Cycle'
  BY DEF AdoptValidity, AfterStatus, Cycle, Walking, server
<1>3. Announced'
  BY DEF AdoptValidity, Announced, Stored, locals
<1>. QED  BY <1>1, <1>2, <1>3

\* The purge leaves no row; under the old numbering nothing was announced.
LEMMA PurgeMessagesKeeps ==
    ASSUME RInv, TypeOK', PurgeMessages
    PROVE  RInv'
<1> USE ConstantAssumption DEF RInv
<1>1. Numbering'
  BY DEF PurgeMessages, Numbering, server
<1>2. Cycle'
  BY DEF PurgeMessages, Cycle, Walking, NoRows, server, locals
<1>3. Announced'
  BY DEF PurgeMessages, Announced, locals, Numbering, Cycle
<1>. QED  BY <1>1, <1>2, <1>3

\* The second statement adopts the new numbering with an empty table.
LEMMA ResetCursorKeeps ==
    ASSUME RInv, TypeOK', ResetCursor
    PROVE  RInv'
<1> USE ConstantAssumption DEF RInv
<1>1. Numbering'
  BY DEF ResetCursor, Numbering, TypeOK, server, Cycle
<1>2. Cycle'
  BY DEF ResetCursor, AfterStatus, Cycle, Walking, NoRows, server
<1>3. Announced'
  BY DEF ResetCursor, Announced, Stored, locals
<1>. QED  BY <1>1, <1>2, <1>3

\* What the server returns for 1..prev is all it has there.
LEMMA FetchFlagsKeeps ==
    ASSUME RInv, TypeOK', FetchFlags
    PROVE  RInv'
<1> USE ConstantAssumption DEF RInv
<1>1. Numbering'
  BY DEF FetchFlags, Numbering, server
<1>2. Cycle'
  BY DEF FetchFlags, Cycle, Walking, NoRows, server
<1>3. Announced'
  BY DEF FetchFlags, Announced, Stored
<1>. QED  BY <1>1, <1>2, <1>3

\* Hiding expunged rows keeps them stored.
LEMMA HideExpungedKeeps ==
    ASSUME RInv, TypeOK', HideExpunged
    PROVE  RInv'
<1> USE ConstantAssumption DEF RInv
<1>1. Numbering'
  BY DEF HideExpunged, Numbering, server
<1>2. Cycle'
  BY DEF HideExpunged, Cycle, Walking, server
<1>3. Announced'
  BY DEF HideExpunged, Announced, Stored
<1>. QED  BY <1>1, <1>2, <1>3

\* The walk starts when the server has a uid above prev, wherever prev is from.
LEMMA HighestUidKeeps ==
    ASSUME RInv, TypeOK', HighestUid
    PROVE  RInv'
<1> USE ConstantAssumption DEF RInv
<1>1. Numbering'
  BY DEF HighestUid, Numbering, server
<1>2. Cycle'
  <2>1. CASE \E u \in mailbox : u > prev
    <3>1. /\ highest' \in mailbox /\ maxUid' = prev /\ pc' = "fetch"
          /\ UNCHANGED <<folder, validity, uidNext>>
      BY <2>1 DEF HighestUid, server
    <3>2. \A u \in mailbox : u < uidNext /\ u \in Nat
      BY DEF Numbering, TypeOK, Uid
    <3>3. highest' < uidNext' /\ maxUid' < uidNext'
      BY <2>1, <3>1, <3>2 DEF TypeOK, Cursor
    <3>. QED  BY <3>1, <3>3 DEF HighestUid, Cycle, Walking
  <2>2. CASE ~\E u \in mailbox : u > prev
    BY <2>2 DEF HighestUid, Cycle, Walking
  <2>. QED  BY <2>1, <2>2
<1>3. Announced'
  BY DEF HighestUid, LocalsOutOfScope, Announced, Stored
<1>. QED  BY <1>1, <1>2, <1>3

\* A fetch changes no stored data.
LEMMA FetchChunkKeeps ==
    ASSUME RInv, TypeOK', FetchChunk
    PROVE  RInv'
<1> USE ConstantAssumption DEF RInv
<1>1. Numbering'
  BY DEF FetchChunk, Numbering, server
<1>2. Cycle'
  BY DEF FetchChunk, Cycle, Walking, server
<1>3. Announced'
  BY DEF FetchChunk, Announced, Stored
<1>. QED  BY <1>1, <1>2, <1>3

\* What is new was not stored, so it was not announced.
LEMMA ReadExistingKeeps ==
    ASSUME RInv, TypeOK', ReadExisting
    PROVE  RInv'
<1> USE ConstantAssumption DEF RInv
<1>1. Numbering'
  BY DEF ReadExisting, Numbering, server
<1>2. Cycle'
  BY DEF ReadExisting, Cycle, Walking, server
<1>3. Announced'
  BY DEF ReadExisting, NewInChunk, Announced, TypeOK, Stored
<1>. QED  BY <1>1, <1>2, <1>3

\* A batch moves messages from unsaved to stored.
LEMMA PersistBatchKeeps ==
    ASSUME RInv, TypeOK', PersistBatch
    PROVE  RInv'
<1> USE ConstantAssumption DEF RInv
<1>1. Numbering'
  BY DEF PersistBatch, Numbering, server
<1>2. Cycle'
  BY DEF PersistBatch, Cycle, Walking, server
<1>3. Announced'
  BY DEF PersistBatch, Imported, Announced, TypeOK, Stored
<1>. QED  BY <1>1, <1>2, <1>3

\* A message is announced once it is stored.
LEMMA NotifyKeeps ==
    ASSUME RInv, TypeOK', NEW u \in Uid, Notify(u)
    PROVE  RInv'
<1> USE ConstantAssumption DEF RInv
<1>1. Numbering'
  BY DEF Notify, Numbering, Walking, server, Cycle
<1>2. Cycle'
  BY DEF Notify, Cycle, Walking, server
<1>3. Announced'
  BY DEF Notify, Announced, TypeOK, Uid, Cursor, Stored, Walking, NoRows, server, locals,
     Numbering, Cycle
<1>. QED  BY <1>1, <1>2, <1>3

\* The new cursor stays below the server's next uid.
LEMMA AdvanceCursorKeeps ==
    ASSUME RInv, TypeOK', AdvanceCursor
    PROVE  RInv'
<1> USE ConstantAssumption DEF RInv
<1>1. Numbering'
  BY DEF AdvanceCursor, Numbering, server
<1>2. Cycle'
  BY DEF AdvanceCursor, NewCursor, ChunkEnd, Cycle, TypeOK, Cursor, Walking, server
<1>3. Announced'
  BY DEF AdvanceCursor, Announced, Stored
<1>. QED  BY <1>1, <1>2, <1>3

\* The saved cursor is one of the current numbering.
LEMMA SaveCursorKeeps ==
    ASSUME RInv, TypeOK', SaveCursor
    PROVE  RInv'
<1> USE ConstantAssumption DEF RInv
<1>1. Numbering'
  BY DEF SaveCursor, Numbering, TypeOK, Walking, server, Cycle
<1>2. Cycle'
  BY DEF SaveCursor, LocalsOutOfScope, ChunkEnd, Cycle, TypeOK, Uid, Cursor, Stored, Walking,
     NoRows, server, locals, Numbering
<1>3. Announced'
  BY DEF SaveCursor, LocalsOutOfScope, Announced, Stored
<1>. QED  BY <1>1, <1>2, <1>3

\* An interrupted cycle forgets its locals and keeps what it saved.
LEMMA InterruptedKeeps ==
    ASSUME RInv, TypeOK', Interrupted
    PROVE  RInv'
<1> USE ConstantAssumption DEF RInv
<1>1. Numbering'
  BY DEF Interrupted, Numbering, server
<1>2. Cycle'
  BY DEF Interrupted, Cycle, Walking
<1>3. Announced'
  BY DEF Interrupted, LocalsOutOfScope, Announced, Stored
<1>. QED  BY <1>1, <1>2, <1>3

\* A folder that was never synced satisfies the invariant.
LEMMA InitRInv == Init => RInv
<1> SUFFICES ASSUME Init PROVE RInv
    OBVIOUS
<1>1. TypeOK
    BY ConstantAssumption DEF Init, TypeOK, Uid, Cursor
<1>2. Numbering /\ Cycle /\ Announced
    BY DEF Init, Numbering, Cycle, Walking, Announced
<1>. QED  BY <1>1, <1>2 DEF RInv

\* Every step keeps it, a renumbering of the mailbox and the purge it causes included.
LEMMA NextRInv == ASSUME RInv, [Next]_vars PROVE RInv'
<1>1. TypeOK'
    BY TypeStep DEF RInv
<1>2. CASE SyncStep
    BY <1>1, <1>2, ReadFolderRowKeeps, FolderStatusKeeps, AdoptValidityKeeps,
       PurgeMessagesKeeps, ResetCursorKeeps, FetchFlagsKeeps, HideExpungedKeeps,
       HighestUidKeeps, FetchChunkKeeps, ReadExistingKeeps, PersistBatchKeeps, NotifyKeeps,
       AdvanceCursorKeeps, SaveCursorKeeps DEF SyncStep
<1>3. CASE Environment
    BY <1>1, <1>3, DeliverKeeps, ExpungeKeeps, HideKeeps, UnhideKeeps, RenumberKeeps
       DEF Environment
<1>4. CASE Interrupted
    BY <1>1, <1>4, InterruptedKeeps
<1>5. CASE UNCHANGED vars
    BY <1>5 DEF vars, server, locals, RInv, TypeOK, Numbering, Cycle, Announced, Walking,
       NoRows, Stored
<1>. QED  BY <1>2, <1>3, <1>4, <1>5 DEF Next

\* The invariant holds throughout, however often the server renumbers.
THEOREM FolderRows == Spec => []RInv
BY InitRInv, NextRInv, PTL DEF Spec

\* No message is announced twice under one numbering, however often its chunk is
\* imported again and wherever the cycle is interrupted (existing_uids).
THEOREM AnnouncedOnce == Spec => []NotifiedAtMostOnce
<1>1. RInv => NotifiedAtMostOnce
    BY DEF RInv, Announced, NotifiedAtMostOnce
<1>. QED  BY <1>1, FolderRows, PTL

\* Only HideExpunged, the purge and an import write rows, and what they write.
LEMMA RowWrites ==
    ASSUME TypeOK, SyncStep
    PROVE  \/ HideExpunged
           \/ \A u \in Uid : rows[u] # "none" =>
                 rows'[u] = rows[u] \/ rows'[u] = "none"
<1>1. CASE PurgeMessages
    BY <1>1 DEF PurgeMessages
<1>2. CASE PersistBatch
    BY <1>2 DEF PersistBatch, Imported, TypeOK
<1>3. CASE ~(HideExpunged \/ PurgeMessages \/ PersistBatch)
  <2>1. rows' = rows
    BY <1>3 DEF SyncStep, ReadFolderRow, FolderStatus, AdoptValidity, ResetCursor, FetchFlags,
       HighestUid, FetchChunk, ReadExisting, Notify, AdvanceCursor, SaveCursor
  <2>. QED  BY <2>1
<1>. QED  BY <1>1, <1>2, <1>3

\* The task never shows a hidden message again: the upsert keeps the larger
\* is_deleted and the reconciliation only hides.
THEOREM HiddenStaysHidden == Spec => SyncNeverUnhides
<1>1. ASSUME TypeOK, SyncStep, NEW u \in Uid, rows[u] = "hidden"
      PROVE  rows'[u] # "live"
  <2>1. CASE HideExpunged
    BY <1>1, <2>1 DEF HideExpunged
  <2>. QED  BY <1>1, <2>1, RowWrites
<1>2. RInv /\ [Next]_vars => [SyncStep => \A u \in Uid : rows[u] = "hidden" => rows'[u] # "live"]_vars
  BY <1>1 DEF RInv
<1>. QED  BY <1>2, FolderRows, PTL DEF Spec, SyncNeverUnhides

\* The task hides a message only if the server does not have it: mail that arrives
\* between the flag fetch and the statement that hides lies above the range, and
\* after a purge, when prev may lie above it, nothing is stored.
THEOREM OnlyExpungedIsHidden == Spec => SyncHidesOnlyExpunged
<1>1. ASSUME RInv, SyncStep, NEW u \in Uid, rows[u] = "live", rows'[u] = "hidden"
      PROVE  u \notin mailbox
  <2>1. HideExpunged
    BY <1>1, RowWrites DEF RInv
  <2>2. u \in 1 .. prev /\ u \notin present
    BY <1>1, <2>1 DEF HideExpunged, Expunged
  <2>3. mailbox \cap 1 .. prev \subseteq present
    BY <1>1, <2>1 DEF HideExpunged, RInv, Cycle, NoRows
  <2>. QED  BY <2>2, <2>3
<1>2. RInv /\ [Next]_vars =>
        [SyncStep => \A u \in Uid : rows[u] = "live" /\ rows'[u] = "hidden" => u \notin mailbox]_vars
  BY <1>1
<1>. QED  BY <1>2, FolderRows, PTL DEF Spec, SyncHidesOnlyExpunged

-----------------------------------------------------------------------------
(* A server that keeps its UIDVALIDITY. *)

Covers(c) == \A u \in mailbox : u <= c => Stored(u)

\* The saved cursor lies below the server's next uid, and is covered.
CursorSaved ==
    /\ folder.last_uid < uidNext /\ Covers(folder.last_uid)
    /\ pc \notin {"purge", "reset"}
    /\ pc \in {"adopt", "flags", "hide", "highest"} => prev = folder.last_uid

\* The walk: max_uid is covered and lies before the chunk; an IMAP chunk's
\* messages are all either stored or still to be written.
Walk ==
    Walking =>
        /\ start <= highest /\ Covers(maxUid) /\ maxUid <= ChunkEnd
        /\ pc # "save" => maxUid < start
        /\ Imap => maxUid = IF pc = "save" THEN ChunkEnd ELSE start - 1
        /\ pc = "existing" /\ Imap => mailbox \cap Chunk \subseteq present
        /\ pc = "persist" /\ Imap => \A u \in mailbox \cap Chunk : u \in unsaved \/ Stored(u)

FInv == RInv /\ CursorSaved /\ Walk

\* New mail gets a uid above everything the folder knows.
LEMMA DeliverCovers ==
    ASSUME FInv, RInv', MaxValidity = 1, Deliver
    PROVE  FInv'
<1>1. CursorSaved'
    BY DEF Deliver, CursorSaved, TypeOK, Covers, Stored, Cursor, FInv, RInv, locals
<1>2. Walk'
    BY ConstantAssumption DEF Deliver, Walk, TypeOK, Cycle, Covers, Walking, Stored, Cursor,
       Chunk, ChunkEnd, FInv, RInv, locals
<1>. QED  BY <1>1, <1>2 DEF FInv

\* An expunge only shrinks what must be covered.
LEMMA ExpungeCovers ==
    ASSUME FInv, RInv', MaxValidity = 1, NEW u \in Uid, Expunge(u)
    PROVE  FInv'
<1>1. CursorSaved'
    BY DEF Expunge, CursorSaved, Covers, Stored, FInv, locals
<1>2. Walk'
    BY DEF Expunge, Walk, Covers, Walking, Stored, Chunk, ChunkEnd, FInv, locals
<1>. QED  BY <1>1, <1>2 DEF FInv

\* Hiding a row keeps it stored.
LEMMA HideCovers ==
    ASSUME FInv, RInv', MaxValidity = 1, NEW u \in Uid, Hide(u)
    PROVE  FInv'
<1>1. CursorSaved'
    BY DEF Hide, CursorSaved, Covers, Stored, FInv, server, locals
<1>2. Walk'
    BY DEF Hide, Walk, Covers, Walking, Stored, Chunk, ChunkEnd, FInv, server, locals
<1>. QED  BY <1>1, <1>2 DEF FInv

\* Unhiding a row keeps it stored.
LEMMA UnhideCovers ==
    ASSUME FInv, RInv', MaxValidity = 1, NEW u \in Uid, Unhide(u)
    PROVE  FInv'
<1>1. CursorSaved'
    BY DEF Unhide, CursorSaved, Covers, Stored, FInv, server, locals
<1>2. Walk'
    BY DEF Unhide, Walk, Covers, Walking, Stored, Chunk, ChunkEnd, FInv, server, locals
<1>. QED  BY <1>1, <1>2 DEF FInv

\* The cursor is read into prev.
LEMMA ReadFolderRowCovers ==
    ASSUME FInv, RInv', MaxValidity = 1, ReadFolderRow
    PROVE  FInv'
<1>1. CursorSaved'
    BY DEF ReadFolderRow, CursorSaved, Covers, Stored, FInv, server
<1>2. Walk'
    BY DEF ReadFolderRow, Walk, Walking
<1>. QED  BY <1>1, <1>2 DEF FInv

\* With one UIDVALIDITY the status never asks for a purge.
LEMMA FolderStatusCovers ==
    ASSUME FInv, RInv', MaxValidity = 1, FolderStatus
    PROVE  FInv'
<1>1. CursorSaved'
    BY DEF FolderStatus, CursorSaved, TypeOK, Cycle, Covers, Stored, FInv, RInv, server
<1>2. Walk'
    BY DEF FolderStatus, AfterStatus, Walk, Walking
<1>. QED  BY <1>1, <1>2 DEF FInv

\* Recording the first UIDVALIDITY leaves the cursor alone.
LEMMA AdoptValidityCovers ==
    ASSUME FInv, RInv', MaxValidity = 1, AdoptValidity
    PROVE  FInv'
<1>1. CursorSaved'
    BY DEF AdoptValidity, CursorSaved, TypeOK, Cycle, Covers, Uid, FInv, RInv, locals
<1>2. Walk'
    BY DEF AdoptValidity, AfterStatus, Walk, Walking
<1>. QED  BY <1>1, <1>2 DEF FInv

\* Reading flags changes no stored data.
LEMMA FetchFlagsCovers ==
    ASSUME FInv, RInv', MaxValidity = 1, FetchFlags
    PROVE  FInv'
<1>1. CursorSaved'
    BY DEF FetchFlags, CursorSaved, Covers, Stored, FInv, server
<1>2. Walk'
    BY DEF FetchFlags, Walk, Walking
<1>. QED  BY <1>1, <1>2 DEF FInv

\* Hiding expunged rows keeps them stored.
LEMMA HideExpungedCovers ==
    ASSUME FInv, RInv', MaxValidity = 1, HideExpunged
    PROVE  FInv'
<1>1. CursorSaved'
    BY DEF HideExpunged, CursorSaved, TypeOK, Covers, Stored, FInv, RInv, server
<1>2. Walk'
    BY DEF HideExpunged, Walk, Walking
<1>. QED  BY <1>1, <1>2 DEF FInv

\* The walk starts at the saved cursor.
LEMMA HighestUidCovers ==
    ASSUME FInv, RInv', MaxValidity = 1, HighestUid
    PROVE  FInv'
<1>1. CursorSaved'
    BY DEF HighestUid, CursorSaved, Covers, Stored, FInv, server
<1>2. Walk'
  <2>1. CASE \E u \in mailbox : u > prev
    <3>1. /\ pc' = "fetch" /\ start' = prev + 1 /\ maxUid' = prev
          /\ highest' \in mailbox /\ \A u \in mailbox : u <= highest'
          /\ mailbox' = mailbox /\ rows' = rows
      BY <2>1 DEF HighestUid, server
    <3>2. prev \in Nat /\ highest' \in Nat /\ mailbox \subseteq Nat
      BY <3>1 DEF RInv, TypeOK, Uid
    <3>3. start' <= highest'
      BY <2>1, <3>1, <3>2
    <3>4. maxUid' < start' /\ maxUid' = start' - 1 /\ maxUid' <= ChunkEnd'
      BY <3>1, <3>2, <3>3, ConstantAssumption DEF ChunkEnd
    <3>5. Covers(prev)
      BY DEF HighestUid, FInv, CursorSaved
    <3>6. Covers(maxUid)'
      BY <3>1, <3>5 DEF Covers, Stored
    <3>. QED  BY <3>1, <3>3, <3>4, <3>6 DEF Walk
  <2>2. CASE ~\E u \in mailbox : u > prev
    BY <2>2 DEF HighestUid, Walk, Walking
  <2>. QED  BY <2>1, <2>2
<1>. QED  BY <1>1, <1>2 DEF FInv

\* An IMAP fetch returns every message of its range.
LEMMA FetchChunkCovers ==
    ASSUME FInv, RInv', MaxValidity = 1, FetchChunk
    PROVE  FInv'
<1>1. CursorSaved'
    BY DEF FetchChunk, CursorSaved, Covers, Stored, FInv, server
<1>2. Walk'
    BY DEF FetchChunk, Walk, Covers, Walking, Stored, Chunk, ChunkEnd, FInv, server
<1>. QED  BY <1>1, <1>2 DEF FInv

\* What is new was not stored, so it was not announced.
LEMMA ReadExistingCovers ==
    ASSUME FInv, RInv', MaxValidity = 1, ReadExisting
    PROVE  FInv'
<1>1. CursorSaved'
    BY DEF ReadExisting, CursorSaved, Covers, Stored, FInv, server
<1>2. Walk'
    BY DEF ReadExisting, Walk, Covers, Walking, Stored, Chunk, ChunkEnd, FInv, server
<1>. QED  BY <1>1, <1>2 DEF FInv

\* A batch moves messages from unsaved to stored.
LEMMA PersistBatchCovers ==
    ASSUME FInv, RInv', MaxValidity = 1, PersistBatch
    PROVE  FInv'
<1>1. CursorSaved'
    BY DEF PersistBatch, Imported, CursorSaved, TypeOK, Covers, Stored, FInv, RInv, server
<1>2. Walk'
    BY DEF PersistBatch, Imported, Walk, TypeOK, Covers, Walking, Stored, Chunk, ChunkEnd,
       FInv, RInv, server
<1>. QED  BY <1>1, <1>2 DEF FInv

\* A message is announced once it is stored.
LEMMA NotifyCovers ==
    ASSUME FInv, RInv', MaxValidity = 1, NEW u \in Uid, Notify(u)
    PROVE  FInv'
<1>1. CursorSaved'
    BY DEF Notify, CursorSaved, Covers, Stored, FInv, server
<1>2. Walk'
    BY DEF Notify, Walk, Covers, Walking, Stored, Chunk, ChunkEnd, FInv, server
<1>. QED  BY <1>1, <1>2 DEF FInv

\* The new cursor is covered: by the range fetch (IMAP) or by the gap-free run (API).
LEMMA AdvanceCursorCovers ==
    ASSUME FInv, RInv', MaxValidity = 1, AdvanceCursor
    PROVE  FInv'
<1>1. CursorSaved'
    BY DEF AdvanceCursor, CursorSaved, Covers, Stored, FInv, server
<1>2. Walk'
    BY ConstantAssumption DEF AdvanceCursor, NewCursor, EndsRun, Walk, TypeOK, Covers,
       Walking, Stored, Uid, Cursor, Chunk, ChunkEnd, FInv, RInv, server
<1>. QED  BY <1>1, <1>2 DEF FInv

\* The covered cursor is saved and the next chunk starts after it.
LEMMA SaveCursorCovers ==
    ASSUME FInv, RInv', MaxValidity = 1, SaveCursor
    PROVE  FInv'
<1>1. CursorSaved'
  <2>1. ChunkEnd \in Cursor /\ ChunkEnd <= highest /\ maxUid \in Cursor /\ maxUid <= ChunkEnd
    BY ConstantAssumption DEF SaveCursor, FInv, RInv, TypeOK, Walk, Walking, ChunkEnd, Cursor
  <2>2. folder'.last_uid = maxUid /\ Covers(maxUid) /\ maxUid < uidNext
    BY DEF SaveCursor, FInv, RInv, Walk, Walking, Cycle
  <2>. QED  BY <2>2 DEF SaveCursor, CursorSaved, Covers, Stored, server
<1>2. Walk'
  <2>1. CASE ChunkEnd >= highest
    BY <2>1 DEF SaveCursor, LocalsOutOfScope, Walk, Walking
  <2>2. CASE ~(ChunkEnd >= highest)
    <3>1. /\ pc' = "fetch" /\ start' = ChunkEnd + 1
          /\ highest' = highest /\ maxUid' = maxUid /\ mailbox' = mailbox /\ rows' = rows
      BY <2>2 DEF SaveCursor, server
    <3>2. /\ Covers(maxUid) /\ maxUid <= ChunkEnd /\ (Imap => maxUid = ChunkEnd)
          /\ maxUid \in Nat /\ highest \in Nat /\ ChunkEnd \in Int
      BY ConstantAssumption DEF SaveCursor, FInv, RInv, TypeOK, Walk, Walking, ChunkEnd,
         Cursor
    <3>3. start' <= highest' /\ maxUid' < start' /\ (Imap => maxUid' = start' - 1)
      BY <2>2, <3>1, <3>2
    <3>4. maxUid' <= ChunkEnd'
      BY <3>1, <3>2, <3>3, ConstantAssumption DEF ChunkEnd
    <3>5. Covers(maxUid)'
      BY <3>1, <3>2 DEF Covers, Stored
    <3>. QED  BY <3>1, <3>3, <3>4, <3>5 DEF Walk
  <2>. QED  BY <2>1, <2>2
<1>. QED  BY <1>1, <1>2 DEF FInv

\* An interrupted cycle keeps the last saved cursor.
LEMMA InterruptedCovers ==
    ASSUME FInv, RInv', MaxValidity = 1, Interrupted
    PROVE  FInv'
<1>1. CursorSaved'
    BY DEF Interrupted, CursorSaved, Covers, Stored, FInv, server
<1>2. Walk'
    BY DEF Interrupted, Walk, Walking
<1>. QED  BY <1>1, <1>2 DEF FInv

\* An unsynced folder satisfies the invariant.
LEMMA InitFInv == Init => FInv
BY InitRInv DEF FInv, Init, CursorSaved, Walk, Covers, Walking

\* Every step keeps the invariant; with one UIDVALIDITY the purge steps and a
\* renumbering are not enabled.
LEMMA NextFInv == ASSUME FInv, MaxValidity = 1, [Next]_vars PROVE FInv'
<1>1. ~PurgeMessages /\ ~ResetCursor /\ \A n \in Cursor : ~Renumber(n)
    BY DEF FInv, RInv, TypeOK, CursorSaved, PurgeMessages, ResetCursor, Renumber
<1>2. RInv'
    BY NextRInv DEF FInv
<1>3. CASE SyncStep
    BY <1>1, <1>2, <1>3, ReadFolderRowCovers, FolderStatusCovers, AdoptValidityCovers,
       FetchFlagsCovers, HideExpungedCovers, HighestUidCovers, FetchChunkCovers,
       ReadExistingCovers, PersistBatchCovers, NotifyCovers, AdvanceCursorCovers,
       SaveCursorCovers DEF SyncStep
<1>4. CASE Environment
    BY <1>1, <1>2, <1>4, DeliverCovers, ExpungeCovers, HideCovers, UnhideCovers DEF Environment
<1>5. CASE Interrupted
    BY <1>2, <1>5, InterruptedCovers
<1>6. CASE UNCHANGED vars
    BY <1>2, <1>6 DEF vars, server, locals, FInv, CursorSaved, Walk, Covers, Walking, Stored,
       Chunk, ChunkEnd
<1>. QED  BY <1>3, <1>4, <1>5, <1>6 DEF Next

\* The cursor never passes a message that is not stored: sync_folder's rule for
\* IMAP and for API providers both, through interruptions at any statement.
THEOREM NoMessageSkipped == ASSUME MaxValidity = 1 PROVE Spec => []CursorCovers
<1>1. Spec => []FInv
    BY InitFInv, NextFInv, PTL DEF Spec
<1>2. FInv => CursorCovers
    BY DEF FInv, CursorSaved, Covers, CursorCovers
<1>. QED  BY <1>1, <1>2, PTL
===============================================================================
