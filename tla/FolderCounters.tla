--------------------------- MODULE FolderCounters ---------------------------
(***************************************************************************)
(* The counts cached on each folder row: live_message_count, which only    *)
(* the triggers of migration 0038 keep, and unread_count, kept by the      *)
(* triggers of migration 0039 and also overwritten by the sync task with a *)
(* COUNT it took in an earlier statement.                                  *)
(*                                                                         *)
(* A SQL statement and its triggers are one atomic step; two statements of *)
(* the sync task are two steps, and the API handlers run in between.       *)
(***************************************************************************)
EXTENDS Integers, FiniteSets

CONSTANTS Folders, Messages,
          Inbox,        \* the folder mark_not_spam restores to
          MaxEdits,     \* bound: statements that change rows
          MaxFailures   \* bound: COUNT queries that fail

ASSUME FcConstantAssumption ==
    /\ IsFiniteSet(Messages) /\ Inbox \in Folders /\ "none" \notin Folders
    /\ MaxEdits \in Nat /\ MaxFailures \in Nat

FcRow == [folder : Folders, read : BOOLEAN, hidden : BOOLEAN]
NoRow == [folder |-> "none", read |-> FALSE, hidden |-> FALSE]

VARIABLES
    row,       \* the messages table
    live,      \* folders.live_message_count
    unread,    \* folders.unread_count
    recount,   \* the sync task's recount: where it is, its folder, its count
    raced,     \* history: folders changed while their last recount was under way
    edits,     \* the bounds' counters
    failures

fcVars == <<row, live, unread, recount, raced, edits, failures>>

Idle == [pc |-> "idle", folder |-> Inbox, count |-> 0]

Exists(m) == row[m] # NoRow
IsLive(r) == r # NoRow /\ ~r.hidden
IsUnread(r) == r # NoRow /\ ~r.hidden /\ ~r.read
LiveIn(table) == [f \in Folders |-> {m \in Messages : IsLive(table[m]) /\ table[m].folder = f}]
UnreadIn(table) == [f \in Folders |-> {m \in Messages : IsUnread(table[m]) /\ table[m].folder = f}]

FcInit ==
    /\ row = [m \in Messages |-> NoRow]
    /\ live = [f \in Folders |-> 0]
    /\ unread = [f \in Folders |-> 0]
    /\ recount = Idle
    /\ raced = {}
    /\ edits = 0 /\ failures = 0

-----------------------------------------------------------------------------
(* The triggers: every row that changes leaves the old count it was part   *)
(* of (clamped at zero) and enters the new one.  No statement makes rows   *)
(* both leave and enter one folder's count.                                *)

Clamped(n) == IF n > 0 THEN n ELSE 0

AfterIgnoringMoves(count, from, to, changed) ==
    [f \in Folders |-> Clamped(count[f]
                            - Cardinality((from[f] \cap changed) \ UNION {to[g] : g \in Folders}))
                           + Cardinality(to[f] \cap changed)]
After(count, from, to, changed) ==
    [f \in Folders |-> Clamped(count[f] - Cardinality(from[f] \cap changed))
                           + Cardinality(to[f] \cap changed)]

Write(new) ==
    LET changed == {m \in Messages : new[m] # row[m]}
        touched == {r.folder : r \in {row[m] : m \in {n \in changed : Exists(n)}}
                                    \cup {new[m] : m \in {n \in changed : new[n] # NoRow}}}
    IN
    /\ edits < MaxEdits /\ edits' = edits + 1
    /\ row' = new
    /\ live' = After(live, LiveIn(row), LiveIn(new), changed)
    /\ unread' = After(unread, UnreadIn(row), UnreadIn(new), changed)
    /\ raced' = IF recount.pc = "counted" THEN raced \cup (touched \cap {recount.folder}) ELSE raced
    /\ UNCHANGED <<recount, failures>>

(* persist_message_metadata_chunk: insert, or update what is there without *)
(* unhiding it; save_draft inserts too.                                    *)
Import(m, f, read, deleted) ==
    /\ Exists(m) => row[m].folder = f
    /\ Write([row EXCEPT ![m] = [folder |-> f, read |-> read,
                                 hidden |-> deleted \/ (Exists(m) /\ row[m].hidden)]])

(* mark_read and the thread action, either way. *)
MarkRead(m, read) ==
    /\ Exists(m)
    /\ Write([row EXCEPT ![m].read = read])

(* bulk_action "read": one UPDATE of many rows. *)
BulkRead(ms) ==
    /\ \A m \in ms : Exists(m)
    /\ Write([m \in Messages |-> IF m \in ms THEN [row[m] EXCEPT !.read = TRUE] ELSE row[m]])

(* delete, move, and bulk_action "delete" / "archive". *)
Hide(ms) ==
    /\ \A m \in ms : Exists(m)
    /\ Write([m \in Messages |-> IF m \in ms THEN [row[m] EXCEPT !.hidden = TRUE] ELSE row[m]])

(* reconcile_flags: the server's flags, never unhiding. *)
ApplyFlags(m, read, deleted) ==
    /\ Exists(m)
    /\ Write([row EXCEPT ![m].read = read, ![m].hidden = @ \/ deleted])

(* mark_not_spam of a message already filed in the inbox path. *)
Refile(m) ==
    /\ Exists(m)
    /\ Write([row EXCEPT ![m].folder = Inbox, ![m].hidden = FALSE])

(* save_draft of an existing draft files it in the account's drafts folder. *)
FileDraft(m, f) ==
    /\ Exists(m)
    /\ Write([row EXCEPT ![m].folder = f])

(* sync_folder on a UIDVALIDITY change; delete_local_draft deletes one. *)
Purge(f) ==
    /\ \E m \in Messages : Exists(m) /\ row[m].folder = f
    /\ Write([m \in Messages |-> IF Exists(m) /\ row[m].folder = f THEN NoRow ELSE row[m]])

DeleteDraft(m) ==
    /\ Exists(m)
    /\ Write([row EXCEPT ![m] = NoRow])

-----------------------------------------------------------------------------
(* The sync task's recount: a COUNT query, whose failure counts as 0.    *)

CountWithHidden(f) == Cardinality({m \in Messages : row[m].folder = f /\ ~row[m].read})
Count(f) == Cardinality(UnreadIn(row)[f])

BeginRecount(f) ==
    /\ recount.pc = "idle"
    /\ recount' = [pc |-> "counted", folder |-> f, count |-> Count(f)]
    /\ raced' = raced \ {f}
    /\ UNCHANGED <<row, live, unread, edits, failures>>

CountFails(f) ==
    /\ recount.pc = "idle"
    /\ failures < MaxFailures /\ failures' = failures + 1
    /\ recount' = [pc |-> "counted", folder |-> f, count |-> 0]
    /\ raced' = raced \cup {f}
    /\ UNCHANGED <<row, live, unread, edits>>

(* update_unread_count compares with what is stored first; the end of a    *)
(* chunk updates at once, under the same condition.                        *)
Unchanged ==
    /\ recount.pc = "counted"
    /\ unread[recount.folder] = recount.count
    /\ recount' = Idle
    /\ UNCHANGED <<row, live, unread, raced, edits, failures>>

SaveCount ==
    /\ recount.pc = "counted"
    /\ unread' = [unread EXCEPT ![recount.folder] = recount.count]
    /\ recount' = Idle
    /\ UNCHANGED <<row, live, raced, edits, failures>>

-----------------------------------------------------------------------------
Edit ==
    \/ \E m \in Messages, f \in Folders, read, deleted \in BOOLEAN : Import(m, f, read, deleted)
    \/ \E m \in Messages, read \in BOOLEAN : MarkRead(m, read)
    \/ \E ms \in SUBSET Messages : BulkRead(ms) \/ Hide(ms)
    \/ \E m \in Messages, read, deleted \in BOOLEAN : ApplyFlags(m, read, deleted)
    \/ \E m \in Messages : Refile(m) \/ DeleteDraft(m)
    \/ \E f \in Folders : Purge(f) \/ \E m \in Messages : FileDraft(m, f)

Recount ==
    \/ \E f \in Folders : BeginRecount(f) \/ CountFails(f)
    \/ Unchanged \/ SaveCount

FcNext == Edit \/ Recount

FcSpec == FcInit /\ [][FcNext]_fcVars

(* Every cycle recounts every folder it syncs. *)
FcFairSpec ==
    /\ FcSpec
    /\ WF_fcVars(Unchanged \/ SaveCount)
    /\ \A f \in Folders : SF_fcVars(BeginRecount(f))

-----------------------------------------------------------------------------
(* Properties.                                                             *)

(* The cached counts never go negative, whatever they are overwritten with *)
(* (the MAX(..., 0) of the triggers).                                      *)
FcTypeOK ==
    /\ row \in [Messages -> FcRow \cup {NoRow}]
    /\ live \in [Folders -> Nat] /\ unread \in [Folders -> Nat]
    /\ recount \in [pc : {"idle", "counted"}, folder : Folders, count : Nat]
    /\ raced \subseteq Folders
    /\ edits \in 0 .. MaxEdits /\ failures \in 0 .. MaxFailures

(* live_message_count is exact at every moment: for every insert, delete,  *)
(* visibility change, bulk statement and folder move, and the clamp never  *)
(* bites (migration 0038: "Keep the exact live count on the folder row").  *)
LiveCountExact == \A f \in Folders : live[f] = Cardinality(LiveIn(row)[f])

(* The triggers and the recount only disagree when they race: unread_count *)
(* is wrong only in a folder that changed between the last COUNT and its   *)
(* UPDATE, or whose COUNT failed, and the next recount is its end.         *)
DriftNeedsRace ==
    \A f \in Folders : unread[f] # Cardinality(UnreadIn(row)[f])
        => f \in raced \/ (recount.pc = "counted" /\ recount.folder = f)

(* Once the edits stop, the recounts make unread_count exact for good.     *)
UnreadHeals == <>[](\A f \in Folders : unread[f] = Cardinality(UnreadIn(row)[f]))
=============================================================================
