--------------------------- MODULE GmailDiscovery ---------------------------
(***************************************************************************)
(* One Gmail label synced over the REST API: the mapping from remote ids   *)
(* to local uids (IdMap), the paged discovery with its durable backfill    *)
(* cursor (discover_new, highest_uid), the label reconciliation            *)
(* (fetch_flags) and the import of the mapped uids above the folder        *)
(* cursor.  The chunk walk itself is FolderSync's; here it is one step.    *)
(*                                                                         *)
(* Messages are numbered by age, 1 is the oldest: Gmail lists a label      *)
(* newest first, and a page token continues below the last listed message. *)
(***************************************************************************)
EXTENDS Integers, FiniteSets, FiniteSetsExt

CONSTANTS MaxMsg,       \* bound: messages that ever exist
          PageSize,     \* PAGE_SIZE
          MaxPages,     \* MAX_DISCOVERY_PAGES
          MaxLabelings, \* bound: older messages put (back) into the label
          MaxExpired,   \* bound: page tokens that expire
          MaxFaults     \* bound: interrupted cycles

ASSUME GmConstantAssumption ==
    /\ MaxMsg \in Nat \ {0} /\ PageSize \in Nat \ {0} /\ MaxPages \in Nat \ {0}
    /\ MaxLabelings \in Nat /\ MaxExpired \in Nat /\ MaxFaults \in Nat

Msg == 1 .. MaxMsg
NoToken == MaxMsg + 1       \* no page token: list from the newest message

VARIABLES
    arrived,    \* messages 1..arrived exist
    label,      \* the ones that carry the label
    uidOf,      \* remote_message_ids: the uid of a message, 0 when unmapped
    token, complete,    \* folders.remote_backfill_page_token / _complete
    lastUid,    \* folders.last_uid
    rows,       \* stored rows: a set of [uid, msg], one per uid
    hidden,     \* uids of rows with is_deleted = 1
    pc,
    known,      \* known_ids, read when the pass begins
    pageToken, canReset, done, stopped, found, pages,   \* locals of discover_new
    answer,     \* uids fetch_flags reported as still in the label
    labelings, expired, faults

durable == <<uidOf, token, complete, lastUid, rows, hidden>>
pass == <<known, pageToken, canReset, done, stopped, found, pages>>
gmVars == <<arrived, label, durable, pc, pass, answer, labelings, expired, faults>>

Mapped == {m \in Msg : uidOf[m] # 0}
MaxMapped == Max({uidOf[m] : m \in Msg} \cup {0})
StoredUids == {r.uid : r \in rows}

PassOutOfScope ==
    /\ known' = {} /\ pageToken' = NoToken /\ canReset' = FALSE /\ done' = FALSE
    /\ stopped' = FALSE /\ found' = {} /\ pages' = 0

GmInit ==
    /\ arrived \in 0 .. MaxMsg /\ label = 1 .. arrived
    /\ uidOf = [m \in Msg |-> 0] /\ token = NoToken /\ complete = FALSE
    /\ lastUid = 0 /\ rows = {} /\ hidden = {}
    /\ pc = "idle" /\ answer = {}
    /\ known = {} /\ pageToken = NoToken /\ canReset = FALSE /\ done = FALSE
    /\ stopped = FALSE /\ found = {} /\ pages = 0
    /\ labelings = 0 /\ expired = 0 /\ faults = 0

-----------------------------------------------------------------------------
(* Gmail. *)

Arrive ==
    /\ arrived < MaxMsg
    /\ arrived' = arrived + 1 /\ label' = label \cup {arrived + 1}
    /\ UNCHANGED <<durable, pc, pass, answer, labelings, expired, faults>>

\* Archived, trashed or moved elsewhere.
Unlabel(m) ==
    /\ m \in label
    /\ label' = label \ {m}
    /\ UNCHANGED <<arrived, durable, pc, pass, answer, labelings, expired, faults>>

\* A message is moved into the label: it keeps its age.
Relabel(m) ==
    /\ m \in 1 .. arrived \ label /\ labelings < MaxLabelings
    /\ label' = label \cup {m}
    /\ labelings' = labelings + 1
    /\ UNCHANGED <<arrived, durable, pc, pass, answer, expired, faults>>

-----------------------------------------------------------------------------
(* Reconciling the known messages: fetch_flags and reconcile_flags. *)

\* fetch_flags over 1..last_uid: a message without the label loses its mapping.
FetchFlags ==
    /\ pc = "idle" /\ lastUid > 0
    /\ LET checked == {m \in Mapped : uidOf[m] <= lastUid}
       IN  /\ answer' = {uidOf[m] : m \in checked \cap label}
           /\ uidOf' = [m \in Msg |-> IF m \in checked \ label THEN 0 ELSE uidOf[m]]
    /\ pc' = "hide"
    /\ UNCHANGED <<arrived, label, token, complete, lastUid, rows, hidden, pass, labelings,
                   expired, faults>>

\* Rows the answer left out, or reported deleted, are hidden.
HideGone ==
    /\ pc = "hide"
    /\ hidden' = hidden \cup {u \in StoredUids : u <= lastUid /\ u \notin answer}
    /\ answer' = {} /\ pc' = "discover"
    /\ UNCHANGED <<arrived, label, uidOf, token, complete, lastUid, rows, pass, labelings,
                   expired, faults>>

-----------------------------------------------------------------------------
(* discover_new *)

BeginPass ==
    /\ pc = "discover" \/ (pc = "idle" /\ lastUid = 0)
    /\ known' = Mapped
    /\ pageToken' = IF complete THEN NoToken ELSE token
    /\ canReset' = (~complete /\ token # NoToken)
    /\ done' = complete /\ stopped' = FALSE /\ found' = {} /\ pages' = 0
    /\ pc' = "page"
    /\ UNCHANGED <<arrived, label, durable, answer, labelings, expired, faults>>

\* One messages.list call: the PageSize newest messages below the token.
Below(t) == {m \in label : m < t}
Page == {m \in Below(pageToken) : Cardinality({n \in Below(pageToken) : n > m}) < PageSize}

\* collect_page_ids: unknown ids, up to the first known one in a complete label.
StopsHere == done /\ Page \cap known # {}
Collected ==
    IF StopsHere THEN {m \in Page : m > Max(Page \cap known)} ELSE Page \ known

MorePages == Page # {} /\ Below(Min(Page)) # {}

ListPage ==
    /\ pc = "page" /\ pages < MaxPages
    /\ canReset' = FALSE
    /\ found' = found \cup Collected
    /\ pages' = pages + 1
    /\ stopped' = StopsHere
    /\ IF ~StopsHere /\ MorePages
       THEN /\ pageToken' = Min(Page) /\ done' = done
            /\ pc' = IF pages + 1 < MaxPages THEN "page" ELSE "assign"
       ELSE /\ pageToken' = NoToken /\ done' = (StopsHere => done)
            /\ pc' = "assign"
    /\ UNCHANGED <<arrived, label, durable, known, answer, labelings, expired, faults>>

\* The persisted token expired: start over once, using up one round of the loop.
TokenExpired ==
    /\ pc = "page" /\ pages < MaxPages /\ canReset /\ expired < MaxExpired
    /\ expired' = expired + 1
    /\ token' = NoToken /\ complete' = FALSE
    /\ pageToken' = NoToken /\ canReset' = FALSE
    /\ pages' = pages + 1
    /\ pc' = IF pages + 1 < MaxPages THEN "page" ELSE "assign"
    /\ UNCHANGED <<arrived, label, uidOf, lastUid, rows, hidden, known, done, stopped,
                   found, answer, labelings, faults>>

\* Fault: the budget running out is taken for the end of the label.
BackfillCompleteAlways == TRUE

\* A scan that ran out of pages is not complete.
BackfillComplete == IF ~stopped /\ pageToken # NoToken THEN FALSE ELSE done

\* Fault: the next uid is the number of mapped messages plus one.
AssignedByCount(top) ==
    [m \in Msg |-> IF m \in found /\ uidOf[m] = 0
                   THEN Cardinality(Mapped) + Cardinality({n \in found : n <= m}) ELSE uidOf[m]]

\* IdMap::assign: ascending uids, oldest first, on from the largest mapped one.
Assigned(top) ==
    [m \in Msg |-> IF m \in found /\ uidOf[m] = 0
                   THEN top + Cardinality({n \in found : n <= m}) ELSE uidOf[m]]

AssignIds ==
    /\ pc = "assign"
    /\ \E top \in {uidOf[m] : m \in Msg} \cup {0} :
        (\A m \in Msg : uidOf[m] <= top) /\ uidOf' = Assigned(top)
    /\ pc' = "state"
    /\ UNCHANGED <<arrived, label, token, complete, lastUid, rows, hidden, pass, answer,
                   labelings, expired, faults>>

\* set_backfill_state, "only after every discovered id has been durably assigned";
\* highest_uid then bounds the import.
SetBackfillState ==
    /\ pc = "state"
    /\ token' = pageToken /\ complete' = BackfillComplete
    /\ pc' = IF MaxMapped > lastUid THEN "import" ELSE "idle"
    /\ PassOutOfScope
    /\ UNCHANGED <<arrived, label, uidOf, lastUid, rows, hidden, answer, labelings, expired,
                   faults>>

-----------------------------------------------------------------------------
(* The import: sync_folder's chunk walk over the mapped uids above last_uid. *)

\* Some messages may be left out; the upsert replaces the row of its uid and keeps
\* is_deleted; the cursor follows the gap-free run of stored uids.
ImportChunk ==
    /\ pc = "import"
    /\ \E got \in SUBSET {m \in Mapped : uidOf[m] > lastUid} :
        LET uids == {uidOf[m] : m \in got}
            kept == {r \in rows : r.uid \notin uids}
            now  == kept \cup {[uid |-> uidOf[m], msg |-> m] : m \in got}
            stored == {r.uid : r \in now}
        IN  /\ rows' = now
            /\ lastUid' = Max({n \in lastUid .. Max({lastUid} \cup stored) :
                                  lastUid + 1 .. n \subseteq stored})
    /\ pc' = "idle"
    /\ UNCHANGED <<arrived, label, uidOf, token, complete, hidden, pass, answer, labelings,
                   expired, faults>>

GmInterrupted ==
    /\ pc # "idle" /\ faults < MaxFaults
    /\ faults' = faults + 1
    /\ pc' = "idle" /\ answer' = {} /\ PassOutOfScope
    /\ UNCHANGED <<arrived, label, durable, labelings, expired>>

-----------------------------------------------------------------------------
SyncStep ==
    \/ FetchFlags \/ HideGone \/ BeginPass \/ ListPage \/ TokenExpired \/ AssignIds
    \/ SetBackfillState \/ ImportChunk

Gmail == Arrive \/ \E m \in Msg : Unlabel(m) \/ Relabel(m)

GmNext == SyncStep \/ Gmail \/ GmInterrupted

\* Cycles keep running and Gmail answers list calls.
GmSpec == GmInit /\ [][GmNext]_gmVars
GmFairSpec == GmSpec /\ WF_gmVars(SyncStep)

-----------------------------------------------------------------------------
(* Properties. *)

\* Type invariant of discover_new and the id map: uids are never 0.
GmTypeOK ==
    /\ arrived \in 0 .. MaxMsg /\ label \in SUBSET (1 .. arrived)
    /\ uidOf \in [Msg -> Nat] /\ token \in 1 .. NoToken /\ complete \in BOOLEAN
    /\ lastUid \in Nat /\ rows \in SUBSET [uid : Nat \ {0}, msg : Msg] /\ hidden \in SUBSET Nat
    /\ pc \in {"idle", "hide", "discover", "page", "assign", "state", "import"}
    /\ known \in SUBSET Msg /\ pageToken \in 1 .. NoToken /\ found \in SUBSET Msg
    /\ canReset \in BOOLEAN /\ done \in BOOLEAN /\ stopped \in BOOLEAN
    /\ pages \in 0 .. MaxPages /\ answer \in SUBSET Nat
    /\ labelings \in 0 .. MaxLabelings /\ expired \in 0 .. MaxExpired
    /\ faults \in 0 .. MaxFaults

\* The incremental scan may stop at the first known message: in a complete label
\* every message still unknown is newer than all known ones, although pages run
\* out, tokens expire and mail arrives during the pass (discover_new).
CompleteMeansKnown ==
    complete /\ pc # "state" =>
        \A m \in label \ Mapped, k \in Mapped \cap label : m > k

GmailMap == INSTANCE IdMap WITH Ids <- Msg

\* The mapping of a label implements IdMap: through removals, interrupted passes and
\* messages moved in, a batch is numbered oldest first above all uids in use, and no
\* other step changes a mapping but to take it back (IdMap::assign, fetch_flags).
LabelHasIdMap == GmailMap!Spec

\* Once the label is quiet, all of it is mapped: paging terminates, and neither the
\* page budget nor an expiring token leaves a message out ("the cap bounds work per
\* tick without losing mail", MAX_DISCOVERY_PAGES).
DiscoversAll == <>[][SyncStep \/ UNCHANGED label]_gmVars => <>[](label \subseteq Mapped)
=============================================================================
