----------------------------- MODULE OutlookSync -----------------------------
(***************************************************************************)
(* One Outlook folder synced over Microsoft Graph: the discovery without a *)
(* stored cursor (OutlookProvider::discover_new), the id map, the flag     *)
(* fetch that finds vanished messages, the import above the folder cursor  *)
(* and the moves of the user, which drop the mapping.                      *)
(*                                                                         *)
(* A message is its receivedDateTime, 1 the oldest: Graph lists a folder   *)
(* newest first and nextLink continues below the last one listed.  A move  *)
(* gives a message a new id, so a date leaves the folder once for all.     *)
(***************************************************************************)
EXTENDS Integers, FiniteSets, FiniteSetsExt

CONSTANTS OlMaxDate,    \* bound: messages that ever exist
          OlPageSize,   \* PAGE_SIZE
          OlMaxPages,   \* MAX_DISCOVERY_PAGES
          OlMaxFaults   \* bound: failed requests and interrupted cycles

ASSUME OlAssumption ==
    /\ OlMaxDate \in Nat /\ OlPageSize \in Nat \ {0} /\ OlMaxPages \in Nat \ {0}
    /\ OlMaxFaults \in Nat

OlDates == 1 .. OlMaxDate
OlTop == OlMaxDate + 1      \* no nextLink yet: list from the newest message

VARIABLES
    olFolder,       \* messages in the folder
    olUsed,         \* messages that ever were
    olUid,          \* remote_message_ids: the uid of a message, 0 when unmapped
    olRow,          \* stored rows: the message a uid's row holds, 0 for no row
    olHidden,       \* uids of rows with is_deleted = 1
    olLast,         \* folders.last_uid
    olPc, olKnown, olFound, olBelow, olPages,   \* one cycle; locals of discover_new
    olFaults,
    olMoved,        \* history: moved into the folder below its newest message
    olLost,         \* history: left below the last page of a pass out of pages
    olAsked,        \* history: removed by the user
    olReused        \* history: mapped to a uid that had been handed out before

olStore == <<olUid, olRow, olHidden, olLast>>
olPass == <<olKnown, olFound, olBelow, olPages>>
olHistory == <<olMoved, olLost, olAsked, olReused>>
olVars == <<olFolder, olUsed, olStore, olPc, olPass, olFaults, olHistory>>

OlMapped == {d \in OlDates : olUid[d] # 0}
OlStored == {u \in OlDates : olRow[u] # 0}

OlNoPass == olKnown' = {} /\ olFound' = {} /\ olBelow' = OlTop /\ olPages' = 0
OlEndCycle == olPc' = "idle" /\ OlNoPass
OlFault == olFaults < OlMaxFaults /\ olFaults' = olFaults + 1

OlInit ==
    /\ olFolder = {} /\ olUsed = {}
    /\ olUid = [d \in OlDates |-> 0] /\ olRow = [u \in OlDates |-> 0]
    /\ olHidden = {} /\ olLast = 0
    /\ olPc = "idle" /\ olKnown = {} /\ olFound = {} /\ olBelow = OlTop /\ olPages = 0
    /\ olFaults = 0
    /\ olMoved = {} /\ olLost = {} /\ olAsked = {} /\ olReused = {}

-----------------------------------------------------------------------------
(* The mailbox. *)

\* A message comes in: new mail, or one moved here that keeps its older date.
OlArrive(d) ==
    /\ d \in OlDates \ olUsed
    /\ olFolder' = olFolder \cup {d} /\ olUsed' = olUsed \cup {d}
    /\ olMoved' = IF \E e \in olUsed : e > d THEN olMoved \cup {d} ELSE olMoved
    /\ UNCHANGED <<olStore, olPc, olPass, olFaults, olLost, olAsked, olReused>>

\* Deleted or moved away on another device.
OlLeave(d) ==
    /\ d \in olFolder
    /\ olFolder' = olFolder \ {d}
    /\ UNCHANGED <<olUsed, olStore, olPc, olPass, olFaults, olHistory>>

-----------------------------------------------------------------------------
(* The user's moves and deletions, run by the sync task between two cycles. *)

\* The handler hid the row; set_flag "deleted", move_message and delete_permanently
\* then ask Graph and drop the mapping.
OlMove(d) ==
    /\ olPc = "idle" /\ d \in OlMapped
    /\ olUid[d] \in OlStored \ olHidden /\ olRow[olUid[d]] = d
    /\ olHidden' = olHidden \cup {olUid[d]} /\ olAsked' = olAsked \cup {d}
    /\ \/ /\ d \in olFolder
          /\ olFolder' = olFolder \ {d} /\ olUid' = [olUid EXCEPT ![d] = 0]
          /\ UNCHANGED olFaults
       \/ /\ OlFault                    \* cut before the mapping is dropped
          /\ olFolder' = olFolder \ {d} /\ UNCHANGED olUid
       \/ /\ OlFault \/ (d \notin olFolder /\ UNCHANGED olFaults)  \* Graph refuses
          /\ UNCHANGED <<olFolder, olUid>>
    /\ UNCHANGED <<olUsed, olRow, olLast, olPc, olPass, olMoved, olLost, olReused>>

-----------------------------------------------------------------------------
(* Reconciling the known messages: fetch_flags, then reconcile_flags. *)

\* Only a 404 shows that a message is gone.
OlGone(ds) == ds \ olFolder

\* One request per uid, in order; 404 drops the mapping at once, any other error ends
\* the cycle with the rows not yet compared.
OlFetchFlags ==
    /\ olPc = "idle" /\ olLast > 0
    /\ LET range == {d \in OlMapped : olUid[d] <= olLast}
       IN  \/ /\ olUid' = [d \in OlDates |-> IF d \in OlGone(range) THEN 0 ELSE olUid[d]]
              /\ olPc' = "hide"
              /\ UNCHANGED olFaults
           \/ /\ OlFault
              /\ \E f \in range :
                  LET before == {d \in range : olUid[d] < olUid[f]}
                  IN  olUid' = [d \in OlDates |-> IF d \in OlGone(before) THEN 0 ELSE olUid[d]]
              /\ UNCHANGED olPc
    /\ UNCHANGED <<olFolder, olUsed, olRow, olHidden, olLast, olPass, olHistory>>

\* reconcile_flags hides the rows up to the cursor that have no answer.
OlHideGone ==
    /\ olPc = "hide"
    /\ olHidden' = olHidden \cup
                   {u \in OlStored : u <= olLast /\ ~\E d \in OlMapped : olUid[d] = u}
    /\ olPc' = "discover"
    /\ UNCHANGED <<olFolder, olUsed, olUid, olRow, olLast, olPass, olFaults, olHistory>>

-----------------------------------------------------------------------------
(* highest_uid: discover_new and IdMap::assign. *)

OlBegin ==
    /\ olPc = "discover" \/ (olPc = "idle" /\ olLast = 0)
    /\ olKnown' = OlMapped
    /\ olPc' = "page"
    /\ UNCHANGED <<olFolder, olUsed, olStore, olFound, olBelow, olPages, olFaults, olHistory>>

OlListed == {d \in olFolder : d < olBelow}
OlPage == {d \in OlListed : Cardinality({e \in OlListed : e > d}) < OlPageSize}
OlOlder == {d \in OlListed : \A e \in OlPage : d < e}
OlStopsHere == OlPage \cap olKnown # {}

\* A page: the ids down to the first known one; the pass ends there, at the end of the
\* folder or when the pages run out.
OlListPage ==
    /\ olPc = "page"
    /\ olFound' = olFound \cup {d \in OlPage : \A k \in OlPage \cap olKnown : d > k}
    /\ olPages' = olPages + 1
    /\ IF ~OlStopsHere /\ OlOlder # {}
       THEN /\ olBelow' = Min(OlPage)
            /\ olPc' = IF olPages' < OlMaxPages THEN "page" ELSE "assign"
            /\ olLost' = IF olPages' < OlMaxPages THEN olLost ELSE olLost \cup (OlOlder \ olKnown)
       ELSE olPc' = "assign" /\ UNCHANGED <<olBelow, olLost>>
    /\ UNCHANGED <<olFolder, olUsed, olStore, olKnown, olFaults, olMoved, olAsked, olReused>>

\* Fault: a failed listing is taken for a short one.
OlPassKeeps ==
    /\ olPc = "page" /\ OlFault
    /\ olPc' = "assign"
    /\ UNCHANGED <<olFolder, olUsed, olStore, olPass, olHistory>>

\* A page fails, after get_json's three attempts: the ids found so far are dropped and
\* the folder is left for the next cycle.
OlPassFails ==
    /\ olPc = "page" /\ OlFault
    /\ OlEndCycle
    /\ UNCHANGED <<olFolder, olUsed, olStore, olHistory>>

\* Oldest first, on from the largest uid that is mapped now.
OlAssigned(top) ==
    [d \in OlDates |-> IF d \in olFound /\ olUid[d] = 0
                       THEN top + Cardinality({e \in olFound : e <= d}) ELSE olUid[d]]

\* History: uids that were handed out before have a row or lie below the cursor.
OlAssign ==
    /\ olPc = "assign"
    /\ \E top \in {olUid[d] : d \in OlDates} \cup {0} :
        (\A d \in OlDates : olUid[d] <= top) /\ olUid' = OlAssigned(top)
    /\ olReused' = olReused \cup
            {d \in olFound : olUid'[d] <= olLast \/ olUid'[d] \in OlStored}
    /\ olPc' = IF Max({olUid'[d] : d \in OlDates} \cup {0}) > olLast THEN "import" ELSE "idle"
    /\ OlNoPass
    /\ UNCHANGED <<olFolder, olUsed, olRow, olHidden, olLast, olFaults, olMoved, olLost, olAsked>>

-----------------------------------------------------------------------------
(* sync_folder's walk over the mapped uids above last_uid, one chunk. *)

\* contiguous_uid: the cursor follows the gap-free run of stored uids.
OlContiguous(stored) ==
    Max({n \in olLast .. OlMaxDate : olLast + 1 .. n \subseteq stored})

\* Messages whose request fails are left out with a warning; a row keeps is_deleted.
OlImport ==
    /\ olPc = "import"
    /\ \E got \in SUBSET {d \in OlMapped \cap olFolder : olUid[d] > olLast} :
        olRow' = [u \in OlDates |-> IF \E d \in got : olUid[d] = u
                                    THEN CHOOSE d \in got : olUid[d] = u ELSE olRow[u]]
    /\ olLast' = OlContiguous({u \in OlDates : olRow'[u] # 0})
    /\ olPc' = "idle"
    /\ UNCHANGED <<olFolder, olUsed, olUid, olHidden, olPass, olFaults, olHistory>>

OlInterrupted ==
    /\ olPc # "idle" /\ OlFault
    /\ OlEndCycle
    /\ UNCHANGED <<olFolder, olUsed, olStore, olHistory>>

-----------------------------------------------------------------------------
OlNext ==
    \/ \E d \in OlDates : OlArrive(d) \/ OlLeave(d) \/ OlMove(d)
    \/ OlFetchFlags \/ OlHideGone \/ OlBegin \/ OlListPage \/ OlPassFails \/ OlAssign
    \/ OlImport \/ OlInterrupted

OlSpec == OlInit /\ [][OlNext]_olVars

-----------------------------------------------------------------------------
(* Properties. *)

\* The discovery may stop at the first known id: between cycles, a message of the
\* folder that is unknown and older than a known one was moved in below it or fell off
\* a pass that ran out of pages, whatever requests fail on the way (discover_new).
OlMissedExplained ==
    olPc = "idle" =>
        \A d \in olFolder \ OlMapped :
            (\E k \in OlMapped \cap olFolder : d < k) => d \in olMoved \cup olLost

\* No failing request and no interrupted cycle hides mail: the message of a hidden row
\* is gone from the folder or was removed by the user, unless it got the uid of an
\* earlier message and with it that one's row (fetch_flags, reconcile_flags).
OlHiddenIsGone ==
    \A u \in olHidden : olRow[u] \notin olFolder \/ olRow[u] \in olAsked \cup olReused

\* The cursor never passes mail that was not stored: a mapped message up to the cursor
\* has a row of its own, again unless its uid is second-hand (contiguous_uid).
OlCoveredIsStored ==
    \A d \in OlMapped : olUid[d] <= olLast => olRow[olUid[d]] = d \/ d \in olReused

OutlookMap == INSTANCE IdMap WITH Ids <- OlDates, uidOf <- olUid

\* What discovery, reconciliation and import keep of the folder, under one name; its
\* mapping implements IdMap.
OlFolderKept ==
    [](OlMissedExplained /\ OlHiddenIsGone /\ OlCoveredIsStored) /\ OutlookMap!Spec
=============================================================================
