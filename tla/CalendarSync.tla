---------------------------- MODULE CalendarSync ----------------------------
(***************************************************************************)
(* One calendar account with one remote collection: the synchronisations   *)
(* a user requests, creating, editing and deleting events remote-first,    *)
(* answering an invitation, and deleting the account.  Nothing excludes    *)
(* two requests from running at once, no statement is in a transaction,    *)
(* and a synchronisation never deletes an event that left the server.      *)
(***************************************************************************)
EXTENDS Naturals, FiniteSets, FiniteSetsExt

CONSTANTS CaUids,       \* events of the remote collection
          CaSeries,     \* those with a recurrence rule
          CaInvited,    \* the event an invitation message is about
          CaSyncs,      \* concurrent synchronisation requests
          CaMaxTag,     \* bound: changes on the server
          CaMaxRows     \* bound: event rows inserted

ASSUME CaAssumption ==
    /\ CaSeries \subseteq CaUids /\ CaInvited \in CaUids \ CaSeries /\ 0 \notin CaUids
    /\ CaMaxTag \in Nat /\ CaMaxRows \in Nat

CaCalendarIds == {1, 2}
CaNull == 0

VARIABLES
    caKind,     \* calendar_accounts.type: "caldav"; "graph" with its delta link;
                \*   "google", whose token is never read
    caServer,   \* each resource: is it there, and the tag of its last change
    caTag,      \* the collection's ctag
    caAccount,  \* is the account's row there (its status is only shown)
    caCals,     \* ids of the rows of calendars
    caToken,    \* ctag of each calendar; at 0 the account's delta link
    caRows,     \* calendar_events
    caLast,     \* row ids used
    caSync,     \* each synchronisation
    caEdit,     \* the event, RSVP or account handler
    caStatus,   \* user_rsvp_status
    caHist      \* history: "raced" requests overlapped; "doubled" an accepted
                \*   event was in the calendar already; "erased" the invited
                \*   event was deleted or had no calendar; "dropped" rows were
                \*   deleted that the stored token covers

caVars == <<caKind, caServer, caTag, caAccount, caCals, caToken, caRows, caLast,
            caSync, caEdit, caStatus, caHist>>

CaIdleSync == [pc |-> "idle", tag |-> CaNull, cal |-> CaNull, todo |-> {}, found |-> CaNull]
CaIdleEdit == [pc |-> "idle", uid |-> CaNull, row |-> CaNull, at |-> CaNull]

CaInit ==
    /\ caKind \in {"caldav", "graph", "google"}
    /\ caServer = [u \in CaUids |-> [live |-> FALSE, at |-> 0]] /\ caTag = 0
    /\ caAccount = TRUE /\ caCals = {} /\ caToken = [c \in CaCalendarIds \cup {0} |-> CaNull]
    /\ caRows = {} /\ caLast = 0
    /\ caSync = [s \in CaSyncs |-> CaIdleSync] /\ caEdit = CaIdleEdit
    /\ caStatus = "pending"
    /\ caHist = {}

CaBusy == caEdit # CaIdleEdit \/ \E s \in CaSyncs : caSync[s] # CaIdleSync
CaRacing == IF CaBusy THEN {"raced"} ELSE {}
CaMayBegin == "raced" \notin caHist    \* bound: nothing begins after an overlap
CaBegins == CaMayBegin /\ caHist' = caHist \cup CaRacing

-----------------------------------------------------------------------------
(* Another client of the calendar. *)
CaStamp(u, live) ==
    /\ caTag < CaMaxTag
    /\ caTag' = caTag + 1
    /\ caServer' = [caServer EXCEPT ![u] = [live |-> live, at |-> caTag + 1]]

CaRemote(u) ==
    /\ caServer[u].live \/ caServer[u].at = 0
    /\ \E live \in BOOLEAN : (caServer[u].live \/ live) /\ CaStamp(u, live)
    /\ UNCHANGED <<caKind, caAccount, caCals, caToken, caRows, caLast, caSync, caEdit, caStatus, caHist>>

-----------------------------------------------------------------------------
(* What a pull returns.  A recurring CalDAV event is expanded into its     *)
(* occurrences, each with its start as recurrence id and without           *)
(* rrule_uid.  Graph's delta names a removed event by its id, which        *)
(* graph_event takes for a uid of its own.                                 *)
CaRecurs(u) == caKind = "caldav" /\ u \in CaSeries
CaOccurrences(u) == IF CaRecurs(u) THEN {<<u, 1>>, <<u, 2>>} ELSE {<<u, 0>>}
CaRemoved(u) == <<u, 9>>

CaCollection ==
    UNION {{[key |-> k, at |-> caServer[u].at] : k \in CaOccurrences(u)} :
           u \in {v \in CaUids : caServer[v].live}}

CaDelta(token) ==
    {[key |-> IF caServer[u].live THEN <<u, 0>> ELSE CaRemoved(u), at |-> caServer[u].at] :
     u \in {v \in CaUids : caServer[v].at > token /\ (caServer[v].live \/ token # CaNull)}}

CaPulled(token) == IF caKind = "graph" THEN CaDelta(token) ELSE CaCollection

CaSyncRest == UNCHANGED <<caKind, caServer, caTag, caAccount, caEdit, caStatus>>
CaGoes(s, pc) == caSync' = [caSync EXCEPT ![s].pc = pc]
CaEnds(s) == caSync' = [caSync EXCEPT ![s] = CaIdleSync]

CaBeginSync(s) ==
    /\ caAccount /\ caSync[s] = CaIdleSync
    /\ caSync' = [caSync EXCEPT ![s].pc = "calendar", ![s].tag = caToken[0]]
    /\ CaBegins
    /\ CaSyncRest /\ UNCHANGED <<caCals, caToken, caRows, caLast>>

(* upsert_calendar: a SELECT, then an INSERT. *)
CaSelectCalendar(s) ==
    /\ caSync[s].pc = "calendar"
    /\ IF caCals = {} THEN CaGoes(s, "insert")
       ELSE caSync' = [caSync EXCEPT ![s].pc = "ctag", ![s].cal = Min(caCals)]
    /\ CaSyncRest /\ UNCHANGED <<caCals, caToken, caRows, caLast, caHist>>

CaInsertCalendar(s) ==
    /\ caSync[s].pc = "insert" /\ caCals # CaCalendarIds
    /\ LET id == Min(CaCalendarIds \ caCals) IN
         /\ caCals' = caCals \cup {id}
         /\ caSync' = [caSync EXCEPT ![s].pc = "ctag", ![s].cal = id]
    /\ CaSyncRest /\ UNCHANGED <<caToken, caRows, caLast, caHist>>

(* The ctag is read before the events.  A server that does not answer the  *)
(* request for it counts as one without a ctag.                            *)
CaReadCtag(s) ==
    /\ caSync[s].pc = "ctag"
    /\ IF caKind # "caldav" THEN CaGoes(s, "pull")
       ELSE \E tag \in {caTag, CaNull} :
              IF tag # CaNull /\ tag = caToken[caSync[s].cal] THEN CaEnds(s)
              ELSE caSync' = [caSync EXCEPT ![s].pc = "pull", ![s].tag = tag]
    /\ CaSyncRest /\ UNCHANGED <<caCals, caToken, caRows, caLast, caHist>>

CaPull(s) ==
    /\ caSync[s].pc = "pull"
    /\ caSync' = [caSync EXCEPT ![s].pc = "store", ![s].todo = CaPulled(caSync[s].tag),
                    ![s].tag = IF caKind = "graph" THEN caTag ELSE @]
    /\ CaSyncRest /\ UNCHANGED <<caCals, caToken, caRows, caLast, caHist>>

(* store_events: for each event a SELECT by calendar, uid and recurrence   *)
(* id, then an UPDATE or an INSERT.                                        *)
CaRow(id, cal, key, at, href, series) ==
    [id |-> id, cal |-> cal, key |-> key, at |-> at, href |-> href, series |-> series]

CaMatching(cal, key) == {row \in caRows : row.cal = cal /\ row.key = key}

CaPending(s) == CHOOSE e \in caSync[s].todo : TRUE

CaSelectEvent(s) ==
    /\ caSync[s].pc = "store" /\ caSync[s].todo # {}
    /\ LET same == CaMatching(caSync[s].cal, CaPending(s).key) IN
         caSync' = [caSync EXCEPT ![s].pc = "write",
                      ![s].found = IF same = {} THEN CaNull ELSE Min({r.id : r \in same})]
    /\ CaSyncRest /\ UNCHANGED <<caCals, caToken, caRows, caLast, caHist>>

CaWriteEvent(s) ==
    /\ caSync[s].pc = "write"
    /\ LET e == CaPending(s)
           Written(id) == CaRow(id, caSync[s].cal, e.key, e.at, e.key[1], FALSE) IN
         /\ IF caSync[s].found # CaNull
              THEN /\ caRows' = {IF r.id = caSync[s].found THEN Written(r.id) ELSE r : r \in caRows}
                   /\ UNCHANGED caLast
              ELSE /\ caSync[s].cal \in caCals /\ caLast < CaMaxRows
                   /\ caLast' = caLast + 1
                   /\ caRows' = caRows \cup {Written(caLast + 1)}
         /\ caSync' = [caSync EXCEPT ![s].pc = "store", ![s].todo = @ \ {e}, ![s].found = CaNull]
    /\ CaSyncRest /\ UNCHANGED <<caCals, caToken, caHist>>

CaStoredOrSkipped(s) == caSync[s].pc = "store"
CaStored(s) == caSync[s].todo = {}

CaSaveToken(s) ==
    /\ caSync[s].pc = "store" /\ CaStored(s)
    /\ LET at == IF caKind = "caldav" THEN caSync[s].cal ELSE 0
           there == IF at = 0 THEN caAccount ELSE at \in caCals IN
         caToken' = IF there THEN [caToken EXCEPT ![at] = caSync[s].tag] ELSE caToken
    /\ CaEnds(s)
    /\ CaSyncRest /\ UNCHANGED <<caCals, caRows, caLast, caHist>>

(* A request or a statement fails - an INSERT into a calendar that is gone *)
(* does - or the client goes away and the handler with it.                 *)
CaSyncFails(s) ==
    /\ caSync[s] # CaIdleSync
    /\ CaEnds(s)
    /\ CaSyncRest /\ UNCHANGED <<caCals, caToken, caRows, caLast, caHist>>

-----------------------------------------------------------------------------
CaEditRest == UNCHANGED <<caKind, caAccount, caCals, caToken, caSync>>
CaAdds(rows) == caRows' = caRows \cup rows /\ caLast' = caLast + Cardinality(rows)

(* create_event: the remote write, then the row.  CalDAV keeps the uid of  *)
(* the request; Graph and Google give the event a uid the row lacks.       *)
CaOwnKey(u) == IF caKind = "caldav" THEN <<u, 0>> ELSE <<u, 8>>

CaCreateRemote(u) ==
    /\ caEdit = CaIdleEdit /\ caCals # {}
    /\ caServer[u].at = 0 /\ u # CaInvited
    /\ CaStamp(u, TRUE)
    /\ caEdit' = [pc |-> "create", uid |-> u, row |-> CaNull, at |-> caTag + 1]
    /\ CaBegins
    /\ CaEditRest /\ UNCHANGED <<caRows, caLast, caStatus>>

(* expand_and_store_rrule: the master stands for the first occurrence. *)
CaSecond(cal, u) == CaRow(caLast + 2, cal, <<u, 2>>, caEdit.at, CaNull, TRUE)

CaCreateRow ==
    /\ caEdit.pc = "create" /\ caCals # {} /\ caLast + 1 < CaMaxRows
    /\ LET u == caEdit.uid
           master == CaRow(caLast + 1, Min(caCals), CaOwnKey(u), caEdit.at, u, FALSE) IN
         CaAdds(IF CaRecurs(u) THEN {master, CaSecond(Min(caCals), u)} ELSE {master})
    /\ caEdit' = CaIdleEdit
    /\ CaEditRest /\ UNCHANGED <<caServer, caTag, caStatus, caHist>>

(* update_event and delete_event: CalDAV's If-Match refuses a row whose    *)
(* etag is old; a resource already gone counts as deleted.  A row without  *)
(* href creates a resource when updated, and is deleted locally.  The      *)
(* other providers refuse only what is gone; for a row without href they   *)
(* would create a second event, which is left out.                         *)
CaIfMatch(row, live) ==
    LET r == caServer[row.href] IN
    IF row.href = CaNull THEN live => ~caServer[row.key[1]].live
    ELSE IF r.live THEN r.at = row.at ELSE ~live

CaAllowed(row, live) ==
    IF caKind = "caldav" THEN CaIfMatch(row, live)
    ELSE row.href # CaNull /\ caServer[row.href].live

CaEditRemote(row, live) ==
    /\ caEdit = CaIdleEdit
    /\ CaAllowed(row, live)
    /\ IF live \/ (row.href # CaNull /\ caServer[row.href].live)
         THEN CaStamp(row.key[1], live) ELSE UNCHANGED <<caServer, caTag>>
    /\ caEdit' = [pc |-> IF live THEN "update" ELSE "delete", uid |-> row.key[1],
                  row |-> row.id, at |-> caTag']
    /\ CaBegins
    /\ CaEditRest /\ UNCHANGED <<caRows, caLast, caStatus>>

CaOfSeries(r) == r.series /\ r.key[1] = caEdit.uid

CaUpdateRow ==
    /\ caEdit.pc = "update"
    /\ CaRecurs(caEdit.uid) => caLast + 1 < CaMaxRows
    /\ LET old == {r \in caRows : r.id = caEdit.row}
           new == {[r EXCEPT !.at = caEdit.at, !.href = caEdit.uid] : r \in old}
           others == caRows \ old IN
         IF CaRecurs(caEdit.uid) /\ old # {}
           THEN /\ caRows' = {r \in others : ~CaOfSeries(r)} \cup new
                              \cup {CaSecond(r.cal, caEdit.uid) : r \in old}
                /\ caLast' = caLast + 2
           ELSE caRows' = others \cup new /\ UNCHANGED caLast
    /\ caEdit' = CaIdleEdit
    /\ CaEditRest /\ UNCHANGED <<caServer, caTag, caStatus, caHist>>

CaDeleteRow ==
    /\ caEdit.pc = "delete"
    /\ caRows' = {r \in caRows : r.id # caEdit.row /\ ~CaOfSeries(r)}
    /\ caHist' = caHist \cup (IF caEdit.uid = CaInvited THEN {"erased"} ELSE {})
    /\ caEdit' = CaIdleEdit
    /\ CaEditRest /\ UNCHANGED <<caServer, caTag, caLast, caStatus>>

(* rsvp_invitation: unless declined, an event is inserted in the default   *)
(* calendar whatever is there; then the status.                            *)
CaRsvp(response) ==
    /\ caEdit = CaIdleEdit /\ CaMayBegin /\ caLast < CaMaxRows
    /\ LET stores == response = "accepted" /\ caCals # {}
           again == \E r \in caRows : r.key[1] = CaInvited IN
         /\ CaAdds(IF stores THEN {CaRow(caLast + 1, Min(caCals), <<CaInvited, 0>>, 0, CaNull, FALSE)}
                   ELSE {})
         /\ caHist' = caHist \cup CaRacing \cup (IF stores /\ again THEN {"doubled"} ELSE {})
                              \cup (IF response = "accepted" /\ caCals = {} THEN {"erased"} ELSE {})
    /\ caEdit' = [CaIdleEdit EXCEPT !.pc = response]
    /\ CaEditRest /\ UNCHANGED <<caServer, caTag, caStatus>>

CaRsvpStatus ==
    /\ caEdit.pc \in {"accepted", "declined"}
    /\ caStatus' = caEdit.pc
    /\ caEdit' = CaIdleEdit
    /\ CaEditRest /\ UNCHANGED <<caServer, caTag, caRows, caLast, caHist>>

CaEditFails ==
    /\ caEdit # CaIdleEdit
    /\ caHist' = caHist \cup (IF caEdit.pc \in {"calendars", "account"} THEN {"dropped"} ELSE {})
    /\ caEdit' = CaIdleEdit
    /\ CaEditRest /\ UNCHANGED <<caServer, caTag, caRows, caLast, caStatus>>

-----------------------------------------------------------------------------
(* delete_calendar; and delete_account: the events, the calendars, the     *)
(* account, a statement each.                                              *)
CaDropCalendars(ids) ==
    /\ caCals' = caCals \ ids
    /\ caRows' = {r \in caRows : r.cal \notin ids}
    /\ caToken' = [c \in DOMAIN caToken |-> IF c \in ids THEN CaNull ELSE caToken[c]]

CaDeleteCalendar(id) ==
    /\ id \in caCals /\ CaMayBegin
    /\ CaDropCalendars({id})
    /\ caHist' = caHist \cup {"erased"} \cup (IF caKind = "graph" THEN {"dropped"} ELSE {})
    /\ UNCHANGED <<caKind, caServer, caTag, caAccount, caLast, caSync, caEdit, caStatus>>

CaDeleteEvents ==
    /\ caEdit = CaIdleEdit /\ CaMayBegin /\ caAccount
    /\ caRows' = {}
    /\ caEdit' = [CaIdleEdit EXCEPT !.pc = "calendars"]
    /\ caHist' = caHist \cup CaRacing \cup {"erased"}
    /\ CaEditRest /\ UNCHANGED <<caServer, caTag, caLast, caStatus>>

CaDeleteCalendars ==
    /\ caEdit.pc = "calendars"
    /\ CaDropCalendars(CaCalendarIds)
    /\ caEdit' = [CaIdleEdit EXCEPT !.pc = "account"]
    /\ UNCHANGED <<caKind, caServer, caTag, caAccount, caLast, caSync, caStatus, caHist>>

CaDeleteAccount ==
    /\ caEdit.pc = "account"
    /\ caAccount' = FALSE /\ caToken' = [caToken EXCEPT ![0] = CaNull]
    /\ caEdit' = CaIdleEdit
    /\ UNCHANGED <<caKind, caServer, caTag, caCals, caRows, caLast, caSync, caStatus, caHist>>

-----------------------------------------------------------------------------
CaNext ==
    \/ \E u \in CaUids : CaRemote(u) \/ CaCreateRemote(u)
    \/ \E s \in CaSyncs :
         \/ CaBeginSync(s) \/ CaSelectCalendar(s) \/ CaInsertCalendar(s) \/ CaReadCtag(s)
         \/ CaPull(s) \/ CaSelectEvent(s) \/ CaWriteEvent(s) \/ CaSaveToken(s) \/ CaSyncFails(s)
    \/ \E row \in caRows, live \in BOOLEAN : CaEditRemote(row, live)
    \/ CaCreateRow \/ CaUpdateRow \/ CaDeleteRow \/ CaEditFails
    \/ \E r \in {"accepted", "declined"} : CaRsvp(r)
    \/ CaRsvpStatus
    \/ \E id \in CaCalendarIds : CaDeleteCalendar(id)
    \/ CaDeleteEvents \/ CaDeleteCalendars \/ CaDeleteAccount

CaSpec == CaInit /\ [][CaNext]_caVars

-----------------------------------------------------------------------------
CaQuiet == ~CaBusy /\ "raced" \notin caHist

(* Once requests have not overlapped, a stored ctag or delta link vouches  *)
(* for the events it covers: none was skipped, though the collection       *)
(* changed between the requests of a synchronisation or one of them died.  *)
CaNoChangeSkipped ==
    CaQuiet /\ "dropped" \notin caHist =>
    \A c \in caCals, u \in CaUids :
      LET covered == IF caKind = "graph" THEN caServer[u].at <= caToken[0]
                     ELSE caToken[c] # CaNull /\ caToken[c] = caTag IN
      covered /\ caServer[u].live =>
        \A k \in CaOccurrences(u) : \E r \in caRows : r.key = k /\ r.at = caServer[u].at

(* Requests that do not overlap keep one row of a CalDAV event, whoever    *)
(* stored it first: the handler that created it or a synchronisation.      *)
CaOneRow ==
    caKind = "caldav" /\ caHist \cap {"raced", "doubled"} = {} =>
    \A u \in CaUids \ CaSeries : Cardinality({r \in caRows : r.key[1] = u}) <= 1

(* Only a request that was running when the account was deleted leaves     *)
(* something of it.                                                        *)
CaNoOrphans == ~caAccount /\ "raced" \notin caHist => caRows = {} /\ caCals = {}

(* An accepted invitation is in the calendar, even if the handler that     *)
(* answered it was cut short.                                              *)
CaAcceptedIsStored ==
    caStatus = "accepted" /\ "erased" \notin caHist => \E r \in caRows : r.key[1] = CaInvited

(* What the synchronisation, the event handlers, RSVP and the deletion of  *)
(* the account keep of the local calendar, under one name.                 *)
CaCalendarKept == CaNoChangeSkipped /\ CaOneRow /\ CaNoOrphans /\ CaAcceptedIsStored
=============================================================================
