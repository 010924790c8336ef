------------------------------ MODULE DavSync ------------------------------
(***************************************************************************)
(* POST /accounts/{id}/sync-dav: the contacts and the calendar of a mail   *)
(* account, over CardDAV and CalDAV.  Nothing excludes two requests for    *)
(* one account and no statement is in a transaction.  Rows marked dirty or *)
(* deleted are those an earlier version left to be pushed.                 *)
(***************************************************************************)
EXTENDS Naturals, FiniteSets, FiniteSetsExt

CONSTANTS DvMaxUid,    \* events
          DvCards,     \* contacts
          DvSyncs,     \* concurrent requests
          DvMaxTag,    \* bound: changes of the collection
          DvMaxRows    \* bound: event rows inserted

ASSUME DvAssumption == DvMaxUid \in Nat /\ DvMaxTag \in Nat /\ DvMaxRows \in Nat

DvUids == 1..DvMaxUid
DvNull == 0
DvCalendarIds == {1, 2}

VARIABLES
    dvServer,    \* each event's resource: is it there, and its ETag
    dvTag,       \* the collection's ctag
    dvRange,     \* events still in the range of time that is pulled
    dvCals,      \* calendars: "guess" the url is not a collection's
    dvRows,      \* calendar_events
    dvLast,      \* row ids used
    dvContacts,  \* contacts of the account
    dvFetched,   \* history: the address book as last fetched
    dvSync,      \* each request
    dvEdited,    \* history: events whose local edit has not reached the server
    dvHist       \* history: "raced" requests overlapped; "cut" one ended early

dvVars == <<dvServer, dvTag, dvRange, dvCals, dvRows, dvLast, dvContacts, dvFetched,
            dvSync, dvEdited, dvHist>>

DvIdle == [pc |-> "idle", book |-> {}, cals |-> {}, tag |-> DvNull, down |-> {},
           there |-> {}, local |-> {}, at |-> DvNull]

DvLegacyRow(u, kind) ==
    [id |-> u, cal |-> 1, uid |-> u, at |-> IF kind = "new" THEN DvNull ELSE 1,
     href |-> kind # "new", dirty |-> kind \in {"dirty", "new"}, deleted |-> kind = "deleted",
     mine |-> kind \in {"dirty", "new"}]

(* A new account, or one whose calendar an earlier version has synced; an  *)
(* event that version created has no href yet and is not on the server.    *)
DvInit ==
    /\ \E old \in BOOLEAN, kind \in [DvUids -> {"clean", "dirty", "deleted", "new"}] :
         /\ dvServer = [u \in DvUids |-> IF kind[u] = "new" THEN [live |-> FALSE, at |-> 0]
                                         ELSE [live |-> TRUE, at |-> 1]]
         /\ dvCals = IF old THEN {[id |-> 1, guess |-> FALSE, ctag |-> 1]} ELSE {}
         /\ dvRows = IF old THEN {DvLegacyRow(u, kind[u]) : u \in DvUids} ELSE {}
         /\ dvEdited = IF old THEN {u \in DvUids : kind[u] \in {"dirty", "new"}} ELSE {}
    /\ dvTag = 1 /\ dvRange \in SUBSET DvUids /\ dvLast = DvMaxUid
    /\ dvContacts = {} /\ dvFetched = {}
    /\ dvSync = [s \in DvSyncs |-> DvIdle]
    /\ dvHist = {}

DvGoes(s, pc) == dvSync' = [dvSync EXCEPT ![s].pc = pc]
DvLocal == UNCHANGED <<dvServer, dvTag, dvRange>>
DvSame == UNCHANGED <<dvContacts, dvFetched, dvHist>>

-----------------------------------------------------------------------------
(* Another client, which does not use the uids generated here. *)
DvStamp(u, live) ==
    /\ dvTag < DvMaxTag
    /\ dvTag' = dvTag + 1
    /\ dvServer' = [dvServer EXCEPT ![u] = [live |-> live, at |-> dvTag + 1]]

DvRemote(u, live) ==
    /\ dvServer[u].live \/ (live /\ dvServer[u].at # DvNull)
    /\ DvStamp(u, live)
    /\ UNCHANGED <<dvRange, dvCals, dvRows, dvLast, dvSync, dvEdited>> /\ DvSame

-----------------------------------------------------------------------------
(* Contacts: the address book replaces the rows, an INSERT each; the first *)
(* that fails - UNIQUE(account_id, uid) - ends the request.                *)
DvBegin(s) ==
    /\ dvSync[s] = DvIdle /\ "raced" \notin dvHist    \* bound: nothing begins after an overlap
    /\ DvGoes(s, "contacts")
    /\ dvHist' = IF \E t \in DvSyncs : dvSync[t] # DvIdle THEN dvHist \cup {"raced"} ELSE dvHist
    /\ DvLocal /\ UNCHANGED <<dvCals, dvRows, dvLast, dvContacts, dvFetched, dvEdited>>

DvFetchContacts(s) ==
    /\ dvSync[s].pc = "contacts"
    /\ \/ DvGoes(s, "calendars") /\ UNCHANGED dvFetched    \* reported, not fatal
       \/ \E book \in SUBSET DvCards :
            /\ dvFetched' = book
            /\ dvSync' = [dvSync EXCEPT ![s].pc = "clear", ![s].book = book]
    /\ DvLocal /\ UNCHANGED <<dvCals, dvRows, dvLast, dvContacts, dvEdited, dvHist>>

DvCleared == {}

DvClearContacts(s) ==
    /\ dvSync[s].pc = "clear"
    /\ dvContacts' = DvCleared
    /\ DvGoes(s, "cards")
    /\ DvLocal /\ UNCHANGED <<dvCals, dvRows, dvLast, dvFetched, dvEdited, dvHist>>

DvInsertContact(s) ==
    /\ dvSync[s].pc = "cards" /\ dvSync[s].book # {}
    /\ LET c == CHOOSE x \in dvSync[s].book : TRUE IN
         /\ c \notin dvContacts
         /\ dvContacts' = dvContacts \cup {c}
         /\ dvSync' = [dvSync EXCEPT ![s].book = @ \ {c}]
    /\ DvLocal /\ UNCHANGED <<dvCals, dvRows, dvLast, dvFetched, dvEdited, dvHist>>

-----------------------------------------------------------------------------
(* The calendars; without one, discovery: the first candidate url that has *)
(* calendars, or, if all fail, a calendar with a guessed url.              *)
DvListCalendars(s) ==
    /\ dvSync[s].pc = "calendars" \/ (dvSync[s].pc = "cards" /\ dvSync[s].book = {})
    /\ dvSync' = [dvSync EXCEPT ![s].pc = IF dvCals = {} THEN "discover" ELSE "next", ![s].cals = dvCals]
    /\ DvLocal /\ UNCHANGED <<dvCals, dvRows, dvLast, dvEdited>> /\ DvSame

DvDiscover(s) ==
    /\ dvSync[s].pc = "discover" /\ Cardinality(dvCals) < 2
    /\ \E guess \in BOOLEAN :
         LET cal == [id |-> Min(DvCalendarIds \ {c.id : c \in dvCals}), guess |-> guess, ctag |-> DvNull] IN
         /\ dvCals' = dvCals \cup {cal}
         /\ dvSync' = [dvSync EXCEPT ![s].pc = "next", ![s].cals = {cal}]
    /\ DvLocal /\ UNCHANGED <<dvRows, dvLast, dvEdited>> /\ DvSame

DvCalendar(s) == CHOOSE c \in dvSync[s].cals : TRUE
DvLeaves(s) ==
    [dvSync EXCEPT ![s] = [DvIdle EXCEPT !.pc = "next", !.cals = dvSync[s].cals \ {DvCalendar(s)}]]

DvReadCtag(s) ==
    /\ dvSync[s].pc = "next" /\ dvSync[s].cals # {}
    /\ \E tag \in {DvNull} \cup (IF DvCalendar(s).guess THEN {} ELSE {dvTag}) :
         dvSync' = IF tag # DvNull /\ tag = DvCalendar(s).ctag THEN DvLeaves(s)
                   ELSE [dvSync EXCEPT ![s].pc = "pull", ![s].tag = tag]
    /\ DvLocal /\ UNCHANGED <<dvCals, dvRows, dvLast, dvEdited>> /\ DvSame

DvPull(s) ==
    /\ dvSync[s].pc = "pull"
    /\ \/ dvSync' = DvLeaves(s)
       \/ /\ ~DvCalendar(s).guess
          /\ LET found == {[uid |-> u, at |-> dvServer[u].at] : u \in {v \in dvRange : dvServer[v].live}} IN
               dvSync' = [dvSync EXCEPT ![s].pc = "merge", ![s].down = found,
                                        ![s].there = {e.uid : e \in found}]
    /\ DvLocal /\ UNCHANGED <<dvCals, dvRows, dvLast, dvEdited>> /\ DvSame

(* merge_calendar works on the rows it reads here. *)
DvSelect(s) ==
    /\ dvSync[s].pc = "merge"
    /\ dvSync' = [dvSync EXCEPT ![s].pc = "down", ![s].local = {r \in dvRows : r.cal = DvCalendar(s).id}]
    /\ DvLocal /\ UNCHANGED <<dvCals, dvRows, dvLast, dvEdited>> /\ DvSame

DvYieldsAlways(l, e) == l.at # e.at
DvYields(l, e) == ~l.dirty /\ ~l.deleted /\ l.at # e.at

DvMatching(s, e) == {l \in dvSync[s].local : l.uid = e.uid}

DvDown(s) ==
    /\ dvSync[s].pc = "down" /\ dvSync[s].down # {}
    /\ LET e == CHOOSE x \in dvSync[s].down : TRUE
           same == DvMatching(s, e)
           old == {l.id : l \in {x \in same : DvYields(x, e)}} IN
         /\ dvSync' = [dvSync EXCEPT ![s].down = @ \ {e}]
         /\ IF same # {}
              THEN /\ dvRows' = {IF r.id \in old
                                   THEN [r EXCEPT !.at = e.at, !.href = TRUE, !.mine = FALSE] ELSE r :
                                 r \in dvRows}
                   /\ UNCHANGED dvLast
              ELSE /\ dvLast < DvMaxRows /\ dvLast' = dvLast + 1
                   /\ dvRows' = dvRows \cup {[id |-> dvLast + 1, cal |-> DvCalendar(s).id, uid |-> e.uid,
                                              at |-> e.at, href |-> TRUE, dirty |-> FALSE,
                                              deleted |-> FALSE, mine |-> FALSE]}
    /\ DvLocal /\ UNCHANGED <<dvCals, dvEdited>> /\ DvSame

-----------------------------------------------------------------------------
(* Then the rows, as read: a tombstone is deleted on the server, a dirty   *)
(* row pushed, a clean one dropped that the server no longer lists.  With  *)
(* an ETag the server refuses a write if the resource has another; a       *)
(* missing resource counts as deleted.                                     *)
DvIfMatch(l) == l.at # DvNull => dvServer[l.uid].live /\ dvServer[l.uid].at = l.at

DvNextRow(s) == CHOOSE l \in dvSync[s].local : TRUE
DvAtRows(s) == dvSync[s].pc \in {"down", "up"} /\ dvSync[s].down = {} /\ dvSync[s].local # {}
DvRowDone(s) == dvSync' = [dvSync EXCEPT ![s].pc = "up", ![s].local = @ \ {DvNextRow(s)}, ![s].at = DvNull]

DvDeleteRemote(s) ==
    /\ DvAtRows(s) /\ DvNextRow(s).deleted
    /\ LET l == DvNextRow(s) IN
       \/ /\ ~l.href \/ ~dvServer[l.uid].live
          /\ DvGoes(s, "deleted") /\ UNCHANGED <<dvServer, dvTag>>
       \/ /\ l.href /\ dvServer[l.uid].live /\ DvIfMatch(l)
          /\ DvStamp(l.uid, FALSE) /\ DvGoes(s, "deleted")
       \/ l.href /\ DvRowDone(s) /\ UNCHANGED <<dvServer, dvTag>>    \* refused or failed: kept
    /\ UNCHANGED <<dvRange, dvCals, dvRows, dvLast, dvEdited>> /\ DvSame

DvPush(s) ==
    /\ DvAtRows(s) /\ ~DvNextRow(s).deleted /\ DvNextRow(s).dirty
    /\ LET l == DvNextRow(s) IN
       \/ /\ DvIfMatch(l) /\ DvStamp(l.uid, TRUE)
          /\ dvEdited' = IF l.mine THEN dvEdited \ {l.uid} ELSE dvEdited
          /\ \E etag \in {dvTag + 1, DvNull} :    \* a response may have no ETag
               dvSync' = [dvSync EXCEPT ![s].pc = "pushed", ![s].at = etag]
       \/ DvRowDone(s) /\ UNCHANGED <<dvServer, dvTag, dvEdited>>
    /\ UNCHANGED <<dvRange, dvCals, dvRows, dvLast>> /\ DvSame

DvGone(s, l) == l.href /\ l.uid \notin dvSync[s].there

DvWriteRow(s) ==
    /\ LET l == DvNextRow(s) IN
       \/ /\ dvSync[s].pc = "deleted" \/ (DvAtRows(s) /\ ~l.deleted /\ ~l.dirty)
          /\ dvRows' = IF dvSync[s].pc = "deleted" \/ DvGone(s, l)
                         THEN {r \in dvRows : r.id # l.id} ELSE dvRows
       \/ /\ dvSync[s].pc = "pushed"
          /\ dvRows' = {IF r.id = l.id THEN [r EXCEPT !.dirty = FALSE, !.href = TRUE, !.at = dvSync[s].at]
                        ELSE r : r \in dvRows}
    /\ DvRowDone(s)
    /\ DvLocal /\ UNCHANGED <<dvCals, dvLast, dvEdited>> /\ DvSame

(* The ctag stored is the one read before the pull, whatever failed to be  *)
(* pushed or deleted.                                                      *)
DvTagOf(s) == dvSync[s].tag

DvSaveCtag(s) ==
    /\ dvSync[s].pc \in {"down", "up"} /\ dvSync[s].down = {} /\ dvSync[s].local = {}
    /\ dvCals' = {IF c.id = DvCalendar(s).id THEN [c EXCEPT !.ctag = DvTagOf(s)] ELSE c : c \in dvCals}
    /\ dvSync' = DvLeaves(s)
    /\ DvLocal /\ UNCHANGED <<dvRows, dvLast, dvEdited>> /\ DvSame

(* A failed statement of the merge goes on with the next calendar. *)
DvMergeFails(s) ==
    /\ dvSync[s].pc \in {"merge", "down", "up", "deleted", "pushed"}
    /\ dvSync' = DvLeaves(s) /\ dvHist' = dvHist \cup {"cut"}
    /\ DvLocal /\ UNCHANGED <<dvCals, dvRows, dvLast, dvContacts, dvFetched, dvEdited>>

(* The request returns, fails, or is dropped with its connection. *)
DvEnds(s) ==
    /\ dvSync[s] # DvIdle
    /\ dvHist' = IF dvSync[s].pc = "next" /\ dvSync[s].cals = {} THEN dvHist ELSE dvHist \cup {"cut"}
    /\ dvSync' = [dvSync EXCEPT ![s] = DvIdle]
    /\ DvLocal /\ UNCHANGED <<dvCals, dvRows, dvLast, dvContacts, dvFetched, dvEdited>>

DvDeleteCalendar(c) ==
    /\ c \in dvCals /\ dvCals' = dvCals \ {c}
    /\ dvRows' = {r \in dvRows : r.cal # c.id}
    /\ dvEdited' = {}
    /\ dvHist' = IF \E s \in DvSyncs : dvSync[s] # DvIdle THEN dvHist \cup {"raced"} ELSE dvHist
    /\ DvLocal /\ UNCHANGED <<dvLast, dvContacts, dvFetched, dvSync>>

DvNext ==
    \/ \E u \in DvUids, live \in BOOLEAN : DvRemote(u, live)
    \/ \E s \in DvSyncs :
         \/ DvBegin(s) \/ DvFetchContacts(s) \/ DvClearContacts(s) \/ DvInsertContact(s)
         \/ DvListCalendars(s) \/ DvDiscover(s) \/ DvReadCtag(s) \/ DvPull(s) \/ DvSelect(s)
         \/ DvDown(s) \/ DvDeleteRemote(s) \/ DvPush(s) \/ DvWriteRow(s)
         \/ DvSaveCtag(s) \/ DvMergeFails(s) \/ DvEnds(s)
    \/ \E c \in dvCals : DvDeleteCalendar(c)

DvSpec == DvInit /\ [][DvNext]_dvVars

-----------------------------------------------------------------------------
DvQuiet == dvHist \cap {"raced"} = {} /\ \A s \in DvSyncs : dvSync[s] = DvIdle

(* A stored ctag vouches for the calendar: every event in range that it    *)
(* covers is stored as it is on the server, or waits to be pushed.         *)
DvCtagVouches ==
    DvQuiet => \A c \in dvCals, u \in dvRange :
      c.ctag = dvTag /\ dvServer[u].live =>
        \E r \in dvRows : r.cal = c.id /\ r.uid = u
                          /\ (r.at = dvServer[u].at \/ r.dirty \/ r.deleted)

(* Requests that do not overlap keep one row of an event. *)
DvOneRow == "raced" \notin dvHist =>
    \A r1, r2 \in dvRows : r1.uid = r2.uid => r1 = r2

(* An edit waits in its row, as made, until the server has it. *)
DvEditsKept ==
    \A u \in dvEdited : \E r \in dvRows : r.uid = u /\ r.dirty /\ r.mine

(* A request that ran alone leaves the address book as it fetched it. *)
DvContactsWhole == DvQuiet /\ "cut" \notin dvHist => dvContacts = dvFetched

(* As long as no request was cut short or overlapped another, another      *)
(* client's change is only overwritten or deleted for a row that saw it.   *)
DvUnseenKept ==
    [][\A s \in DvSyncs : dvServer' # dvServer /\ dvSync'[s] # dvSync[s] /\ dvHist = {} =>
         LET l == DvNextRow(s) IN
         dvServer[l.uid].live => l.at = dvServer[l.uid].at]_dvVars

(* What the merge promises ("ETag-based, non-destructive") of the rows, of *)
(* the contacts and of the server, under one name.                         *)
DvNothingLost ==
    [](DvCtagVouches /\ DvOneRow /\ DvEditsKept /\ DvContactsWhole) /\ DvUnseenKept
=============================================================================
