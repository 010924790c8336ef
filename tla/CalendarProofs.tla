--------------------------- MODULE CalendarProofs ----------------------------
(***************************************************************************)
(* What the synchronisation, the event handlers, RSVP and the deletion of  *)
(* a calendar account keep of the local calendar, for every number of      *)
(* events and of requests.  As long as no requests overlapped one actor    *)
(* runs at a time, while other clients change the collection and calendars *)
(* are deleted; the invariant says what that actor has half done.  The     *)
(* parts of it that compare tags are the argument: a synchronisation reads *)
(* its tag before the events, stores all of them, and only then the tag;   *)
(* an edit changes the resource, and with it the collection's tag, before  *)
(* its row.  After an overlap only the facts of the rows are kept.         *)
(***************************************************************************)
EXTENDS CalendarSync, FiniteSetTheorems, WellFoundedInduction, TLAPS

-----------------------------------------------------------------------------
\* Events as pulled, rows, synchronisations and handlers, field by field.
CaKeys == CaUids \X {0, 1, 2, 8, 9}
CaEventType == [key : CaKeys, at : Nat]
CaRowType ==
    [id : Nat \ {0}, cal : CaCalendarIds, key : CaKeys, at : Nat, href : CaUids \cup {CaNull},
     series : BOOLEAN]
CaSyncType ==
    [pc : {"idle", "calendar", "insert", "ctag", "pull", "store", "write"}, tag : Nat,
     cal : CaCalendarIds \cup {CaNull}, todo : SUBSET CaEventType, found : Nat]
CaEditType ==
    [pc : {"idle", "create", "update", "delete", "accepted", "declined", "calendars", "account"},
     uid : CaUids \cup {CaNull}, row : Nat, at : Nat]

CaTakes(s) == caSync[s].pc \in {"ctag", "pull", "store", "write"}
CaStores(s) == caSync[s].pc \in {"store", "write"}

\* The types.
CaTypes ==
    /\ caKind \in {"caldav", "graph", "google"} /\ caTag \in Nat /\ caLast \in Nat
    /\ caServer \in [CaUids -> [live : BOOLEAN, at : Nat]]
    /\ caAccount \in BOOLEAN /\ caCals \subseteq CaCalendarIds
    /\ caToken \in [CaCalendarIds \cup {0} -> Nat] /\ caRows \subseteq CaRowType
    /\ caSync \in [CaSyncs -> CaSyncType] /\ caEdit \in CaEditType

\* Every tag, token and change is at most the collection's ctag, what is there has a tag,
\* and only a calendar that is there has a token.
CaTags ==
    /\ \A u \in CaUids : caServer[u].at <= caTag /\ (caServer[u].live => caServer[u].at # 0)
    /\ \A c \in CaCalendarIds \cup {0} : caToken[c] <= caTag
    /\ \A c \in CaCalendarIds : caKind # "caldav" \/ c \notin caCals => caToken[c] = CaNull

\* What a place says of the fields.
CaPlaceOf(s) ==
    /\ caSync[s].pc = "idle" => caSync[s] = CaIdleSync
    /\ CaTakes(s) => caSync[s].cal # CaNull
    /\ caSync[s].pc = "write" => caSync[s].todo # {}
    /\ caSync[s].pc # "write" => caSync[s].found = CaNull
    /\ caSync[s].tag <= caTag

CaEditPlace ==
    /\ caEdit.pc = "idle" => caEdit = CaIdleEdit
    /\ caEdit.pc \in {"create", "update", "delete"} => caEdit.uid \in CaUids
    /\ caEdit.pc \in {"create", "update"} => caServer[caEdit.uid].at # 0
    /\ caEdit.pc \in {"update", "delete"} => caEdit.row <= caLast

CaPlaces == (\A s \in CaSyncs : CaPlaceOf(s)) /\ CaEditPlace

\* Rows have ids of their own, and name a resource there was; who has looked up a row by
\* its id, found the event of that row.
CaNamed ==
    /\ \A r \in caRows :
        /\ r.id <= caLast
        /\ r.href # CaNull => r.href = r.key[1] /\ caServer[r.key[1]].at # 0
        /\ caServer[r.key[1]].at # 0 \/ r.key[1] = CaInvited
        /\ caKind = "caldav" /\ r.key[1] \notin CaSeries => r.key = <<r.key[1], 0>>
    /\ \A r, q \in caRows : r.id = q.id => r = q
    /\ caEdit.pc \in {"update", "delete"} =>
         \A r \in caRows : r.id = caEdit.row => r.key[1] = caEdit.uid

CaFoundOf(s) ==
    /\ caSync[s].found <= caLast
    /\ caSync[s].found # CaNull =>
         \A r \in caRows : r.id = caSync[s].found =>
           r.key = CaPending(s).key /\ r.cal = caSync[s].cal
    /\ \A e \in caSync[s].todo :
         /\ e.at # 0 /\ e.at <= caServer[e.key[1]].at
         /\ caKind = "caldav" => e.key \in CaOccurrences(e.key[1])

CaFound == \A s \in CaSyncs : CaFoundOf(s)

\* The accepted invitation's event is there before its status says so.
CaInvitedStays ==
    /\ "erased" \notin caHist /\ (caStatus = "accepted" \/ caEdit.pc = "accepted") =>
          \E r \in caRows : r.key[1] = CaInvited
    /\ caEdit.pc \in {"calendars", "account"} => "erased" \in caHist

\* Without an overlap there is one actor, and one calendar, which is that of the rows
\* and, unless it was deleted under it, of the synchronisation.
CaAloneOf(s) ==
    /\ caSync[s] # CaIdleSync =>
         caAccount /\ caEdit = CaIdleEdit /\ \A t \in CaSyncs : t # s => caSync[t] = CaIdleSync
    /\ caSync[s].pc = "insert" => caCals = {}
    /\ CaTakes(s) => caCals \subseteq {caSync[s].cal}

CaAlone ==
    "raced" \notin caHist =>
       /\ \A s \in CaSyncs : CaAloneOf(s)
       /\ \A c, d \in caCals : c = d
       /\ \A r \in caRows : r.cal \in caCals

\* The deletion of the account has removed what comes before its place.
CaLeft ==
    "raced" \notin caHist =>
       /\ caEdit.pc \in {"calendars", "account"} \/ ~caAccount => caRows = {}
       /\ caEdit.pc = "account" \/ ~caAccount => caCals = {}

\* The row that was looked up for an event is still there, or still missing.
CaSingleOf(s) ==
    caSync[s].pc = "write" /\ caSync[s].cal \in caCals =>
      /\ caSync[s].found = CaNull => CaMatching(caSync[s].cal, CaPending(s).key) = {}
      /\ caSync[s].found # CaNull => \E r \in caRows : r.id = caSync[s].found

\* An event that is being created has no row, and one that is has one.
CaOnce ==
    /\ caEdit.pc = "create" => \A r \in caRows : r.key[1] # caEdit.uid
    /\ caKind = "caldav" /\ "doubled" \notin caHist =>
          \A r, q \in caRows : r.key[1] = q.key[1] /\ r.key[1] \notin CaSeries => r = q

CaSingle == "raced" \notin caHist => (\A s \in CaSyncs : CaSingleOf(s)) /\ CaOnce

\* The event is one that the stored ctag or delta link vouches for, and the row is such
\* as a synchronisation stores it.
CaCovered(c, u) ==
    IF caKind = "graph" THEN caServer[u].at <= caToken[0]
    ELSE caToken[c] # CaNull /\ caToken[c] = caTag
CaSaved(u, k) ==
    \E r \in caRows : r.key = k /\ r.at = caServer[u].at /\ r.href = u /\ ~r.series

\* An edit's event is not vouched for until its row is written, unless the event is gone
\* or the row was never pulled.
CaUnderEdit ==
    "raced" \notin caHist =>
      /\ caEdit.pc = "update" => \A c \in CaCalendarIds : ~CaCovered(c, caEdit.uid)
      /\ caEdit.pc = "delete" =>
           \/ \A c \in CaCalendarIds : ~CaCovered(c, caEdit.uid)
           \/ ~caServer[caEdit.uid].live /\ caServer[caEdit.uid].at # 0
           \/ \A r \in caRows : r.id = caEdit.row => r.href = CaNull

\* What is vouched for is stored, also while a synchronisation or an edit runs.
CaVouched ==
    "raced" \notin caHist /\ "dropped" \notin caHist /\ caEdit.pc \notin {"calendars", "account"} =>
      \A c \in caCals, u \in CaUids :
        CaCovered(c, u) /\ caServer[u].live => \A k \in CaOccurrences(u) : CaSaved(u, k)

\* An account without a calendar has no delta link.
CaUnlinked ==
    /\ "raced" \notin caHist /\ "dropped" \notin caHist
    /\ caEdit.pc \notin {"calendars", "account"}
    /\ caKind = "graph" /\ caCals = {}
    => caToken[0] = CaNull

\* What a synchronisation will vouch for is stored or to be stored, as it is.
CaCovers(s, u) ==
    \/ caKind = "graph" /\ caServer[u].at <= caSync[s].tag
    \/ caKind = "caldav" /\ caSync[s].cal \in caCals /\ caSync[s].tag = caTag
CaStoring(s) ==
    /\ \A e \in caSync[s].todo :
         /\ caKind = "graph" =>
              e.at > caToken[0]
              /\ (caServer[e.key[1]].at <= caSync[s].tag => e.at = caServer[e.key[1]].at)
         /\ caKind = "caldav" /\ (caSync[s].tag = caTag \/ \E c \in caCals : caToken[c] = caTag) =>
              e.at = caServer[e.key[1]].at
    /\ \A u \in CaUids : CaCovers(s, u) /\ caServer[u].live =>
         \A k \in CaOccurrences(u) :
           [key |-> k, at |-> caServer[u].at] \in caSync[s].todo \/ CaSaved(u, k)

CaVouchesOf(s) ==
    /\ caKind = "graph" /\ caSync[s].pc \in {"calendar", "insert", "ctag", "pull"} =>
         caSync[s].tag = caToken[0]
    /\ caKind = "graph" /\ CaTakes(s) => caSync[s].cal \in caCals
    /\ CaStores(s) => CaStoring(s)

CaSyncVouches ==
    "raced" \notin caHist /\ "dropped" \notin caHist => \A s \in CaSyncs : CaVouchesOf(s)

CaFacts == CaTypes /\ CaTags /\ CaPlaces /\ CaNamed /\ CaFound
CaInv ==
    /\ CaFacts /\ CaInvitedStays /\ CaAlone /\ CaLeft /\ CaSingle
    /\ CaUnderEdit /\ CaVouched /\ CaUnlinked /\ CaSyncVouches

-----------------------------------------------------------------------------
\* The order of the numbers, as a set of pairs.
CaSmaller == {d \in Nat \X Nat : d[1] < d[2]}

\* A nonempty set of numbers has a least member, which Min names.
LEMMA CaMinIn == ASSUME NEW S \in SUBSET Nat, S # {} PROVE Min(S) \in S
<1>1. IsWellFoundedOn(CaSmaller, Nat)
  BY NatLessThanWellFounded, Zenon DEF OpToRel, CaSmaller
<1>2. PICK x \in S : \A y \in S : ~(<<y, x>> \in CaSmaller)
  BY <1>1, WFMin
<1>3. ASSUME NEW y \in S PROVE x <= y
  <2>1. x \in Nat /\ y \in Nat /\ <<y, x>> \in Nat \X Nat
    OBVIOUS
  <2>2. ~(<<y, x>>[1] < <<y, x>>[2])
    BY <1>2, <2>1 DEF CaSmaller
  <2> QED BY <2>1, <2>2
<1>4. \E z \in S : \A y \in S : z <= y
  BY <1>3
<1> QED BY <1>4, Zenon DEF Min

\* Nothing has happened at first.
LEMMA CaInitInv == CaInit => CaInv
<1> SUFFICES ASSUME CaInit PROVE CaInv
  OBVIOUS
<1>1. \A s \in CaSyncs : caSync[s] = CaIdleSync
  BY DEF CaInit
<1>2. CaTypes
  <2>1. CaIdleSync \in CaSyncType /\ CaIdleEdit \in CaEditType
    BY DEF CaIdleSync, CaSyncType, CaIdleEdit, CaEditType, CaNull
  <2> QED BY <2>1 DEF CaInit, CaTypes, CaNull
<1>3. CaTags /\ CaPlaces /\ CaNamed /\ CaFound
  BY <1>1 DEF CaInit, CaTags, CaPlaces, CaEditPlace, CaPlaceOf, CaNamed, CaFound, CaFoundOf,
      CaIdleSync,
     CaIdleEdit, CaTakes, CaNull, CaCalendarIds
<1>4. CaInvitedStays /\ CaAlone /\ CaLeft /\ CaSingle
  BY <1>1 DEF CaInit, CaInvitedStays, CaAlone, CaAloneOf, CaLeft, CaSingle, CaOnce, CaSingleOf,
      CaIdleSync,
     CaIdleEdit, CaTakes
<1>5. CaUnderEdit /\ CaVouched /\ CaUnlinked
  BY DEF CaInit, CaUnderEdit, CaVouched, CaUnlinked, CaIdleEdit
<1>6. CaSyncVouches
  BY <1>1 DEF CaInit, CaSyncVouches, CaVouchesOf, CaIdleSync, CaTakes, CaStores, CaNull
<1> QED BY <1>2, <1>3, <1>4, <1>5, <1>6 DEF CaInv, CaFacts

-----------------------------------------------------------------------------
(* The server. *)

\* A change on the server is newer than every tag and token.
LEMMA CaStamped ==
    ASSUME CaTypes, CaTags, NEW u \in CaUids, NEW live \in BOOLEAN, CaStamp(u, live)
    PROVE  /\ caTag' = caTag + 1 /\ caTag' \in Nat
           /\ caServer' \in [CaUids -> [live : BOOLEAN, at : Nat]]
           /\ \A v \in CaUids : v # u => caServer'[v] = caServer[v]
           /\ caServer'[u].live = live /\ caServer'[u].at = caTag'
           /\ \A v \in CaUids : caServer[v].at <= caServer'[v].at /\ caServer'[v].at <= caTag'
                                /\ (caServer[v].at # 0 => caServer'[v].at # 0)
<1> DEFINE r == [live |-> live, at |-> caTag + 1]
<1>1. r \in [live : BOOLEAN, at : Nat] /\ r.live = live /\ r.at = caTag + 1 /\ caTag \in Nat
  BY DEF CaTypes
<1>2. caServer' = [caServer EXCEPT ![u] = r] /\ caTag' = caTag + 1
  BY DEF CaStamp
<1> HIDE DEF r
<1>3. /\ caServer' \in [CaUids -> [live : BOOLEAN, at : Nat]] /\ caServer'[u] = r
      /\ \A v \in CaUids : v # u => caServer'[v] = caServer[v]
  BY <1>1, <1>2 DEF CaTypes
<1>4. \A v \in CaUids : caServer[v].at \in Nat /\ caServer[v].at <= caTag
  BY DEF CaTypes, CaTags
<1> QED BY <1>1, <1>2, <1>3, <1>4

\* After a change what is vouched for was, and has not changed.
LEMMA CaStampCovers ==
    ASSUME CaTypes, CaTags, NEW u \in CaUids, NEW live \in BOOLEAN, CaStamp(u, live),
           UNCHANGED <<caKind, caToken>>, NEW c \in CaCalendarIds, NEW v \in CaUids,
               CaCovered(c, v)'
    PROVE  v # u /\ CaCovered(c, v) /\ caServer'[v] = caServer[v]
<1>1. caToken[0] <= caTag /\ caToken[c] <= caTag /\ caToken[0] \in Nat /\ caToken[c] \in Nat
  BY DEF CaTypes, CaTags
<1> QED BY <1>1, CaStamped DEF CaCovered, CaTypes

\* CaRemote: another client's change.
LEMMA CaRemoteInv == ASSUME CaInv, NEW u \in CaUids, CaRemote(u) PROVE CaInv'
<1> USE DEF CaInv, CaFacts
<1>1. PICK live \in BOOLEAN : (caServer[u].live \/ live) /\ CaStamp(u, live)
  BY DEF CaRemote
<1>2. /\ caServer[u].live \/ caServer[u].at = 0
      /\ UNCHANGED <<caKind, caAccount, caCals, caToken, caRows, caLast, caSync, caEdit, caStatus,
           caHist>>
  BY DEF CaRemote
<1>3. /\ caTag' = caTag + 1 /\ caTag' \in Nat /\ caTag \in Nat
      /\ caServer' \in [CaUids -> [live : BOOLEAN, at : Nat]]
      /\ \A v \in CaUids : v # u => caServer'[v] = caServer[v]
      /\ caServer'[u].live = live /\ caServer'[u].at = caTag'
      /\ \A v \in CaUids : caServer[v].at <= caServer'[v].at /\ caServer'[v].at <= caTag'
                           /\ (caServer[v].at # 0 => caServer'[v].at # 0)
  BY <1>1, CaStamped DEF CaTypes
<1>4. \A c \in CaCalendarIds, v \in CaUids : CaCovered(c, v)' =>
        v # u /\ CaCovered(c, v) /\ caServer'[v] = caServer[v]
  BY <1>1, <1>2, CaStampCovers
<1>5. \A v, k : caServer'[v] = caServer[v] => (CaSaved(v, k)' <=> CaSaved(v, k))
  BY <1>2 DEF CaSaved
<1>6. \A v : CaOccurrences(v)' = CaOccurrences(v)
  BY <1>2 DEF CaOccurrences, CaRecurs
<1>7. \A s \in CaSyncs : CaPending(s)' = CaPending(s)
  BY <1>2 DEF CaPending
<1>8. CaTypes'
  BY <1>2, <1>3 DEF CaTypes
<1>9. CaTags'
  BY <1>2, <1>3 DEF CaTags, CaTypes
<1>10. CaPlaces'
  BY <1>2, <1>3 DEF CaPlaces, CaEditPlace, CaPlaceOf, CaTakes, CaTypes, CaSyncType, CaEditType
<1>11. CaNamed'
  <2>1. \A r \in caRows : r.key[1] \in CaUids
    BY DEF CaTypes, CaRowType, CaKeys
  <2> QED BY <1>2, <1>3, <2>1 DEF CaNamed
<1>12. CaFound'
  <2>1. \A s \in CaSyncs : \A e \in caSync[s].todo : e.key[1] \in CaUids /\ e.at \in Nat
    BY DEF CaTypes, CaSyncType, CaEventType, CaKeys
  <2>2. \A v \in CaUids : caServer[v].at \in Nat /\ caServer'[v].at \in Nat
    BY <1>3 DEF CaTypes
  <2> QED BY <1>2, <1>3, <1>6, <1>7, <2>1, <2>2 DEF CaFound, CaFoundOf
<1>13. CaInvitedStays' /\ CaAlone' /\ CaLeft' /\ CaUnlinked'
  BY <1>2 DEF CaInvitedStays, CaAlone, CaAloneOf, CaTakes, CaLeft, CaUnlinked
<1>14. CaSingle'
  BY <1>2, <1>7 DEF CaSingle, CaOnce, CaSingleOf, CaMatching
<1>15. CaUnderEdit'
  <2> SUFFICES ASSUME "raced" \notin caHist PROVE CaUnderEdit'
    BY <1>2 DEF CaUnderEdit
  <2>1. caEdit.pc \in {"update", "delete"} => caEdit.uid \in CaUids
    BY DEF CaPlaces, CaEditPlace
  <2> QED BY <1>2, <1>3, <1>4, <2>1 DEF CaUnderEdit
<1>16. CaVouched'
  <2> SUFFICES ASSUME "raced" \notin caHist, "dropped" \notin caHist,
                      caEdit.pc \notin {"calendars", "account"},
                      NEW c \in caCals, NEW v \in CaUids, CaCovered(c, v)', caServer'[v].live,
                      NEW k \in CaOccurrences(v)
               PROVE  CaSaved(v, k)'
    BY <1>2, <1>6 DEF CaVouched
  <2>1. c \in CaCalendarIds
    BY DEF CaTypes
  <2>2. CaCovered(c, v) /\ caServer'[v] = caServer[v]
    BY <1>4, <2>1
  <2> QED BY <1>5, <2>2 DEF CaVouched
<1>17. CaSyncVouches'
  <2> SUFFICES ASSUME "raced" \notin caHist, "dropped" \notin caHist, NEW s \in CaSyncs
               PROVE  CaVouchesOf(s)'
    BY <1>2 DEF CaSyncVouches
  <2>1. CaVouchesOf(s)
    BY DEF CaSyncVouches
  <2>2. caSync[s].tag <= caTag /\ caSync[s].tag \in Nat
    BY DEF CaPlaces, CaEditPlace, CaPlaceOf, CaTypes, CaSyncType
  <2>3. ASSUME NEW c \in caCals PROVE caToken'[c] # caTag'
    BY <1>2, <1>3, <2>3 DEF CaTags, CaTypes
  <2>4. ASSUME NEW e \in caSync[s].todo, CaStores(s), caKind = "graph"
        PROVE  /\ e.at > caToken[0]
               /\ caServer'[e.key[1]].at <= caSync[s].tag => e.at = caServer'[e.key[1]].at
    <3>1. e.key[1] \in CaUids
      BY DEF CaTypes, CaSyncType, CaEventType, CaKeys
    <3>2. CaStoring(s)
      BY <2>1, <2>4 DEF CaVouchesOf
    <3> QED BY <1>3, <2>2, <2>4, <3>1, <3>2 DEF CaStoring
  <2>5. ASSUME NEW v \in CaUids, NEW k \in CaOccurrences(v), CaCovers(s, v)', caServer'[v].live,
               CaStores(s)
        PROVE  [key |-> k, at |-> caServer'[v].at] \in caSync[s].todo \/ CaSaved(v, k)'
    <3>1. caKind = "graph" /\ v # u
      BY <1>2, <1>3, <2>2, <2>5 DEF CaCovers
    <3>2. caServer'[v] = caServer[v] /\ CaCovers(s, v)
      BY <1>2, <1>3, <2>5, <3>1 DEF CaCovers
    <3>3. CaStoring(s)
      BY <2>1, <2>5 DEF CaVouchesOf
    <3> QED BY <1>5, <2>5, <3>2, <3>3 DEF CaStoring
  <2>6. caSync[s].tag # caTag'
    BY <1>3, <2>2
  <2>7. CaStores(s) => CaStoring(s)'
    BY <1>2, <1>6, <2>3, <2>4, <2>5, <2>6 DEF CaStoring
  <2> QED BY <1>2, <2>1, <2>7 DEF CaVouchesOf, CaTakes, CaStores
<1> QED BY <1>8, <1>9, <1>10, <1>11, <1>12, <1>13, <1>14, <1>15, <1>16, <1>17

-----------------------------------------------------------------------------
(* The synchronisation. *)

\* A step of one synchronisation that writes nothing keeps the invariant if what the
\* invariant says of its new place holds.
LEMMA CaSyncInv ==
    ASSUME CaInv, NEW s \in CaSyncs, NEW r \in CaSyncType, caSync' = [caSync EXCEPT ![s] = r],
           UNCHANGED <<caKind, caServer, caTag, caAccount, caCals, caToken, caRows, caLast,
                       caEdit, caStatus>>,
           caHist' \in {caHist, caHist \cup {"raced"}},
           CaPlaceOf(s)', CaFoundOf(s)',
           "raced" \notin caHist' => CaAloneOf(s)' /\ CaSingleOf(s)',
           "raced" \notin caHist' /\ "dropped" \notin caHist' => CaVouchesOf(s)'
    PROVE  CaInv'
<1> USE DEF CaInv, CaFacts
<1>1. caSync' \in [CaSyncs -> CaSyncType] /\ caSync'[s] = r
      /\ \A t \in CaSyncs : t # s => caSync'[t] = caSync[t]
  BY DEF CaTypes
<1>2. \A t \in CaSyncs : t # s => CaPending(t)' = CaPending(t)
  BY <1>1 DEF CaPending
<1>3. CaTypes' /\ CaTags' /\ CaNamed'
  BY <1>1 DEF CaTypes, CaTags, CaNamed
<1>4. CaPlaces'
  BY <1>1 DEF CaPlaces, CaEditPlace, CaPlaceOf, CaTakes
<1>5. CaFound'
  <2>1. \A u : CaOccurrences(u)' = CaOccurrences(u)
    BY DEF CaOccurrences, CaRecurs
  <2>2. ASSUME NEW t \in CaSyncs, t # s PROVE CaFoundOf(t)'
    <3>1. CaFoundOf(t)
      BY DEF CaFound
    <3>2. caSync'[t] = caSync[t] /\ CaPending(t)' = CaPending(t)
      BY <1>1, <1>2, <2>2
    <3> QED BY <2>1, <3>1, <3>2 DEF CaFoundOf
  <2> QED BY <2>2 DEF CaFound
<1>6. CaInvitedStays'
  BY DEF CaInvitedStays
<1>7. CaAlone'
  <2> SUFFICES ASSUME "raced" \notin caHist' PROVE CaAlone'
    BY DEF CaAlone
  <2>1. ASSUME NEW t \in CaSyncs, t # s PROVE CaAloneOf(t)'
    <3>1. CASE caSync[t] = CaIdleSync
      BY <1>1, <2>1, <3>1 DEF CaAloneOf, CaIdleSync, CaTakes
    <3>2. CASE caSync[t] # CaIdleSync
      <4>1. CaAloneOf(t)
        BY DEF CaAlone
      <4>2. caSync'[s] = CaIdleSync
        BY <1>1, <2>1, <3>2 DEF CaAloneOf
      <4> QED BY <1>1, <2>1, <3>2, <4>1, <4>2 DEF CaAloneOf, CaTakes
    <3> QED BY <3>1, <3>2
  <2> QED BY <2>1 DEF CaAlone
<1>8. CaLeft'
  BY DEF CaLeft
<1>9. CaSingle'
  BY <1>1, <1>2 DEF CaSingle, CaOnce, CaSingleOf, CaMatching
<1>10. CaUnderEdit' /\ CaVouched' /\ CaUnlinked'
  BY DEF CaUnderEdit, CaVouched, CaUnlinked, CaCovered, CaSaved, CaOccurrences, CaRecurs
<1>11. CaSyncVouches'
  <2> SUFFICES ASSUME "raced" \notin caHist', "dropped" \notin caHist', NEW t \in CaSyncs, t # s
               PROVE  CaVouchesOf(t)'
    BY DEF CaSyncVouches
  <2>1. CaVouchesOf(t)
    BY DEF CaSyncVouches
  <2> QED BY <1>1, <2>1 DEF CaVouchesOf, CaTakes, CaStores, CaStoring, CaCovers, CaSaved,
             CaOccurrences, CaRecurs
<1> QED BY <1>3, <1>4, <1>5, <1>6, <1>7, <1>8, <1>9, <1>10, <1>11

\* After an overlap nothing is promised but the facts and the invitation.
LEMMA CaRacedInv ==
    ASSUME "raced" \in caHist'
    PROVE  CaAlone' /\ CaLeft' /\ CaSingle' /\ CaUnderEdit' /\ CaVouched' /\ CaUnlinked'
           /\ CaSyncVouches'
<1>1. CaAlone' /\ CaLeft'
  BY DEF CaAlone, CaLeft
<1>2. CaSingle' /\ CaUnderEdit'
  BY DEF CaSingle, CaOnce, CaUnderEdit
<1>3. CaVouched' /\ CaUnlinked'
  BY DEF CaVouched, CaUnlinked
<1>4. CaSyncVouches'
  BY DEF CaSyncVouches
<1> QED BY <1>1, <1>2, <1>3, <1>4

\* What a step that changes some fields of one synchronisation leaves of it.
LEMMA CaSyncTyped ==
    ASSUME CaTypes, NEW s \in CaSyncs
    PROVE  /\ caSync[s] \in CaSyncType /\ caSync[s].tag \in Nat /\ caSync[s].found \in Nat
           /\ caSync[s].cal \in CaCalendarIds \cup {CaNull} /\ caSync[s].todo \subseteq CaEventType
BY DEF CaTypes, CaSyncType

\* A step of a synchronisation is possible after its start only.
LEMMA CaBusyAlone ==
    ASSUME CaInv, "raced" \notin caHist, NEW s \in CaSyncs, caSync[s].pc # "idle"
    PROVE  /\ caAccount /\ caEdit = CaIdleEdit /\ \A t \in CaSyncs : t # s => caSync[t] = CaIdleSync
           /\ CaTakes(s) => caCals \subseteq {caSync[s].cal}
           /\ caSync[s].pc = "insert" => caCals = {}
BY DEF CaInv, CaAlone, CaAloneOf, CaIdleSync

\* CaBeginSync: the synchronisation starts with the account's delta link.
LEMMA CaBeginSyncInv == ASSUME CaInv, NEW s \in CaSyncs, CaBeginSync(s) PROVE CaInv'
<1> DEFINE r == [CaIdleSync EXCEPT !.pc = "calendar", !.tag = caToken[0]]
<1> USE DEF CaInv, CaFacts
<1>1. r \in CaSyncType /\ r.pc = "calendar" /\ r.tag = caToken[0] /\ r.cal = CaNull
      /\ r.todo = {} /\ r.found = CaNull
  <2>1. CaIdleSync \in CaSyncType /\ CaIdleSync.cal = CaNull /\ CaIdleSync.todo = {}
        /\ CaIdleSync.found = CaNull
    BY DEF CaIdleSync, CaSyncType, CaNull
  <2>2. caToken[0] \in Nat
    BY DEF CaTypes
  <2> QED BY <2>1, <2>2 DEF CaSyncType
<1>2. caSync' = [caSync EXCEPT ![s] = r]
  <2>1. caSync' = [caSync EXCEPT ![s] = [caSync[s] EXCEPT !.pc = "calendar", !.tag = caToken[0]]]
    BY DEF CaBeginSync
  <2>2. caSync[s] = CaIdleSync
    BY DEF CaBeginSync
  <2> QED BY <2>1, <2>2
<1> HIDE DEF r
<1>3. /\ UNCHANGED <<caKind, caServer, caTag, caAccount, caCals, caToken, caRows, caLast, caEdit,
           caStatus>>
      /\ caHist' = caHist \cup CaRacing /\ caAccount
  BY DEF CaBeginSync, CaSyncRest, CaBegins
<1>4. caSync'[s] = r /\ \A t \in CaSyncs : t # s => caSync'[t] = caSync[t]
  BY <1>2 DEF CaTypes
<1>5. CaPlaceOf(s)' /\ CaFoundOf(s)'
  BY <1>1, <1>3, <1>4 DEF CaPlaceOf, CaFoundOf, CaTakes, CaTags, CaNull, CaTypes
<1>6. "raced" \notin caHist' => CaAloneOf(s)'
  BY <1>1, <1>3, <1>4 DEF CaRacing, CaBusy, CaAloneOf, CaTakes
<1>7. CaSingleOf(s)' /\ CaVouchesOf(s)'
  BY <1>1, <1>3, <1>4 DEF CaSingleOf, CaVouchesOf, CaTakes, CaStores
<1>8. caHist' \in {caHist, caHist \cup {"raced"}}
  BY <1>3 DEF CaRacing
<1> QED BY <1>1, <1>2, <1>3, <1>5, <1>6, <1>7, <1>8, CaSyncInv

\* CaSyncFails: what had been stored stays.
LEMMA CaSyncFailsInv == ASSUME CaInv, NEW s \in CaSyncs, CaEnds(s),
           UNCHANGED <<caKind, caServer, caTag, caAccount, caCals, caToken, caRows, caLast,
                       caEdit, caStatus, caHist>>
    PROVE  CaInv'
<1> USE DEF CaInv, CaFacts
<1>1. CaIdleSync \in CaSyncType /\ caSync' = [caSync EXCEPT ![s] = CaIdleSync]
  BY DEF CaEnds, CaIdleSync, CaSyncType, CaNull
<1>2. caSync'[s] = CaIdleSync
  BY <1>1 DEF CaTypes
<1>3. CaPlaceOf(s)' /\ CaFoundOf(s)'
  BY <1>2 DEF CaPlaceOf, CaFoundOf, CaTakes, CaIdleSync, CaNull, CaTypes
<1>4. CaAloneOf(s)' /\ CaSingleOf(s)' /\ CaVouchesOf(s)'
  BY <1>2 DEF CaAloneOf, CaSingleOf, CaVouchesOf, CaTakes, CaStores, CaIdleSync
<1> QED BY <1>1, <1>3, <1>4, CaSyncInv

\* CaSelectCalendar: the one calendar there is, unless requests overlapped.
LEMMA CaSelectCalendarInv == ASSUME CaInv, NEW s \in CaSyncs, CaSelectCalendar(s) PROVE CaInv'
<1> USE DEF CaInv, CaFacts
<1>0. /\ caSync[s].pc = "calendar"
      /\ UNCHANGED <<caKind, caServer, caTag, caAccount, caCals, caToken, caRows, caLast, caEdit,
                     caStatus, caHist>>
  BY DEF CaSelectCalendar, CaSyncRest
<1>1. PICK r \in CaSyncType :
        /\ caSync' = [caSync EXCEPT ![s] = r]
        /\ r.tag = caSync[s].tag /\ r.todo = caSync[s].todo /\ r.found = caSync[s].found
        /\ IF caCals = {} THEN r.pc = "insert" ELSE r.pc = "ctag" /\ r.cal \in caCals
  <2>1. CASE caCals = {}
    <3> DEFINE r == [caSync[s] EXCEPT !.pc = "insert"]
    <3>1. caSync' = [caSync EXCEPT ![s] = r]
      BY <2>1 DEF CaSelectCalendar, CaGoes
    <3>2. r \in CaSyncType /\ r.tag = caSync[s].tag /\ r.todo = caSync[s].todo
          /\ r.found = caSync[s].found /\ r.pc = "insert"
      BY CaSyncTyped DEF CaSyncType
    <3> QED BY <2>1, <3>1, <3>2
  <2>2. CASE caCals # {}
    <3> DEFINE c == Min(caCals)
               r == [caSync[s] EXCEPT !.pc = "ctag", !.cal = c]
    <3>0. c \in caCals /\ c \in CaCalendarIds
      <4>1. caCals \in SUBSET Nat /\ caCals \subseteq CaCalendarIds
        BY DEF CaTypes, CaCalendarIds
      <4>2. Min(caCals) \in caCals
        BY <2>2, <4>1, CaMinIn
      <4> QED BY <4>1, <4>2
    <3>1. caSync' = [caSync EXCEPT ![s] = r]
      BY <2>2 DEF CaSelectCalendar
    <3> HIDE DEF c
    <3>2. r \in CaSyncType /\ r.tag = caSync[s].tag /\ r.todo = caSync[s].todo
          /\ r.found = caSync[s].found /\ r.pc = "ctag" /\ r.cal = c
      BY <3>0, CaSyncTyped DEF CaSyncType
    <3> QED BY <2>2, <3>0, <3>1, <3>2
  <2> QED BY <2>1, <2>2
<1>2. caSync'[s] = r /\ \A t \in CaSyncs : t # s => caSync'[t] = caSync[t]
  BY <1>1 DEF CaTypes
<1>3. caSync[s].found = CaNull /\ caSync[s].tag <= caTag
  BY <1>0 DEF CaPlaces, CaEditPlace, CaPlaceOf
<1>4. CaPlaceOf(s)' /\ CaFoundOf(s)'
  <2>1. CaFoundOf(s)
    BY DEF CaFound
  <2>2. r.cal \in caCals => r.cal # CaNull
    BY DEF CaTypes, CaCalendarIds, CaNull
  <2>3. CaPlaceOf(s)'
    BY <1>0, <1>1, <1>2, <1>3, <2>2 DEF CaPlaceOf, CaTakes
  <2>4. CaFoundOf(s)'
    BY <1>0, <1>1, <1>2, <1>3, <2>1 DEF CaFoundOf, CaOccurrences, CaRecurs
  <2> QED BY <2>3, <2>4
<1>5. ASSUME "raced" \notin caHist PROVE CaAloneOf(s)' /\ CaSingleOf(s)'
  <2>1. \A c, d \in caCals : c = d
    BY <1>5 DEF CaAlone
  <2>2. caAccount /\ caEdit = CaIdleEdit /\ \A t \in CaSyncs : t # s => caSync[t] = CaIdleSync
    BY <1>0, <1>5, CaBusyAlone
  <2> QED BY <1>0, <1>1, <1>2, <2>1, <2>2 DEF CaAloneOf, CaSingleOf, CaTakes
<1>6. ASSUME "raced" \notin caHist, "dropped" \notin caHist PROVE CaVouchesOf(s)'
  BY <1>0, <1>1, <1>2, <1>6 DEF CaSyncVouches, CaVouchesOf, CaTakes, CaStores
<1> QED BY <1>0, <1>1, <1>4, <1>5, <1>6, CaSyncInv

\* CaReadCtag: nothing is read, or events that come after the ctag.
LEMMA CaReadCtagInv == ASSUME CaInv, NEW s \in CaSyncs, CaReadCtag(s) PROVE CaInv'
<1> USE DEF CaInv, CaFacts
<1>0. /\ caSync[s].pc = "ctag"
      /\ UNCHANGED <<caKind, caServer, caTag, caAccount, caCals, caToken, caRows, caLast, caEdit,
                     caStatus, caHist>>
  BY DEF CaReadCtag, CaSyncRest
<1>1. CASE CaEnds(s)
  BY <1>0, <1>1, CaSyncFailsInv
<1>2. ASSUME NEW r \in CaSyncType, caSync' = [caSync EXCEPT ![s] = r],
             r.todo = caSync[s].todo, r.found = caSync[s].found, r.cal = caSync[s].cal,
                 r.pc = "pull",
             r.tag <= caTag, caKind # "caldav" => r.tag = caSync[s].tag
      PROVE  CaInv'
  <2>2. caSync'[s] = r /\ \A t \in CaSyncs : t # s => caSync'[t] = caSync[t]
    BY <1>2 DEF CaTypes
  <2>3. caSync[s].found = CaNull /\ caSync[s].cal # CaNull
    BY <1>0 DEF CaPlaces, CaEditPlace, CaPlaceOf, CaTakes
  <2>4. CaPlaceOf(s)' /\ CaFoundOf(s)'
    <3>1. CaFoundOf(s)
      BY DEF CaFound
    <3> QED BY <1>0, <1>2, <2>2, <2>3, <3>1 DEF CaPlaceOf, CaFoundOf, CaTakes, CaOccurrences,
        CaRecurs
  <2>5. ASSUME "raced" \notin caHist PROVE CaAloneOf(s)' /\ CaSingleOf(s)'
    <3>2. /\ caAccount /\ caEdit = CaIdleEdit /\ \A t \in CaSyncs : t # s => caSync[t] = CaIdleSync
          /\ caCals \subseteq {caSync[s].cal}
      BY <1>0, <2>5, CaBusyAlone DEF CaTakes
    <3>3. CaAloneOf(s)'
      BY <1>0, <1>2, <2>2, <3>2 DEF CaAloneOf, CaTakes
    <3>4. CaSingleOf(s)'
      BY <1>2, <2>2 DEF CaSingleOf
    <3> QED BY <3>3, <3>4
  <2>6. ASSUME "raced" \notin caHist, "dropped" \notin caHist PROVE CaVouchesOf(s)'
    BY <1>0, <1>2, <2>2, <2>6 DEF CaSyncVouches, CaVouchesOf, CaTakes, CaStores
  <2> QED BY <1>0, <1>2, <2>4, <2>5, <2>6, CaSyncInv
<1>3. CASE CaGoes(s, "pull") /\ caKind # "caldav"
  <2> DEFINE r == [caSync[s] EXCEPT !.pc = "pull"]
  <2>1. caSync' = [caSync EXCEPT ![s] = r]
    BY <1>3 DEF CaGoes
  <2>2. r \in CaSyncType /\ r.tag = caSync[s].tag /\ r.todo = caSync[s].todo
        /\ r.found = caSync[s].found /\ r.pc = "pull" /\ r.cal = caSync[s].cal
    BY CaSyncTyped DEF CaSyncType
  <2>3. caSync[s].tag <= caTag
    BY DEF CaPlaces, CaEditPlace, CaPlaceOf
  <2> HIDE DEF r
  <2> QED BY <1>2, <1>3, <2>1, <2>2, <2>3
<1>4. ASSUME NEW tag \in {caTag, CaNull}, caKind = "caldav",
             caSync' = [caSync EXCEPT ![s].pc = "pull", ![s].tag = tag]
      PROVE  CaInv'
  <2> DEFINE r == [caSync[s] EXCEPT !.pc = "pull", !.tag = tag]
  <2>1. caSync' = [caSync EXCEPT ![s] = r]
    BY <1>4
  <2>2. tag \in Nat /\ tag <= caTag
    BY DEF CaTypes, CaNull
  <2>3. r \in CaSyncType /\ r.tag = tag /\ r.todo = caSync[s].todo
        /\ r.found = caSync[s].found /\ r.pc = "pull" /\ r.cal = caSync[s].cal
    BY <2>2, CaSyncTyped DEF CaSyncType
  <2> HIDE DEF r
  <2> QED BY <1>2, <1>4, <2>1, <2>2, <2>3
<1> QED BY <1>1, <1>3, <1>4 DEF CaReadCtag


\* The events a pull returns are those of resources, as they are.
LEMMA CaPulledEvents ==
    ASSUME CaTypes, CaTags, NEW token \in Nat, NEW e \in CaPulled(token)
    PROVE  /\ e \in CaEventType /\ e.key[1] \in CaUids /\ e.at = caServer[e.key[1]].at /\ e.at # 0
           /\ caKind = "caldav" => e.key \in CaOccurrences(e.key[1])
           /\ caKind = "graph" => e.at > token
<1>1. \A u \in CaUids : caServer[u].at \in Nat /\ (caServer[u].live => caServer[u].at # 0)
  BY DEF CaTypes, CaTags
<1>2. CASE caKind = "graph"
  <2>1. PICK u \in CaUids : /\ caServer[u].at > token
                            /\ e = [key |-> IF caServer[u].live THEN <<u, 0>> ELSE CaRemoved(u),
                                    at |-> caServer[u].at]
    BY <1>2 DEF CaPulled, CaDelta
  <2>2. e.key = <<u, 0>> \/ e.key = <<u, 9>>
    BY <2>1 DEF CaRemoved
  <2>3. e.key[1] = u /\ e.key \in CaKeys /\ e.at = caServer[u].at
    BY <2>1, <2>2 DEF CaKeys
  <2>4. e \in CaEventType
    BY <1>1, <2>1, <2>3 DEF CaEventType
  <2> QED BY <1>1, <1>2, <2>1, <2>3, <2>4
<1>3. CASE caKind # "graph"
  <2>1. PICK u \in CaUids : /\ caServer[u].live
                            /\ \E k \in CaOccurrences(u) : e = [key |-> k, at |-> caServer[u].at]
    BY <1>3 DEF CaPulled, CaCollection
  <2>2. PICK k \in CaOccurrences(u) : e = [key |-> k, at |-> caServer[u].at]
    BY <2>1
  <2>3. k \in CaKeys /\ k[1] = u
    BY DEF CaOccurrences, CaKeys
  <2>4. e \in CaEventType /\ e.key = k /\ e.at = caServer[u].at
    BY <1>1, <2>2, <2>3 DEF CaEventType
  <2> QED BY <1>1, <1>3, <2>1, <2>3, <2>4
<1> QED BY <1>2, <1>3

\* A pull after the token vouches for what it covered, with what has changed since.
LEMMA CaPulledCovers ==
    ASSUME CaTypes, NEW token \in Nat, NEW u \in CaUids, caServer[u].live,
           NEW k \in CaOccurrences(u),
           caKind = "graph" => caServer[u].at > token
    PROVE  [key |-> k, at |-> caServer[u].at] \in CaPulled(token)
<1>1. CASE caKind = "graph"
  <2>1. k = <<u, 0>>
    BY <1>1 DEF CaOccurrences, CaRecurs
  <2> QED BY <1>1, <2>1 DEF CaPulled, CaDelta
<1>2. CASE caKind # "graph"
  <2>1. {[key |-> j, at |-> caServer[u].at] : j \in CaOccurrences(u)} \subseteq CaCollection
    BY DEF CaCollection
  <2> QED BY <1>2, <2>1 DEF CaPulled
<1> QED BY <1>1, <1>2

\* CaPull: the events are to be stored.
LEMMA CaPullInv == ASSUME CaInv, NEW s \in CaSyncs, CaPull(s) PROVE CaInv'
<1> DEFINE todo == CaPulled(caSync[s].tag)
           tag == IF caKind = "graph" THEN caTag ELSE caSync[s].tag
           r == [caSync[s] EXCEPT !.pc = "store", !.todo = todo, !.tag = tag]
<1> USE DEF CaInv, CaFacts
<1>0. /\ caSync[s].pc = "pull"
      /\ UNCHANGED <<caKind, caServer, caTag, caAccount, caCals, caToken, caRows, caLast, caEdit,
                     caStatus, caHist>>
  BY DEF CaPull, CaSyncRest
<1>1. caSync' = [caSync EXCEPT ![s] = r]
  BY DEF CaPull
<1>2. /\ caSync[s].found = CaNull /\ caSync[s].cal # CaNull
      /\ caSync[s].tag <= caTag /\ caSync[s].tag \in Nat /\ caTag \in Nat
  BY <1>0, CaSyncTyped DEF CaPlaces, CaEditPlace, CaPlaceOf, CaTakes, CaTypes
<1>3. \A e \in todo :
        /\ e \in CaEventType /\ e.key[1] \in CaUids /\ e.at = caServer[e.key[1]].at /\ e.at # 0
        /\ caKind = "caldav" => e.key \in CaOccurrences(e.key[1])
        /\ caKind = "graph" => e.at > caSync[s].tag
  BY <1>2, CaPulledEvents
<1>4. tag \in Nat /\ tag <= caTag /\ (caKind = "graph" => tag = caTag)
      /\ (caKind # "graph" => tag = caSync[s].tag)
  BY <1>2
<1>5. \A u \in CaUids : caServer[u].live /\ (caKind = "graph" => caServer[u].at > caSync[s].tag) =>
        \A k \in CaOccurrences(u) : [key |-> k, at |-> caServer[u].at] \in todo
  BY <1>2, CaPulledCovers
<1> HIDE DEF todo, tag
<1>6. r \in CaSyncType /\ r.pc = "store" /\ r.todo = todo /\ r.tag = tag /\ r.found = CaNull
      /\ r.cal = caSync[s].cal
  BY <1>2, <1>3, <1>4, CaSyncTyped DEF CaSyncType
<1> HIDE DEF r
<1>7. caSync'[s] = r /\ \A t \in CaSyncs : t # s => caSync'[t] = caSync[t]
  BY <1>1 DEF CaTypes
<1>8. CaPlaceOf(s)'
  BY <1>0, <1>2, <1>4, <1>6, <1>7 DEF CaPlaceOf, CaTakes
<1>9. CaFoundOf(s)'
  <2>1. \A u : CaOccurrences(u)' = CaOccurrences(u)
    BY <1>0 DEF CaOccurrences, CaRecurs
  <2>2. \A u \in CaUids : caServer[u].at \in Nat
    BY DEF CaTypes
  <2> QED BY <1>0, <1>3, <1>6, <1>7, <2>1, <2>2 DEF CaFoundOf, CaNull, CaTypes
<1>10. ASSUME "raced" \notin caHist PROVE CaAloneOf(s)' /\ CaSingleOf(s)'
  <2>1. /\ caAccount /\ caEdit = CaIdleEdit /\ \A t \in CaSyncs : t # s => caSync[t] = CaIdleSync
        /\ caCals \subseteq {caSync[s].cal}
    BY <1>0, <1>10, CaBusyAlone DEF CaTakes
  <2>2. CaAloneOf(s)'
    BY <1>0, <1>6, <1>7, <2>1 DEF CaAloneOf, CaTakes
  <2>3. CaSingleOf(s)'
    BY <1>6, <1>7 DEF CaSingleOf
  <2> QED BY <2>2, <2>3
<1>11. ASSUME "raced" \notin caHist, "dropped" \notin caHist PROVE CaVouchesOf(s)'
  <2>1. /\ caKind = "graph" => caSync[s].tag = caToken[0]
        /\ caKind = "graph" => caSync[s].cal \in caCals
    BY <1>0, <1>11 DEF CaSyncVouches, CaVouchesOf, CaTakes
  <2>2. caEdit.pc = "idle"
    BY <1>0, <1>11, CaBusyAlone DEF CaIdleEdit
  <2>3. ASSUME NEW u \in CaUids, CaCovers(s, u)', caServer[u].live, NEW k \in CaOccurrences(u)
        PROVE  [key |-> k, at |-> caServer[u].at] \in todo \/ CaSaved(u, k)
    <3>1. CASE caKind = "graph" /\ ~(caServer[u].at > caSync[s].tag)
      <4>1. caSync[s].cal \in caCals /\ CaCovered(caSync[s].cal, u)
        BY <1>2, <2>1, <3>1 DEF CaCovered, CaTypes
      <4> QED BY <1>11, <2>2, <2>3, <4>1 DEF CaVouched
    <3> QED BY <1>5, <2>3, <3>1
  <2>4. \A u, k : CaSaved(u, k)' <=> CaSaved(u, k)
    BY <1>0 DEF CaSaved
  <2>5. \A u : CaOccurrences(u)' = CaOccurrences(u)
    BY <1>0 DEF CaOccurrences, CaRecurs
  <2>6. CaStoring(s)'
    BY <1>0, <1>3, <1>6, <1>7, <2>1, <2>3, <2>4, <2>5 DEF CaStoring
  <2> QED BY <1>0, <1>6, <1>7, <2>1, <2>6 DEF CaVouchesOf, CaTakes, CaStores
<1> QED BY <1>0, <1>1, <1>6, <1>8, <1>9, <1>10, <1>11, CaSyncInv

\* CaSelectEvent: the row of the event is looked up.
LEMMA CaSelectEventInv == ASSUME CaInv, NEW s \in CaSyncs, CaSelectEvent(s) PROVE CaInv'
<1> DEFINE same == CaMatching(caSync[s].cal, CaPending(s).key)
           found == IF same = {} THEN CaNull ELSE Min({q.id : q \in same})
           r == [caSync[s] EXCEPT !.pc = "write", !.found = found]
<1> USE DEF CaInv, CaFacts
<1>0. /\ caSync[s].pc = "store" /\ caSync[s].todo # {}
      /\ UNCHANGED <<caKind, caServer, caTag, caAccount, caCals, caToken, caRows, caLast, caEdit,
                     caStatus, caHist>>
  BY DEF CaSelectEvent, CaSyncRest
<1>1. caSync' = [caSync EXCEPT ![s] = r]
  BY DEF CaSelectEvent
<1>2. /\ same = {} => found = CaNull
      /\ same # {} => \E q \in same : q.id = found
  <2>1. ASSUME same # {} PROVE Min({q.id : q \in same}) \in {q.id : q \in same}
    <3>1. {q.id : q \in same} \in SUBSET Nat
      BY DEF CaMatching, CaTypes, CaRowType
    <3>2. {q.id : q \in same} # {}
      BY <2>1
    <3> QED BY <3>1, <3>2, CaMinIn
  <2> QED BY <2>1
<1>3. \A q \in same : q \in caRows /\ q.id \in Nat /\ q.id # CaNull /\ q.id <= caLast
                      /\ q.key = CaPending(s).key /\ q.cal = caSync[s].cal
  BY DEF CaMatching, CaTypes, CaRowType, CaNull, CaNamed
<1> HIDE DEF found
<1>4. /\ found \in Nat /\ found <= caLast
      /\ found = CaNull => same = {}
      /\ found # CaNull => \E q \in same : q.id = found
  BY <1>2, <1>3 DEF CaNull, CaTypes
<1>5. r \in CaSyncType /\ r.pc = "write" /\ r.todo = caSync[s].todo /\ r.tag = caSync[s].tag
      /\ r.found = found /\ r.cal = caSync[s].cal
  BY <1>4, CaSyncTyped DEF CaSyncType
<1> HIDE DEF r
<1>6. caSync'[s] = r /\ \A t \in CaSyncs : t # s => caSync'[t] = caSync[t]
  BY <1>1 DEF CaTypes
<1>7. CaPending(s)' = CaPending(s)
  BY <1>5, <1>6 DEF CaPending
<1>8. CaPlaceOf(s)'
  <2>1. CaPlaceOf(s)
    BY DEF CaPlaces, CaEditPlace
  <2> QED BY <1>0, <1>5, <1>6, <2>1 DEF CaPlaceOf, CaTakes
<1>9. CaFoundOf(s)'
  <2>1. \A u : CaOccurrences(u)' = CaOccurrences(u)
    BY <1>0 DEF CaOccurrences, CaRecurs
  <2>2. ASSUME found # CaNull, NEW q \in caRows, q.id = found
        PROVE  q.key = CaPending(s).key /\ q.cal = caSync[s].cal
    <3>1. PICK p \in same : p.id = found
      BY <1>4, <2>2
    <3>2. p = q
      BY <1>3, <2>2, <3>1 DEF CaNamed
    <3> QED BY <1>3, <3>1, <3>2
  <2>3. CaFoundOf(s)
    BY DEF CaFound
  <2> QED BY <1>0, <1>4, <1>5, <1>6, <1>7, <2>1, <2>2, <2>3 DEF CaFoundOf
<1>10. ASSUME "raced" \notin caHist PROVE CaAloneOf(s)' /\ CaSingleOf(s)'
  <2>1. /\ caAccount /\ caEdit = CaIdleEdit /\ \A t \in CaSyncs : t # s => caSync[t] = CaIdleSync
        /\ caCals \subseteq {caSync[s].cal}
    BY <1>0, <1>10, CaBusyAlone DEF CaTakes
  <2>2. CaAloneOf(s)'
    BY <1>0, <1>5, <1>6, <2>1 DEF CaAloneOf, CaTakes
  <2>3. CaSingleOf(s)'
    <3>1. CaMatching(caSync[s].cal, CaPending(s).key)' = same
      BY <1>0, <1>5, <1>6, <1>7 DEF CaMatching
    <3>2. found # CaNull => \E q \in caRows : q.id = found
      BY <1>3, <1>4
    <3> QED BY <1>0, <1>4, <1>5, <1>6, <3>1, <3>2 DEF CaSingleOf
  <2> QED BY <2>2, <2>3
<1>11. ASSUME "raced" \notin caHist, "dropped" \notin caHist PROVE CaVouchesOf(s)'
  <2>1. CaVouchesOf(s)
    BY <1>11 DEF CaSyncVouches
  <2>2. CaStoring(s)
    BY <1>0, <2>1 DEF CaVouchesOf, CaStores
  <2>3. \A u, k : CaSaved(u, k)' <=> CaSaved(u, k)
    BY <1>0 DEF CaSaved
  <2>4. \A u : (CaOccurrences(u)' = CaOccurrences(u)) /\ (CaCovers(s, u)' <=> CaCovers(s, u))
    BY <1>0, <1>5, <1>6 DEF CaOccurrences, CaRecurs, CaCovers
  <2>5. CaStoring(s)'
    BY <1>0, <1>5, <1>6, <2>2, <2>3, <2>4 DEF CaStoring
  <2> QED BY <1>0, <1>5, <1>6, <2>1, <2>5 DEF CaVouchesOf, CaTakes, CaStores
<1> QED BY <1>0, <1>1, <1>5, <1>8, <1>9, <1>10, <1>11, CaSyncInv

\* CaInsertCalendar: there was none, unless requests overlapped.
LEMMA CaInsertCalendarInv == ASSUME CaInv, NEW s \in CaSyncs, CaInsertCalendar(s) PROVE CaInv'
<1> DEFINE id == Min(CaCalendarIds \ caCals)
           r == [caSync[s] EXCEPT !.pc = "ctag", !.cal = id]
<1> USE DEF CaInv, CaFacts
<1>0. /\ caSync[s].pc = "insert" /\ caCals # CaCalendarIds /\ caCals' = caCals \cup {id}
      /\ UNCHANGED <<caKind, caServer, caTag, caAccount, caToken, caRows, caLast, caEdit, caStatus,
                     caHist>>
  BY DEF CaInsertCalendar, CaSyncRest
<1>1. caSync' = [caSync EXCEPT ![s] = r]
  BY DEF CaInsertCalendar
<1>2. id \in CaCalendarIds \ caCals
  <2>1. CaCalendarIds \ caCals \in SUBSET Nat
    BY DEF CaCalendarIds
  <2>2. CaCalendarIds \ caCals # {}
    BY <1>0 DEF CaTypes
  <2> QED BY <2>1, <2>2, CaMinIn
<1> HIDE DEF id
<1>3. id \in CaCalendarIds /\ id \notin caCals /\ id # CaNull
  BY <1>2 DEF CaCalendarIds, CaNull
<1>4. r \in CaSyncType /\ r.pc = "ctag" /\ r.cal = id /\ r.tag = caSync[s].tag
      /\ r.todo = caSync[s].todo /\ r.found = caSync[s].found
  BY <1>3, CaSyncTyped DEF CaSyncType
<1> HIDE DEF r
<1>5. caSync' \in [CaSyncs -> CaSyncType] /\ caSync'[s] = r
      /\ \A t \in CaSyncs : t # s => caSync'[t] = caSync[t]
  BY <1>1, <1>4 DEF CaTypes
<1>6. \A t \in CaSyncs : CaPending(t)' = CaPending(t)
  BY <1>4, <1>5 DEF CaPending
<1>7. \A u : CaOccurrences(u)' = CaOccurrences(u)
  BY <1>0 DEF CaOccurrences, CaRecurs
<1>8. CaTypes' /\ CaTags' /\ CaNamed' /\ CaInvitedStays'
  BY <1>0, <1>3, <1>5 DEF CaTypes, CaTags, CaNamed, CaInvitedStays
<1>9. CaPlaces'
  <2>1. CaPlaceOf(s)
    BY DEF CaPlaces, CaEditPlace
  <2>2. CaPlaceOf(s)'
    BY <1>0, <1>3, <1>4, <1>5, <2>1 DEF CaPlaceOf, CaTakes
  <2>3. \A t \in CaSyncs : t # s => CaPlaceOf(t)'
    BY <1>0, <1>5 DEF CaPlaces, CaEditPlace, CaPlaceOf, CaTakes
  <2> QED BY <1>0, <2>2, <2>3 DEF CaPlaces, CaEditPlace
<1>10. CaFound'
  <2>1. caSync[s].found = CaNull
    BY <1>0 DEF CaPlaces, CaEditPlace, CaPlaceOf
  <2>2. \A t \in CaSyncs : CaFoundOf(t)
    BY DEF CaFound
  <2>3. CaFoundOf(s)'
    BY <1>0, <1>4, <1>5, <1>7, <2>1, <2>2 DEF CaFoundOf
  <2>4. \A t \in CaSyncs : t # s => CaFoundOf(t)'
    BY <1>0, <1>5, <1>6, <1>7, <2>2 DEF CaFoundOf
  <2> QED BY <2>3, <2>4 DEF CaFound
<1>11. ASSUME "raced" \notin caHist
       PROVE  CaAlone' /\ CaLeft' /\ CaSingle' /\ CaUnderEdit' /\ CaVouched' /\ CaUnlinked'
              /\ CaSyncVouches'
  <2>1. /\ caAccount /\ caEdit = CaIdleEdit /\ caCals = {} /\ caEdit.pc = "idle"
        /\ \A t \in CaSyncs : t # s => caSync[t] = CaIdleSync /\ caSync[t].pc = "idle"
    <3>1. /\ caAccount /\ caEdit = CaIdleEdit /\ caCals = {}
          /\ \A t \in CaSyncs : t # s => caSync[t] = CaIdleSync
      BY <1>0, <1>11, CaBusyAlone
    <3>2. CaIdleEdit.pc = "idle" /\ CaIdleSync.pc = "idle"
      BY DEF CaIdleEdit, CaIdleSync
    <3> QED BY <3>1, <3>2
  <2>2. caRows = {} /\ caCals' = {id}
    BY <1>0, <1>11, <2>1 DEF CaAlone
  <2>3. CaAlone'
    <3>1. CaAloneOf(s)'
      BY <1>0, <1>4, <1>5, <2>1, <2>2 DEF CaAloneOf, CaTakes
    <3>2. \A t \in CaSyncs : t # s => CaAloneOf(t)'
      BY <1>5, <2>1 DEF CaAloneOf, CaTakes
    <3> QED BY <1>0, <2>2, <3>1, <3>2 DEF CaAlone
  <2>4. CaLeft' /\ CaUnlinked'
    BY <1>0, <2>1, <2>2 DEF CaLeft, CaUnlinked
  <2>5. CaSingle'
    BY <1>0, <1>4, <1>5, <2>1, <2>2 DEF CaSingle, CaOnce, CaSingleOf
  <2>6. CaUnderEdit'
    BY <1>0, <2>1 DEF CaUnderEdit
  <2>7. CaVouched'
    <3> SUFFICES ASSUME "dropped" \notin caHist, NEW c \in caCals', NEW u \in CaUids,
                        CaCovered(c, u)', caServer'[u].live
                 PROVE  FALSE
      BY <1>0 DEF CaVouched
    <3>1. caServer[u].at # 0 /\ caServer[u].at \in Nat
      BY <1>0 DEF CaTypes, CaTags
    <3>2. caToken[c] = CaNull
      BY <1>3, <2>2 DEF CaTags
    <3>3. caKind = "graph" => caToken[0] = 0
      BY <1>11, <2>1 DEF CaUnlinked, CaNull
    <3>4. CASE caKind = "graph"
      BY <1>0, <3>1, <3>3, <3>4 DEF CaCovered
    <3>5. CASE caKind # "graph"
      BY <1>0, <3>2, <3>5 DEF CaCovered
    <3> QED BY <3>4, <3>5
  <2>8. CaSyncVouches'
    <3>1. ASSUME "dropped" \notin caHist PROVE CaVouchesOf(s)'
      BY <1>0, <1>4, <1>5, <1>11, <2>2, <3>1 DEF CaSyncVouches, CaVouchesOf, CaTakes, CaStores
    <3>2. \A t \in CaSyncs : t # s => CaVouchesOf(t)'
      BY <1>5, <2>1 DEF CaVouchesOf, CaTakes, CaStores
    <3> QED BY <1>0, <3>1, <3>2 DEF CaSyncVouches
  <2> QED BY <2>3, <2>4, <2>5, <2>6, <2>7, <2>8
<1>12. CASE "raced" \in caHist
  BY <1>0, <1>8, <1>9, <1>10, <1>12, CaRacedInv
<1> QED BY <1>8, <1>9, <1>10, <1>11, <1>12

\* CaSaveToken: what the token covers has been stored.
LEMMA CaSaveTokenInv == ASSUME CaInv, NEW s \in CaSyncs, CaSaveToken(s) PROVE CaInv'
<1> DEFINE at == IF caKind = "caldav" THEN caSync[s].cal ELSE 0
           there == IF at = 0 THEN caAccount ELSE at \in caCals
<1> USE DEF CaInv, CaFacts
<1>0. /\ caSync[s].pc = "store" /\ caSync[s].todo = {}
      /\ caToken' = IF there THEN [caToken EXCEPT ![at] = caSync[s].tag] ELSE caToken
      /\ caSync' = [caSync EXCEPT ![s] = CaIdleSync]
      /\ UNCHANGED <<caKind, caServer, caTag, caAccount, caCals, caRows, caLast, caEdit, caStatus,
                     caHist>>
  BY DEF CaSaveToken, CaSyncRest, CaStored, CaEnds
<1>1. caSync' \in [CaSyncs -> CaSyncType] /\ caSync'[s] = CaIdleSync
      /\ \A t \in CaSyncs : t # s => caSync'[t] = caSync[t]
  BY <1>0 DEF CaTypes, CaIdleSync, CaSyncType, CaNull
<1>2. caSync[s].tag \in Nat /\ caSync[s].tag <= caTag /\ caSync[s].cal # CaNull
      /\ caSync[s].cal \in CaCalendarIds
  BY <1>0, CaSyncTyped DEF CaPlaces, CaEditPlace, CaPlaceOf, CaTakes
<1>3. /\ caToken' \in [CaCalendarIds \cup {0} -> Nat]
      /\ \A c \in CaCalendarIds \cup {0} :
           caToken'[c] = IF there /\ c = at THEN caSync[s].tag ELSE caToken[c]
  BY <1>0, <1>2 DEF CaTypes
<1>4. CaTypes'
  BY <1>0, <1>1, <1>3 DEF CaTypes
<1>5. CaTags'
  <2>1. \A c \in CaCalendarIds \cup {0} : caToken'[c] <= caTag
    BY <1>2, <1>3 DEF CaTags
  <2>2. 0 \notin CaCalendarIds
    BY DEF CaCalendarIds
  <2>3. \A c \in CaCalendarIds : caKind # "caldav" \/ c \notin caCals => caToken'[c] = CaNull
    BY <1>3, <2>2 DEF CaTags
  <2> QED BY <1>0, <2>1, <2>3 DEF CaTags
<1>6. CaPlaces' /\ CaNamed' /\ CaInvitedStays'
  <2>1. CaPlaceOf(s)'
    BY <1>0, <1>1 DEF CaPlaceOf, CaTakes, CaIdleSync, CaNull, CaTypes
  <2>2. \A t \in CaSyncs : t # s => CaPlaceOf(t)'
    BY <1>0, <1>1 DEF CaPlaces, CaEditPlace, CaPlaceOf, CaTakes
  <2> QED BY <1>0, <2>1, <2>2 DEF CaPlaces, CaEditPlace, CaNamed, CaInvitedStays
<1>7. CaFound'
  <2>1. \A u : CaOccurrences(u)' = CaOccurrences(u)
    BY <1>0 DEF CaOccurrences, CaRecurs
  <2>2. CaFoundOf(s)'
    BY <1>0, <1>1 DEF CaFoundOf, CaIdleSync, CaNull, CaTypes
  <2>3. ASSUME NEW t \in CaSyncs, t # s PROVE CaFoundOf(t)'
    <3>1. CaFoundOf(t) /\ caSync'[t] = caSync[t] /\ CaPending(t)' = CaPending(t)
      BY <1>1, <2>3 DEF CaFound, CaPending
    <3> QED BY <1>0, <2>1, <3>1 DEF CaFoundOf
  <2> QED BY <2>2, <2>3 DEF CaFound
<1>8. ASSUME "raced" \notin caHist
      PROVE  CaAlone' /\ CaLeft' /\ CaSingle' /\ CaUnderEdit' /\ CaVouched' /\ CaUnlinked'
             /\ CaSyncVouches'
  <2>1. /\ caAccount /\ caEdit.pc = "idle" /\ caCals \subseteq {caSync[s].cal}
        /\ \A t \in CaSyncs : caSync'[t] = CaIdleSync /\ caSync'[t].pc = "idle"
    <3>1. /\ caAccount /\ caEdit = CaIdleEdit /\ caCals \subseteq {caSync[s].cal}
          /\ \A t \in CaSyncs : t # s => caSync[t] = CaIdleSync
      BY <1>0, <1>8, CaBusyAlone DEF CaTakes
    <3>2. CaIdleEdit.pc = "idle" /\ CaIdleSync.pc = "idle"
      BY DEF CaIdleEdit, CaIdleSync
    <3> QED BY <1>1, <3>1, <3>2
  <2>2. CaAlone' /\ CaLeft' /\ CaSingle' /\ CaUnderEdit'
    BY <1>0, <1>8, <2>1 DEF CaAlone, CaAloneOf, CaTakes, CaLeft, CaSingle, CaOnce, CaSingleOf,
        CaUnderEdit
  <2>3. CaSyncVouches'
    BY <2>1 DEF CaSyncVouches, CaVouchesOf, CaTakes, CaStores
  <2>4. CASE "dropped" \in caHist
    BY <1>0, <2>2, <2>3, <2>4 DEF CaVouched, CaUnlinked
  <2>5. CASE "dropped" \notin caHist
    <3>1. CaVouchesOf(s)
      BY <1>8, <2>5 DEF CaSyncVouches
    <3>2. CaStoring(s) /\ (caKind = "graph" => caSync[s].cal \in caCals)
      BY <1>0, <3>1 DEF CaVouchesOf, CaTakes, CaStores
    <3>3. CaUnlinked'
      BY <1>0, <3>2 DEF CaUnlinked
    <3>4. ASSUME NEW c \in caCals, NEW u \in CaUids, CaCovered(c, u)' PROVE CaCovers(s, u)
      <4>1. c = caSync[s].cal /\ c # 0 /\ c \in CaCalendarIds
        BY <1>2, <2>1, <3>4 DEF CaNull
      <4>2. CASE caKind = "graph"
        BY <1>0, <1>3, <2>1, <3>4, <4>2 DEF CaCovered, CaCovers
      <4>3. CASE caKind = "caldav"
        BY <1>0, <1>3, <3>4, <4>1, <4>3 DEF CaCovered, CaCovers
      <4>4. CASE caKind \notin {"graph", "caldav"}
        BY <1>0, <1>3, <3>4, <4>1, <4>4 DEF CaCovered, CaTags
      <4> QED BY <4>2, <4>3, <4>4
    <3>5. CaVouched'
      <4>1. \A u, k : CaSaved(u, k)' <=> CaSaved(u, k)
        BY <1>0 DEF CaSaved
      <4>2. \A u : CaOccurrences(u)' = CaOccurrences(u)
        BY <1>0 DEF CaOccurrences, CaRecurs
      <4>3. \A u \in CaUids : CaCovers(s, u) /\ caServer[u].live
            => \A k \in CaOccurrences(u) : CaSaved(u, k)
        BY <1>0, <3>2 DEF CaStoring
      <4> QED BY <1>0, <3>4, <4>1, <4>2, <4>3 DEF CaVouched
    <3> QED BY <2>2, <2>3, <3>3, <3>5
  <2> QED BY <2>4, <2>5
<1>9. CASE "raced" \in caHist
  BY <1>0, <1>4, <1>5, <1>6, <1>7, <1>9, CaRacedInv
<1> QED BY <1>4, <1>5, <1>6, <1>7, <1>8, <1>9

\* w takes the place of the rows with its id, if any.
CaWrites(s, w) ==
    /\ w \in CaRowType /\ w.cal = caSync[s].cal /\ w.key = CaPending(s).key
    /\ w.at = CaPending(s).at /\ w.href = w.key[1] /\ ~w.series
    /\ w.id <= caLast' /\ caLast <= caLast' /\ caLast' \in Nat
    /\ caRows' \subseteq caRows \cup {w}
    /\ \A q \in caRows : q.id # w.id => q \in caRows'
    /\ \A q \in caRows' : q = w \/ q.id # w.id
    /\ \A q \in caRows : q.id = w.id => q.key = w.key /\ q.cal = w.cal /\ w \in caRows'
    /\ caSync[s].found = CaNull => w \in caRows' /\ w.cal \in caCals /\ w.id > caLast
    /\ caSync[s].found # CaNull =>
         w.id = caSync[s].found /\ (w \in caRows' => \E q \in caRows : q.id = w.id)

\* What CaWriteEvent does to the rows.
LEMMA CaWriteEffect ==
    ASSUME CaFacts, NEW s \in CaSyncs, CaWriteEvent(s) PROVE \E w : CaWrites(s, w)
<1> DEFINE e == CaPending(s)
           Written(id) == CaRow(id, caSync[s].cal, e.key, e.at, e.key[1], FALSE)
<1> USE DEF CaFacts
<1>1. e \in caSync[s].todo /\ caSync[s].todo \subseteq CaEventType
  BY CaSyncTyped DEF CaWriteEvent, CaPlaces, CaEditPlace, CaPlaceOf, CaPending
<1>2. e.key \in CaKeys /\ e.at \in Nat /\ e.key[1] \in CaUids
  BY <1>1 DEF CaEventType, CaKeys
<1>3. caSync[s].cal \in CaCalendarIds /\ caSync[s].found \in Nat /\ caLast \in Nat
  BY CaSyncTyped DEF CaWriteEvent, CaPlaces, CaEditPlace, CaPlaceOf, CaTakes, CaTypes
<1> HIDE DEF e
<1>4. ASSUME NEW id \in Nat \ {0}
      PROVE  /\ Written(id) \in CaRowType /\ Written(id).id = id /\ Written(id).cal = caSync[s].cal
             /\ Written(id).key = e.key /\ Written(id).at = e.at /\ Written(id).href = e.key[1]
             /\ ~Written(id).series
  BY <1>2, <1>3 DEF CaRowType, CaRow
<1> HIDE DEF Written
<1>5. \A q \in caRows : q.id \in Nat \ {0} /\ q.id <= caLast
  BY DEF CaTypes, CaRowType, CaNamed
<1>6. CASE caSync[s].found # CaNull
  <2> DEFINE w == Written(caSync[s].found)
  <2>1. caRows' = {IF r.id = caSync[s].found THEN Written(r.id) ELSE r : r \in caRows}
        /\ caLast' = caLast
    BY <1>6 DEF CaWriteEvent, Written, e
  <2>2. caSync[s].found \in Nat \ {0}
    BY <1>3, <1>6 DEF CaNull
  <2>3. /\ w \in CaRowType /\ w.id = caSync[s].found /\ w.cal = caSync[s].cal
        /\ w.key = e.key /\ w.at = e.at /\ w.href = e.key[1] /\ ~w.series
    BY <1>4, <2>2
  <2>4. \A q \in caRows : q.id = caSync[s].found => q.key = e.key /\ q.cal = caSync[s].cal
    BY <1>6 DEF CaFound, CaFoundOf, e
  <2>5. caSync[s].found <= caLast
    BY DEF CaFound, CaFoundOf
  <2>6. /\ \A q \in caRows : q.id = caSync[s].found => w \in caRows'
        /\ \A q \in caRows : q.id # caSync[s].found => q \in caRows'
    BY <2>1
  <2>7. \A q \in caRows' : \/ q = w /\ \E p \in caRows : p.id = caSync[s].found
                           \/ q \in caRows /\ q.id # caSync[s].found
    BY <2>1
  <2> HIDE DEF w
  <2>8. CaWrites(s, w)
    BY <1>3, <1>6, <2>1, <2>3, <2>4, <2>5, <2>6, <2>7 DEF CaWrites, e
  <2> QED BY <2>8
<1>7. CASE caSync[s].found = CaNull
  <2> DEFINE w == Written(caLast + 1)
  <2>1. caRows' = caRows \cup {w} /\ caLast' = caLast + 1 /\ caSync[s].cal \in caCals
    BY <1>7 DEF CaWriteEvent, Written, e
  <2>2. caLast + 1 \in Nat \ {0}
    BY <1>3
  <2>3. /\ w \in CaRowType /\ w.id = caLast + 1 /\ w.cal = caSync[s].cal
        /\ w.key = e.key /\ w.at = e.at /\ w.href = e.key[1] /\ ~w.series
    BY <1>4, <2>2
  <2>4. \A q \in caRows : q.id # w.id
    BY <1>3, <1>5, <2>3
  <2> HIDE DEF w
  <2>5. CaWrites(s, w)
    BY <1>3, <1>7, <2>1, <2>3, <2>4 DEF CaWrites, e
  <2> QED BY <2>5
<1> QED BY <1>6, <1>7

\* CaWriteEvent: the event is stored, once.
LEMMA CaWriteEventInv == ASSUME CaInv, NEW s \in CaSyncs, CaWriteEvent(s) PROVE CaInv'
<1> DEFINE e == CaPending(s)
           r == [caSync[s] EXCEPT !.pc = "store", !.todo = caSync[s].todo \ {e}, !.found = CaNull]
<1> USE DEF CaInv, CaFacts
<1>0. /\ caSync[s].pc = "write"
      /\ UNCHANGED <<caKind, caServer, caTag, caAccount, caCals, caToken, caEdit, caStatus, caHist>>
  BY DEF CaWriteEvent, CaSyncRest
<1>1. caSync' = [caSync EXCEPT ![s] = r]
  BY DEF CaWriteEvent
<1>2. PICK w : CaWrites(s, w)
  BY CaWriteEffect
<1>3. e \in caSync[s].todo /\ caSync[s].cal # CaNull /\ caSync[s].tag <= caTag
  BY <1>0 DEF CaPlaces, CaEditPlace, CaPlaceOf, CaPending, CaTakes
<1>4. w.key = e.key /\ w.at = e.at
  BY <1>2 DEF CaWrites
<1> HIDE DEF e
<1>5. r \in CaSyncType /\ r.pc = "store" /\ r.todo = caSync[s].todo \ {e} /\ r.tag = caSync[s].tag
      /\ r.found = CaNull /\ r.cal = caSync[s].cal
  BY CaSyncTyped DEF CaSyncType, CaNull
<1> HIDE DEF r
<1>6. caSync' \in [CaSyncs -> CaSyncType] /\ caSync'[s] = r
      /\ \A t \in CaSyncs : t # s => caSync'[t] = caSync[t]
  BY <1>1, <1>5 DEF CaTypes
<1>7. \A u : CaOccurrences(u)' = CaOccurrences(u)
  BY <1>0 DEF CaOccurrences, CaRecurs
<1>8. /\ e.key[1] \in CaUids /\ e.at # 0 /\ e.at <= caServer[e.key[1]].at
      /\ e.at \in Nat /\ caServer[e.key[1]].at \in Nat
      /\ caKind = "caldav" => e.key \in CaOccurrences(e.key[1])
  <2>1. e \in CaEventType
    BY <1>3, CaSyncTyped
  <2>2. e.key[1] \in CaUids /\ e.at \in Nat
    BY <2>1 DEF CaEventType, CaKeys
  <2> QED BY <1>3, <2>2 DEF CaFound, CaFoundOf, CaTypes
<1>9. CaTypes' /\ CaTags'
  <2>1. caRows' \subseteq CaRowType /\ caLast' \in Nat
    BY <1>2 DEF CaWrites, CaTypes
  <2> QED BY <1>0, <1>6, <2>1 DEF CaTypes, CaTags
<1>10. CaPlaces'
  <2>1. CaPlaceOf(s)'
    BY <1>0, <1>3, <1>5, <1>6 DEF CaPlaceOf, CaTakes
  <2>2. \A t \in CaSyncs : t # s => CaPlaceOf(t)'
    BY <1>0, <1>6 DEF CaPlaces, CaEditPlace, CaPlaceOf, CaTakes
  <2>3. caEdit.row \in Nat /\ caLast \in Nat /\ caLast' \in Nat /\ caLast <= caLast'
    BY <1>2 DEF CaWrites, CaTypes, CaEditType
  <2> QED BY <1>0, <2>1, <2>2, <2>3 DEF CaPlaces, CaEditPlace
\* A row is w, in place of another with its id and key, or was there.
<1>11. \A q \in caRows' : q = w \/ (q \in caRows /\ q.id # w.id)
  BY <1>2 DEF CaWrites
<1>12. ASSUME w \in caRows', w.id <= caLast PROVE \E q \in caRows : q.id = w.id /\ q.key = w.key
              /\ q.cal = w.cal
  <2>1. caSync[s].found # CaNull
    BY <1>2, <1>12 DEF CaWrites, CaTypes, CaRowType
  <2> QED BY <1>2, <1>12, <2>1 DEF CaWrites
<1>13. CaNamed'
  <2>1. /\ w.id <= caLast' /\ w.href = w.key[1] /\ caServer[w.key[1]].at # 0
        /\ caKind = "caldav" /\ w.key[1] \notin CaSeries => w.key = <<w.key[1], 0>>
    BY <1>2, <1>4, <1>8 DEF CaWrites, CaOccurrences, CaRecurs
  <2>2. \A q \in caRows : q.id <= caLast'
    BY <1>2 DEF CaNamed, CaWrites, CaTypes, CaRowType
  <2>3. \A p, q \in caRows' : p.id = q.id => p = q
    BY <1>11 DEF CaNamed
  <2>4. caEdit.pc \in {"update", "delete"} =>
          \A q \in caRows' : q.id = caEdit.row => q.key[1] = caEdit.uid
    <3>1. caEdit.pc \in {"update", "delete"} => caEdit.row <= caLast
      BY DEF CaPlaces, CaEditPlace
    <3> QED BY <1>11, <1>12, <3>1 DEF CaNamed
  <2> QED BY <1>0, <1>11, <2>1, <2>2, <2>3, <2>4 DEF CaNamed
<1>14. CaFound'
  <2>1. CaFoundOf(s)'
    <3>1. CaFoundOf(s)
      BY DEF CaFound
    <3> QED BY <1>0, <1>5, <1>6, <1>7, <1>9, <3>1 DEF CaFoundOf, CaNull, CaTypes
  <2>2. ASSUME NEW t \in CaSyncs, t # s PROVE CaFoundOf(t)'
    <3>1. CaFoundOf(t) /\ caSync'[t] = caSync[t] /\ CaPending(t)' = CaPending(t)
      BY <1>6, <2>2 DEF CaFound, CaPending
    <3>2. caSync[t].found <= caLast' /\ caSync[t].found <= caLast
      BY <1>2, <3>1, CaSyncTyped DEF CaFoundOf, CaWrites, CaTypes
    <3>3. caSync[t].found # CaNull =>
            \A q \in caRows' : q.id = caSync[t].found => q.key = CaPending(t).key
                /\ q.cal = caSync[t].cal
      BY <1>11, <1>12, <3>1, <3>2 DEF CaFoundOf
    <3> QED BY <1>0, <1>7, <3>1, <3>2, <3>3 DEF CaFoundOf
  <2> QED BY <2>1, <2>2 DEF CaFound
\* No row's key goes.
<1>15. \A q \in caRows : q \in caRows' \/ (w \in caRows' /\ w.key = q.key)
  BY <1>2 DEF CaWrites
<1>16. CaInvitedStays'
  BY <1>0, <1>15 DEF CaInvitedStays
<1>17. ASSUME "raced" \notin caHist
       PROVE  CaAlone' /\ CaLeft' /\ CaSingle' /\ CaUnderEdit' /\ CaVouched' /\ CaUnlinked'
              /\ CaSyncVouches'
  <2>1. /\ caAccount /\ caEdit = CaIdleEdit /\ caEdit.pc = "idle"
             /\ caCals \subseteq {caSync[s].cal}
        /\ \A t \in CaSyncs : t # s => caSync[t] = CaIdleSync /\ caSync[t].pc = "idle"
    <3>1. /\ caAccount /\ caEdit = CaIdleEdit /\ caCals \subseteq {caSync[s].cal}
          /\ \A t \in CaSyncs : t # s => caSync[t] = CaIdleSync
      BY <1>0, <1>17, CaBusyAlone DEF CaTakes
    <3>2. CaIdleEdit.pc = "idle" /\ CaIdleSync.pc = "idle"
      BY DEF CaIdleEdit, CaIdleSync
    <3> QED BY <3>1, <3>2
  <2>2. CaAlone'
    <3>1. CaAloneOf(s)'
      BY <1>0, <1>5, <1>6, <2>1 DEF CaAloneOf, CaTakes
    <3>2. \A t \in CaSyncs : t # s => CaAloneOf(t)'
      BY <1>6, <2>1 DEF CaAloneOf, CaTakes
    <3>3. \A q \in caRows : q.cal \in caCals
      BY <1>17 DEF CaAlone
    <3>4. w \in caRows' => w.cal \in caCals
      BY <1>2, <3>3 DEF CaWrites
    <3>5. \A c, d \in caCals : c = d
      BY <1>17 DEF CaAlone
    <3> QED BY <1>0, <1>11, <3>1, <3>2, <3>3, <3>4, <3>5 DEF CaAlone
  <2>3. CaLeft' /\ CaUnlinked' /\ CaUnderEdit'
    BY <1>0, <1>17, <2>1 DEF CaLeft, CaUnlinked, CaUnderEdit
  <2>4. CaSingle'
    <3>1. \A t \in CaSyncs : CaSingleOf(t)'
      BY <1>5, <1>6, <2>1 DEF CaSingleOf
    <3>2. ASSUME caKind = "caldav", "doubled" \notin caHist, w \in caRows', NEW q \in caRows,
                 q.key[1] = w.key[1], w.key[1] \notin CaSeries
          PROVE  q.id = w.id
      <4>1. q.key = w.key
        <5>1. q.key = <<q.key[1], 0>>
          BY <3>2 DEF CaNamed
        <5>2. w.key = <<w.key[1], 0>>
          BY <1>0, <1>13, <3>2 DEF CaNamed
        <5> QED BY <3>2, <5>1, <5>2
      <4>2. CASE caSync[s].found = CaNull
        <5>1. q.cal \in caCals /\ caSync[s].cal \in caCals /\ w.cal = caSync[s].cal
          BY <1>2, <1>17, <4>2 DEF CaAlone, CaWrites
        <5>2. CaMatching(caSync[s].cal, e.key) = {}
          BY <1>0, <1>17, <4>2, <5>1 DEF CaSingle, CaOnce, CaSingleOf, e
        <5>3. q.cal = caSync[s].cal
          BY <2>1, <5>1
        <5>4. q \in CaMatching(caSync[s].cal, e.key)
          BY <1>4, <4>1, <5>3 DEF CaMatching
        <5> QED BY <5>2, <5>4
      <4>3. CASE caSync[s].found # CaNull
        <5>1. PICK p \in caRows : p.id = w.id /\ p.key = w.key
          BY <1>2, <3>2, <4>3 DEF CaWrites
        <5>2. p = q
          BY <1>17, <3>2, <4>1, <5>1 DEF CaSingle, CaOnce
        <5> QED BY <5>1, <5>2
      <4> QED BY <4>2, <4>3
    <3>3. caKind = "caldav" /\ "doubled" \notin caHist =>
            \A p, q \in caRows' : p.key[1] = q.key[1] /\ p.key[1] \notin CaSeries => p = q
      <4>1. caKind = "caldav" /\ "doubled" \notin caHist =>
              \A p, q \in caRows : p.key[1] = q.key[1] /\ p.key[1] \notin CaSeries => p = q
        BY <1>17 DEF CaSingle, CaOnce
      <4> QED BY <1>11, <3>2, <4>1
    <3> QED BY <1>0, <2>1, <3>1, <3>3 DEF CaSingle, CaOnce
  <2>5. CASE "dropped" \in caHist
    BY <1>0, <2>2, <2>3, <2>4, <2>5 DEF CaVouched, CaSyncVouches
  <2>6. CASE "dropped" \notin caHist
    <3>1. CaVouchesOf(s)
      BY <1>17, <2>6 DEF CaSyncVouches
    <3>2. CaStoring(s) /\ (caKind = "graph" => caSync[s].cal \in caCals)
      BY <1>0, <3>1 DEF CaVouchesOf, CaTakes, CaStores
    \* What is saved stays saved, if the event written is as it is on the server.
    <3>3. ASSUME NEW u \in CaUids, NEW k, CaSaved(u, k), u = e.key[1]
                 => e.at = caServer[u].at PROVE CaSaved(u, k)'
      <4>1. PICK q \in caRows : q.key = k /\ q.at = caServer[u].at /\ q.href = u /\ ~q.series
        BY <3>3 DEF CaSaved
      <4>2. CASE q.id # w.id
        BY <1>0, <1>2, <4>1, <4>2 DEF CaSaved, CaWrites
      <4>3. CASE q.id = w.id
        <5>1. u = q.key[1]
          <6>1. u # CaNull
            BY CaAssumption DEF CaNull
          <6> QED BY <4>1, <6>1 DEF CaNamed
        <5>2. w \in caRows' /\ w.key = k /\ u = w.key[1]
          BY <1>2, <4>1, <4>3, <5>1 DEF CaWrites
        <5> QED BY <1>0, <1>2, <1>4, <3>3, <5>2 DEF CaSaved, CaWrites
      <4> QED BY <4>2, <4>3
    <3>4. CaVouched'
      <4> SUFFICES ASSUME NEW c \in caCals, NEW u \in CaUids, CaCovered(c, u), caServer[u].live,
                          NEW k \in CaOccurrences(u)
                   PROVE  CaSaved(u, k)'
        BY <1>0, <1>7 DEF CaVouched, CaCovered
      <4>1. CaSaved(u, k)
        BY <1>17, <2>1, <2>6 DEF CaVouched
      <4>2. ASSUME u = e.key[1] PROVE e.at = caServer[u].at
        <5>1. CASE caKind = "graph"
          <6>1. e.at > caToken[0] /\ caToken[0] \in Nat
            BY <1>3, <3>2, <5>1 DEF CaStoring, CaTypes
          <6>2. caServer[u].at <= caToken[0]
            BY <5>1 DEF CaCovered
          <6> QED BY <1>8, <4>2, <6>1, <6>2
        <5>2. CASE caKind = "caldav"
          BY <1>3, <3>2, <4>2, <5>2 DEF CaCovered, CaStoring
        <5>3. CASE caKind \notin {"graph", "caldav"}
          BY <5>3 DEF CaCovered, CaTags, CaTypes
        <5> QED BY <5>1, <5>2, <5>3
      <4> QED BY <3>3, <4>1, <4>2
    <3>5. CaSyncVouches'
      <4>1. CaStoring(s)'
        <5>1. ASSUME NEW u \in CaUids, CaCovers(s, u), caServer[u].live, NEW k \in CaOccurrences(u),
                     [key |-> k, at |-> caServer[u].at] \notin caSync[s].todo \ {e}
              PROVE  CaSaved(u, k)'
          <6>1. ASSUME u = e.key[1] PROVE e.at = caServer[u].at
            BY <1>3, <3>2, <5>1, <6>1 DEF CaStoring, CaCovers
          <6>2. [key |-> k, at |-> caServer[u].at] \in caSync[s].todo \/ CaSaved(u, k)
            BY <3>2, <5>1 DEF CaStoring
          <6>3. CASE CaSaved(u, k)
            BY <3>3, <6>1, <6>3
          <6>4. CASE [key |-> k, at |-> caServer[u].at] \in caSync[s].todo
            <7>1. e = [key |-> k, at |-> caServer[u].at]
              BY <5>1, <6>4
            <7>2. e.key = k /\ e.at = caServer[u].at /\ k[1] = u
              BY <7>1 DEF CaOccurrences
            <7>3. w \in caRows'
              <8>1. caSync[s].cal \in caCals
                BY <3>2, <5>1 DEF CaCovers
              <8>2. caSync[s].found = CaNull \/ \E q \in caRows : q.id = caSync[s].found
                BY <1>0, <1>17, <8>1 DEF CaSingle, CaOnce, CaSingleOf
              <8> QED BY <1>2, <8>2 DEF CaWrites
            <7> QED BY <1>0, <1>2, <1>4, <7>2, <7>3 DEF CaSaved, CaWrites
          <6> QED BY <6>2, <6>3, <6>4
        <5>2. \A u \in CaUids : CaCovers(s, u)' <=> CaCovers(s, u)
          BY <1>0, <1>5, <1>6 DEF CaCovers
        <5> QED BY <1>0, <1>5, <1>6, <1>7, <3>2, <5>1, <5>2 DEF CaStoring
      <4>2. CaVouchesOf(s)'
        BY <1>0, <1>5, <1>6, <3>2, <4>1 DEF CaVouchesOf, CaTakes, CaStores
      <4>3. \A t \in CaSyncs : t # s => CaVouchesOf(t)'
        BY <1>6, <2>1 DEF CaVouchesOf, CaTakes, CaStores
      <4> QED BY <4>2, <4>3 DEF CaSyncVouches
    <3> QED BY <2>2, <2>3, <2>4, <3>4, <3>5
  <2> QED BY <2>5, <2>6
<1>18. CASE "raced" \in caHist
  BY <1>0, <1>9, <1>10, <1>13, <1>14, <1>16, <1>18, CaRacedInv
<1> QED BY <1>9, <1>10, <1>13, <1>14, <1>16, <1>17, <1>18

-----------------------------------------------------------------------------
(* The handlers. *)

\* A handler that does not overlap runs alone.
LEMMA CaEditAlone ==
    ASSUME CaInv, "raced" \notin caHist, caEdit # CaIdleEdit
    PROVE  \A s \in CaSyncs : caSync[s] = CaIdleSync
BY DEF CaInv, CaAlone, CaAloneOf

\* One that begins without an overlap finds nobody.
LEMMA CaBeginsAlone ==
    ASSUME caHist' = caHist \cup CaRacing \cup {"doubled"} \/ caHist' = caHist \cup CaRacing
           \/ caHist' = caHist \cup CaRacing \cup {"erased"},
           "raced" \notin caHist'
    PROVE  /\ "raced" \notin caHist /\ caEdit = CaIdleEdit /\ caEdit.pc = "idle"
           /\ \A s \in CaSyncs : caSync[s] = CaIdleSync
<1>1. "raced" \notin caHist /\ ~CaBusy
  BY DEF CaRacing
<1>2. CaIdleEdit.pc = "idle"
  BY DEF CaIdleEdit
<1> QED BY <1>1, <1>2 DEF CaBusy

\* Without a synchronisation there are only the rows and the handler to look at.
LEMMA CaQuietInv ==
    ASSUME CaFacts', CaInvitedStays',
           "raced" \notin caHist' =>
             /\ \A s \in CaSyncs : caSync'[s] = CaIdleSync
             /\ \A c, d \in caCals' : c = d
             /\ \A r \in caRows' : r.cal \in caCals'
             /\ CaLeft' /\ CaOnce' /\ CaUnderEdit' /\ CaVouched' /\ CaUnlinked'
    PROVE  CaInv'
<1>1. CASE "raced" \in caHist'
  BY <1>1, CaRacedInv DEF CaInv
<1>2. CASE "raced" \notin caHist'
  <2>1. \A s \in CaSyncs : caSync'[s] = CaIdleSync /\ caSync'[s].pc = "idle"
    BY <1>2 DEF CaIdleSync
  <2>2. CaAlone'
    BY <1>2, <2>1 DEF CaAlone, CaAloneOf, CaTakes
  <2>3. CaSingle'
    BY <1>2, <2>1 DEF CaSingle, CaSingleOf
  <2>4. CaSyncVouches'
    BY <2>1 DEF CaSyncVouches, CaVouchesOf, CaTakes, CaStores
  <2> QED BY <1>2, <2>2, <2>3, <2>4 DEF CaInv
<1> QED BY <1>1, <1>2

\* A row with an id there was before has kept its calendar and key.
CaKeepsRows ==
    \A q \in caRows' : q.id > caLast \/ \E p \in caRows : p.id = q.id /\ p.key = q.key
        /\ p.cal = q.cal

\* What the synchronisations hold stays true of the rows a handler leaves.
LEMMA CaEditFacts ==
    ASSUME CaFacts, UNCHANGED <<caKind, caSync>>, CaTypes', CaTags', CaEditPlace', CaNamed',
           caTag <= caTag', caLast <= caLast', CaKeepsRows,
           \A u \in CaUids : caServer[u].at <= caServer'[u].at
    PROVE  CaFacts'
<1> USE DEF CaFacts
<1>1. CaPlaces'
  <2>1. caTag \in Nat /\ caTag' \in Nat
    BY DEF CaTypes
  <2> QED BY <2>1, CaSyncTyped DEF CaPlaces, CaPlaceOf, CaTakes
<1>2. CaFound'
  <2> SUFFICES ASSUME NEW s \in CaSyncs PROVE CaFoundOf(s)'
    BY DEF CaFound
  <2>1. CaFoundOf(s) /\ CaPending(s)' = CaPending(s)
    BY DEF CaFound, CaPending
  <2>2. \A u : CaOccurrences(u)' = CaOccurrences(u)
    BY DEF CaOccurrences, CaRecurs
  <2>3. caSync[s].found \in Nat /\ caLast \in Nat /\ caLast' \in Nat
    BY CaSyncTyped DEF CaTypes
  <2>4. ASSUME caSync[s].found # CaNull, NEW q \in caRows', q.id = caSync[s].found
        PROVE  q.key = CaPending(s).key /\ q.cal = caSync[s].cal
    <3>1. ~(q.id > caLast)
      BY <2>1, <2>3, <2>4 DEF CaFoundOf
    <3>2. PICK p \in caRows : p.id = q.id /\ p.key = q.key /\ p.cal = q.cal
      BY <3>1 DEF CaKeepsRows
    <3> QED BY <2>1, <2>4, <3>2 DEF CaFoundOf
  <2>5. ASSUME NEW e \in caSync[s].todo
        PROVE  e.at # 0 /\ e.at <= caServer'[e.key[1]].at
               /\ (caKind = "caldav" => e.key \in CaOccurrences(e.key[1]))
    <3>1. e \in CaEventType
      BY CaSyncTyped
    <3>2. e.key[1] \in CaUids /\ e.at \in Nat
      BY <3>1 DEF CaEventType, CaKeys
    <3>3. caServer[e.key[1]].at \in Nat /\ caServer'[e.key[1]].at \in Nat
      BY <3>2 DEF CaTypes
    <3> QED BY <2>1, <3>2, <3>3 DEF CaFoundOf
  <2> QED BY <2>1, <2>2, <2>3, <2>4, <2>5 DEF CaFoundOf
<1> QED BY <1>1, <1>2

\* What was saved is saved among more rows.
LEMMA CaSavedStays ==
    ASSUME UNCHANGED <<caKind, caServer>>, caRows \subseteq caRows'
    PROVE  /\ \A u, k : CaSaved(u, k) => CaSaved(u, k)'
           /\ \A u : CaOccurrences(u)' = CaOccurrences(u)
BY DEF CaSaved, CaOccurrences, CaRecurs

\* CaCreateRemote: the event is new to everybody.
LEMMA CaCreateRemoteInv == ASSUME CaInv, NEW u \in CaUids, CaCreateRemote(u) PROVE CaInv'
<1> USE DEF CaInv, CaFacts
<1>0. /\ caEdit = CaIdleEdit /\ caCals # {} /\ caServer[u].at = 0 /\ u # CaInvited
      /\ CaStamp(u, TRUE) /\ caHist' = caHist \cup CaRacing
      /\ caEdit' = [pc |-> "create", uid |-> u, row |-> CaNull, at |-> caTag + 1]
      /\ UNCHANGED <<caKind, caAccount, caCals, caToken, caSync, caRows, caLast, caStatus>>
  BY DEF CaCreateRemote, CaBegins, CaEditRest
<1>1. /\ caTag' = caTag + 1 /\ caTag' \in Nat /\ caTag \in Nat
      /\ caServer' \in [CaUids -> [live : BOOLEAN, at : Nat]]
      /\ \A v \in CaUids : v # u => caServer'[v] = caServer[v]
      /\ caServer'[u].live = TRUE /\ caServer'[u].at = caTag'
      /\ \A v \in CaUids : caServer[v].at <= caServer'[v].at /\ caServer'[v].at <= caTag'
                           /\ (caServer[v].at # 0 => caServer'[v].at # 0)
  BY <1>0, CaStamped DEF CaTypes
<1>2. \A c \in CaCalendarIds, v \in CaUids : CaCovered(c, v)' =>
        v # u /\ CaCovered(c, v) /\ caServer'[v] = caServer[v]
  BY <1>0, CaStampCovers
<1>3. caEdit' \in CaEditType /\ caEdit'.pc = "create" /\ caEdit'.uid = u /\ caEdit.pc = "idle"
  BY <1>0, <1>1 DEF CaEditType, CaNull, CaIdleEdit
<1>4. CaTypes'
  BY <1>0, <1>1, <1>3 DEF CaTypes
<1>5. CaTags'
  BY <1>0, <1>1 DEF CaTags, CaTypes
<1>6. CaEditPlace'
  BY <1>1, <1>3 DEF CaEditPlace
<1>7. CaNamed'
  <2>1. \A r \in caRows : r.key[1] \in CaUids
    BY DEF CaTypes, CaRowType, CaKeys
  <2> QED BY <1>0, <1>1, <1>3, <2>1 DEF CaNamed
<1>8. CaFacts'
  <2>1. CaKeepsRows /\ caTag <= caTag' /\ caLast <= caLast'
    BY <1>0, <1>1 DEF CaKeepsRows, CaTypes
  <2> QED BY <1>0, <1>1, <1>4, <1>5, <1>6, <1>7, <2>1, CaEditFacts
<1>9. CaInvitedStays'
  BY <1>0, <1>3 DEF CaInvitedStays
<1>10. ASSUME "raced" \notin caHist'
       PROVE  /\ \A s \in CaSyncs : caSync'[s] = CaIdleSync
              /\ \A c, d \in caCals' : c = d
              /\ \A r \in caRows' : r.cal \in caCals'
              /\ CaLeft' /\ CaOnce' /\ CaUnderEdit' /\ CaVouched' /\ CaUnlinked'
  <2>1. "raced" \notin caHist /\ \A s \in CaSyncs : caSync[s] = CaIdleSync
    BY <1>0, <1>10, CaBeginsAlone
  <2>2. /\ \A c, d \in caCals' : c = d
        /\ \A r \in caRows' : r.cal \in caCals'
    BY <1>0, <2>1 DEF CaAlone
  <2>3. CaLeft' /\ CaUnlinked' /\ CaUnderEdit'
    BY <1>0, <1>3, <2>1 DEF CaLeft, CaUnlinked, CaUnderEdit
  <2>4. CaOnce'
    <3>1. \A r \in caRows : r.key[1] # u
      BY <1>0 DEF CaNamed
    <3> QED BY <1>0, <1>3, <2>1, <3>1 DEF CaSingle, CaOnce
  <2>5. CaVouched'
    <3> SUFFICES ASSUME "dropped" \notin caHist, NEW c \in caCals, NEW v \in CaUids,
                        CaCovered(c, v)', caServer'[v].live, NEW k \in CaOccurrences(v)
                 PROVE  CaSaved(v, k)'
      BY <1>0 DEF CaVouched, CaOccurrences, CaRecurs
    <3>1. c \in CaCalendarIds
      BY DEF CaTypes
    <3>2. CaCovered(c, v) /\ caServer'[v] = caServer[v]
      BY <1>2, <3>1
    <3>3. CaSaved(v, k)
      BY <1>3, <2>1, <3>2 DEF CaVouched
    <3> QED BY <1>0, <3>2, <3>3 DEF CaSaved
  <2> QED BY <1>0, <2>1, <2>2, <2>3, <2>4, <2>5
<1> QED BY <1>8, <1>9, <1>10, CaQuietInv

\* One or two rows with ids of their own are added.
LEMMA CaAdded ==
    ASSUME CaTypes, NEW a, NEW b, CaAdds({a}) \/ (CaAdds({a, b}) /\ a # b)
    PROVE  /\ CaAdds({a}) => caRows' = caRows \cup {a} /\ caLast' = caLast + 1
           /\ CaAdds({a, b}) /\ a # b => caRows' = caRows \cup {a, b} /\ caLast' = caLast + 2
<1>1. Cardinality({a}) = 1 /\ IsFiniteSet({a})
  BY FS_Singleton
<1>2. a # b => Cardinality({a} \cup {b}) = Cardinality({a}) + 1
  BY <1>1, FS_AddElement
<1>3. {a} \cup {b} = {a, b}
  OBVIOUS
<1> QED BY <1>1, <1>2, <1>3 DEF CaAdds

\* CaCreateRow: the only row of the new event, or its first two.
LEMMA CaCreateRowInv == ASSUME CaInv, CaCreateRow PROVE CaInv'
<1> DEFINE u == caEdit.uid
           cal == Min(caCals)
           master == CaRow(caLast + 1, cal, CaOwnKey(u), caEdit.at, u, FALSE)
           second == CaSecond(cal, u)
<1> USE DEF CaInv, CaFacts
<1>0. /\ caEdit.pc = "create" /\ caCals # {} /\ caEdit' = CaIdleEdit
      /\ CaAdds(IF CaRecurs(u) THEN {master, second} ELSE {master})
      /\ UNCHANGED <<caKind, caAccount, caCals, caToken, caSync, caServer, caTag, caStatus, caHist>>
  BY DEF CaCreateRow, CaEditRest
<1>1. /\ u \in CaUids /\ caServer[u].at # 0 /\ caEdit.at \in Nat /\ caLast \in Nat
      /\ caEdit # CaIdleEdit /\ caEdit'.pc = "idle" /\ caEdit' \in CaEditType
  BY <1>0 DEF CaPlaces, CaEditPlace, CaTypes, CaEditType, CaIdleEdit, CaNull
<1>2. cal \in caCals /\ cal \in CaCalendarIds
  <2>1. caCals \in SUBSET Nat /\ caCals \subseteq CaCalendarIds
    BY DEF CaTypes, CaCalendarIds
  <2>2. cal \in caCals
    BY <1>0, <2>1, CaMinIn
  <2> QED BY <2>1, <2>2
<1> HIDE DEF cal
<1>3. /\ master \in CaRowType /\ master.id = caLast + 1 /\ master.cal = cal /\ master.key[1] = u
      /\ master.key = CaOwnKey(u) /\ master.href = u
  <2>1. CaOwnKey(u) \in CaKeys /\ CaOwnKey(u)[1] = u
    BY <1>1 DEF CaOwnKey, CaKeys
  <2> QED BY <1>1, <1>2, <2>1 DEF CaRow, CaRowType
<1>4. /\ second \in CaRowType /\ second.id = caLast + 2 /\ second.cal = cal /\ second.key[1] = u
      /\ second.href = CaNull
  <2>1. <<u, 2>> \in CaKeys /\ <<u, 2>>[1] = u
    BY <1>1 DEF CaKeys
  <2> QED BY <1>1, <1>2, <2>1 DEF CaSecond, CaRow, CaRowType
<1> HIDE DEF master, second
<1>5. master # second
  BY <1>1, <1>3, <1>4
<1>6. \/ caRows' = caRows \cup {master, second} /\ caLast' = caLast + 2 /\ CaRecurs(u)
      \/ caRows' = caRows \cup {master} /\ caLast' = caLast + 1 /\ ~CaRecurs(u)
  BY <1>0, <1>5, CaAdded
<1>7. /\ caLast' \in Nat /\ caLast <= caLast' /\ caRows \subseteq caRows'
      /\ \A q \in caRows' : q \in caRows \/ q = master
           \/ (q = second /\ CaRecurs(u) /\ caLast' = caLast + 2)
  BY <1>1, <1>6
<1>8. caLast + 1 <= caLast' /\ \A q \in caRows : q.id <= caLast /\ q.id \in Nat
  BY <1>1, <1>6 DEF CaNamed, CaTypes, CaRowType
<1>9. CaTypes' /\ CaTags' /\ CaEditPlace'
  <2>1. caRows' \subseteq CaRowType
    BY <1>3, <1>4, <1>7 DEF CaTypes
  <2> QED BY <1>0, <1>1, <1>7, <2>1 DEF CaTypes, CaTags, CaEditPlace
<1>10. CaNamed'
  <2>1. ASSUME NEW q \in caRows'
        PROVE  /\ q.id <= caLast'
               /\ q.href # CaNull => q.href = q.key[1] /\ caServer[q.key[1]].at # 0
               /\ caServer[q.key[1]].at # 0 \/ q.key[1] = CaInvited
               /\ caKind = "caldav" /\ q.key[1] \notin CaSeries => q.key = <<q.key[1], 0>>
    <3>1. CASE q \in caRows
      BY <1>1, <1>7, <1>8, <3>1 DEF CaNamed
    <3>2. CASE q = master
      BY <1>1, <1>3, <1>8, <3>2 DEF CaOwnKey
    <3>3. CASE q = second /\ CaRecurs(u) /\ caLast' = caLast + 2
      BY <1>1, <1>4, <3>3 DEF CaRecurs
    <3> QED BY <1>7, <3>1, <3>2, <3>3
  <2>2. \A p, q \in caRows' : p.id = q.id => p = q
    BY <1>1, <1>3, <1>4, <1>7, <1>8 DEF CaNamed
  <2> QED BY <1>0, <1>1, <2>1, <2>2 DEF CaNamed
<1>11. CaFacts'
  <2>1. CaKeepsRows
    BY <1>1, <1>3, <1>4, <1>7 DEF CaKeepsRows
  <2>2. caTag <= caTag' /\ \A v \in CaUids : caServer[v].at <= caServer'[v].at
    BY <1>0 DEF CaTypes
  <2> QED BY <1>0, <1>7, <1>9, <1>10, <2>1, <2>2, CaEditFacts
<1>12. CaInvitedStays'
  BY <1>0, <1>1, <1>7 DEF CaInvitedStays
<1>13. ASSUME "raced" \notin caHist'
       PROVE  /\ \A s \in CaSyncs : caSync'[s] = CaIdleSync
              /\ \A c, d \in caCals' : c = d
              /\ \A r \in caRows' : r.cal \in caCals'
              /\ CaLeft' /\ CaOnce' /\ CaUnderEdit' /\ CaVouched' /\ CaUnlinked'
  <2>1. "raced" \notin caHist /\ \A s \in CaSyncs : caSync[s] = CaIdleSync
    BY <1>0, <1>1, <1>13, CaEditAlone
  <2>2. /\ \A c, d \in caCals' : c = d
        /\ \A r \in caRows' : r.cal \in caCals'
    BY <1>0, <1>2, <1>3, <1>4, <1>7, <2>1 DEF CaAlone
  <2>3. CaLeft' /\ CaUnlinked' /\ CaUnderEdit'
    BY <1>0, <1>1, <2>1 DEF CaLeft, CaUnlinked, CaUnderEdit
  <2>4. CaOnce'
    <3>1. CaOnce /\ \A q \in caRows : q.key[1] # u
      BY <1>0, <2>1 DEF CaSingle, CaOnce
    <3>2. ASSUME caKind = "caldav", "doubled" \notin caHist, NEW p \in caRows', NEW q \in caRows',
                 p.key[1] = q.key[1], p.key[1] \notin CaSeries
          PROVE  p = q
      <4>1. u \notin CaSeries => ~CaRecurs(u)
        BY DEF CaRecurs
      <4> QED BY <1>3, <1>4, <1>7, <3>1, <3>2, <4>1 DEF CaOnce
    <3> QED BY <1>0, <1>1, <3>2 DEF CaOnce
  <2>5. CaVouched'
    <3>1. \A c, v : CaCovered(c, v)' <=> CaCovered(c, v)
      BY <1>0 DEF CaCovered
    <3> QED BY <1>0, <1>7, <2>1, <3>1, CaSavedStays DEF CaVouched
  <2> QED BY <1>0, <2>1, <2>2, <2>3, <2>4, <2>5
<1> QED BY <1>11, <1>12, <1>13, CaQuietInv

\* CaEditRemote: the event is no longer vouched for, or gone, or was never pulled.
LEMMA CaEditRemoteInv ==
    ASSUME CaInv, NEW row \in caRows, NEW live \in BOOLEAN, CaEditRemote(row, live) PROVE CaInv'
<1> DEFINE u == row.key[1]
           changes == live \/ (row.href # CaNull /\ caServer[row.href].live)
<1> USE DEF CaInv, CaFacts
<1>0. /\ caEdit = CaIdleEdit /\ caHist' = caHist \cup CaRacing
      /\ IF changes THEN CaStamp(u, live) ELSE UNCHANGED <<caServer, caTag>>
      /\ caEdit' = [pc |-> IF live THEN "update" ELSE "delete", uid |-> u,
                   row |-> row.id, at |-> caTag']
      /\ UNCHANGED <<caKind, caAccount, caCals, caToken, caSync, caRows, caLast, caStatus>>
  BY DEF CaEditRemote, CaBegins, CaEditRest
<1>1. u \in CaUids /\ row.id \in Nat /\ row.id <= caLast
  BY DEF CaTypes, CaRowType, CaKeys, CaNamed
<1>2. /\ caTag' \in Nat /\ caTag \in Nat /\ caTag <= caTag'
      /\ caServer' \in [CaUids -> [live : BOOLEAN, at : Nat]]
      /\ \A v \in CaUids : caServer[v].at <= caServer'[v].at /\ caServer'[v].at <= caTag'
                           /\ (caServer[v].at # 0 => caServer'[v].at # 0)
      /\ \A v \in CaUids : v # u => caServer'[v] = caServer[v]
      /\ changes => caServer'[u].at # 0 /\ caTag' = caTag + 1 /\ caServer'[u].at = caTag'
  <2>1. CASE changes
    BY <1>0, <1>1, <2>1, CaStamped DEF CaTypes
  <2>2. CASE ~changes
    BY <1>0, <2>2 DEF CaTypes, CaTags
  <2> QED BY <2>1, <2>2
<1>3. \A c \in CaCalendarIds, v \in CaUids : CaCovered(c, v)' =>
        CaCovered(c, v) /\ caServer'[v] = caServer[v] /\ (changes => v # u)
  <2>1. CASE changes
    BY <1>0, <1>1, <2>1, CaStampCovers
  <2>2. CASE ~changes
    BY <1>0, <2>2 DEF CaCovered
  <2> QED BY <2>1, <2>2
<1>4. changes \/ (~live /\ UNCHANGED caServer /\ (row.href = CaNull \/ ~caServer[row.href].live))
  BY <1>0
<1> HIDE DEF changes
<1>5. /\ caEdit' \in CaEditType /\ caEdit'.uid = u /\ caEdit'.row = row.id /\ caEdit.pc = "idle"
      /\ caEdit'.pc = IF live THEN "update" ELSE "delete"
  BY <1>0, <1>1, <1>2 DEF CaEditType, CaIdleEdit
<1>6. CaTypes' /\ CaTags'
  <2>1. \A v \in CaUids : caServer'[v].live => caServer'[v].at # 0
    <3>1. \A v \in CaUids : caServer[v].live => caServer[v].at # 0
      BY DEF CaTags
    <3>2. changes => caServer'[u].at # 0
      BY <1>2
    <3> QED BY <1>2, <1>4, <3>1, <3>2
  <2> QED BY <1>0, <1>2, <1>5, <2>1 DEF CaTypes, CaTags
<1>7. CaEditPlace'
  BY <1>0, <1>1, <1>2, <1>4, <1>5 DEF CaEditPlace
<1>8. CaNamed'
  <2>1. \A r \in caRows : r.key[1] \in CaUids
    BY DEF CaTypes, CaRowType, CaKeys
  <2> QED BY <1>0, <1>2, <1>5, <2>1 DEF CaNamed
<1>9. CaFacts'
  <2>1. CaKeepsRows /\ caLast <= caLast'
    BY <1>0 DEF CaKeepsRows, CaTypes
  <2> QED BY <1>0, <1>2, <1>6, <1>7, <1>8, <2>1, CaEditFacts
<1>10. CaInvitedStays'
  BY <1>0, <1>5 DEF CaInvitedStays
<1>11. ASSUME "raced" \notin caHist'
       PROVE  /\ \A s \in CaSyncs : caSync'[s] = CaIdleSync
              /\ \A c, d \in caCals' : c = d
              /\ \A r \in caRows' : r.cal \in caCals'
              /\ CaLeft' /\ CaOnce' /\ CaUnderEdit' /\ CaVouched' /\ CaUnlinked'
  <2>1. "raced" \notin caHist /\ \A s \in CaSyncs : caSync[s] = CaIdleSync
    BY <1>0, <1>11, CaBeginsAlone
  <2>2. /\ \A c, d \in caCals' : c = d
        /\ \A r \in caRows' : r.cal \in caCals'
    BY <1>0, <2>1 DEF CaAlone
  <2>3. CaLeft' /\ CaUnlinked'
    BY <1>0, <1>5, <2>1 DEF CaLeft, CaUnlinked
  <2>4. CaOnce'
    BY <1>0, <1>5, <2>1 DEF CaSingle, CaOnce
  <2>5. CaUnderEdit'
    <3>1. changes => \A c \in CaCalendarIds : ~CaCovered(c, u)'
      BY <1>1, <1>3
    <3>2. ASSUME ~changes
          PROVE  \/ ~caServer'[u].live /\ caServer'[u].at # 0
                 \/ \A r \in caRows' : r.id = row.id => r.href = CaNull
      <4>1. CASE row.href = CaNull
        BY <1>0, <4>1 DEF CaNamed
      <4>2. CASE row.href # CaNull
        BY <1>4, <3>2, <4>2 DEF CaNamed
      <4> QED BY <4>1, <4>2
    <3>3. live => changes
      BY <1>4
    <3> QED BY <1>5, <3>1, <3>2, <3>3 DEF CaUnderEdit
  <2>6. CaVouched'
    <3> SUFFICES ASSUME "dropped" \notin caHist, NEW c \in caCals, NEW v \in CaUids,
                        CaCovered(c, v)', caServer'[v].live, NEW k \in CaOccurrences(v)
                 PROVE  CaSaved(v, k)'
      BY <1>0 DEF CaVouched, CaOccurrences, CaRecurs
    <3>1. c \in CaCalendarIds
      BY DEF CaTypes
    <3>2. CaCovered(c, v) /\ caServer'[v] = caServer[v]
      BY <1>3, <3>1
    <3>3. CaSaved(v, k)
      BY <1>5, <2>1, <3>2 DEF CaVouched
    <3> QED BY <1>0, <3>2, <3>3 DEF CaSaved
  <2> QED BY <1>0, <2>1, <2>2, <2>3, <2>4, <2>5, <2>6
<1> QED BY <1>9, <1>10, <1>11, CaQuietInv

\* What CaUpdateRow does to the rows: the edited one keeps its id, calendar and key,
\* other rows of the series make place for its second occurrence.
LEMMA CaUpdateEffect ==
    ASSUME CaFacts, CaUpdateRow
    PROVE  /\ caLast' \in Nat /\ caLast <= caLast' /\ caRows' \subseteq CaRowType
           /\ \A q \in caRows' :
                \/ q \in caRows /\ q.id # caEdit.row
                \/ /\ \E p \in caRows : p.id = q.id /\ p.cal = q.cal /\ p.key = q.key
                   /\ q.id = caEdit.row /\ q.href = caEdit.uid
                \/ /\ CaRecurs(caEdit.uid) /\ q.id = caLast + 2 /\ caLast' = caLast + 2
                   /\ q.key = <<caEdit.uid, 2>> /\ q.href = CaNull
                   /\ \E p \in caRows : p.cal = q.cal
           /\ \A p, q \in caRows' : p.id = q.id => p = q
           /\ \A q \in caRows : q.id # caEdit.row /\ q.key[1] # caEdit.uid => q \in caRows'
           /\ \A q \in caRows : ~CaRecurs(caEdit.uid) => \E p \in caRows' : p.key = q.key
<1> DEFINE u == caEdit.uid
           New(r) == [r EXCEPT !.at = caEdit.at, !.href = u]
           old == {r \in caRows : r.id = caEdit.row}
           new == {New(r) : r \in old}
           others == caRows \ old
           kept == {r \in others : ~CaOfSeries(r)}
           seconds == {CaSecond(r.cal, u) : r \in old}
<1> USE DEF CaFacts
<1>1. u \in CaUids /\ caEdit.at \in Nat /\ caLast \in Nat /\ caEdit.row \in Nat
  BY DEF CaUpdateRow, CaPlaces, CaEditPlace, CaTypes, CaEditType
<1>2. \/ /\ CaRecurs(u) /\ old # {} /\ caLast' = caLast + 2
         /\ caRows' = (kept \cup new) \cup seconds
      \/ (~CaRecurs(u) \/ old = {}) /\ caRows' = others \cup new /\ caLast' = caLast
  BY DEF CaUpdateRow
<1>3. \A r \in caRows : r \in CaRowType /\ r.id <= caLast /\ r.id \in Nat
  BY DEF CaTypes, CaNamed, CaRowType
<1>4. \A r, q \in caRows : r.id = q.id => r = q
  BY DEF CaNamed
<1>5. ASSUME NEW r \in old
      PROVE  /\ New(r) \in CaRowType /\ New(r).id = caEdit.row /\ New(r).id = r.id
             /\ New(r).cal = r.cal /\ New(r).key = r.key /\ New(r).href = u
  BY <1>1, <1>3 DEF CaRowType
<1>6. ASSUME NEW r \in old
      PROVE  /\ CaSecond(r.cal, u) \in CaRowType /\ CaSecond(r.cal, u).id = caLast + 2
             /\ CaSecond(r.cal, u).key = <<u, 2>> /\ CaSecond(r.cal, u).href = CaNull
             /\ CaSecond(r.cal, u).cal = r.cal
  <2>1. <<u, 2>> \in CaKeys /\ r.cal \in CaCalendarIds
    BY <1>1, <1>3 DEF CaKeys, CaRowType
  <2> QED BY <1>1, <2>1 DEF CaSecond, CaRow, CaRowType
<1>7. \A r, q \in old : r = q
  BY <1>4
<1>8. \A q \in new : \E r \in old : q = New(r)
  OBVIOUS
<1>9. \A q \in seconds : \E r \in old : q = CaSecond(r.cal, u)
  OBVIOUS
<1>10. \A r \in old : New(r) \in new
  OBVIOUS
<1>11. /\ \A q \in others : q \in caRows /\ q.id # caEdit.row
       /\ \A q \in caRows : q \in others \/ q \in old
       /\ \A q \in old : q \in caRows /\ q.id = caEdit.row
       /\ kept \subseteq others
       /\ \A q \in others : q.key[1] # u => q \in kept
  BY DEF CaOfSeries
<1>12. \A q \in new : q \in CaRowType /\ q.id = caEdit.row /\ q.href = u
                      /\ \E p \in caRows : p.id = q.id /\ p.cal = q.cal /\ p.key = q.key
  <2> SUFFICES ASSUME NEW q \in new
               PROVE  q \in CaRowType /\ q.id = caEdit.row /\ q.href = u
                      /\ \E p \in caRows : p.id = q.id /\ p.cal = q.cal /\ p.key = q.key
    OBVIOUS
  <2>1. PICK r \in old : q = New(r)
    BY <1>8
  <2>2. r \in caRows
    OBVIOUS
  <2> HIDE DEF New, new, old
  <2> QED BY <1>5, <2>1, <2>2
<1>13. \A q \in seconds : q \in CaRowType /\ q.id = caLast + 2 /\ q.key = <<u, 2>>
       /\ q.href = CaNull
                          /\ \E p \in caRows : p.cal = q.cal
  BY <1>6, <1>9, <1>11
<1>14. (\A p, q \in new : p = q) /\ (\A p, q \in seconds : p = q)
  BY <1>7, <1>8, <1>9
<1>15. \A q \in caRows' : q \in others \/ q \in new
       \/ (q \in seconds /\ CaRecurs(u) /\ caLast' = caLast + 2)
  BY <1>2, <1>11
<1>16. new \subseteq caRows' /\ (\A q \in others : q.key[1] # u \/ ~CaRecurs(u) => q \in caRows')
  BY <1>2, <1>11
<1>17. caLast' \in Nat /\ caLast <= caLast'
  <2>1. caLast' = caLast \/ caLast' = caLast + 2
    BY <1>2
  <2> QED BY <1>1, <2>1
<1>18. \A q \in caRows : ~CaRecurs(u) => \E p \in caRows' : p.key = q.key
  BY <1>5, <1>10, <1>11, <1>16
<1> HIDE DEF u, new, old, others, kept, seconds, New
<1>19. caRows' \subseteq CaRowType
  BY <1>3, <1>11, <1>12, <1>13, <1>15
<1>20. ASSUME NEW q \in caRows'
       PROVE  \/ q \in caRows /\ q.id # caEdit.row
              \/ /\ \E p \in caRows : p.id = q.id /\ p.cal = q.cal /\ p.key = q.key
                 /\ q.id = caEdit.row /\ q.href = u
              \/ /\ CaRecurs(u) /\ q.id = caLast + 2 /\ caLast' = caLast + 2
                 /\ q.key = <<u, 2>> /\ q.href = CaNull
                 /\ \E p \in caRows : p.cal = q.cal
  BY <1>11, <1>12, <1>13, <1>15
<1>21. ASSUME NEW p \in caRows', NEW q \in caRows', p.id = q.id PROVE p = q
  <2>1. \A r \in others : r.id <= caLast /\ r.id \in Nat /\ r.id # caEdit.row
    BY <1>3, <1>11
  <2>2. \A r \in new : r.id = caEdit.row /\ r.id <= caLast
    BY <1>3, <1>12
  <2>3. \A r \in seconds : r.id = caLast + 2
    BY <1>13
  <2>4. \A r, t \in others : r.id = t.id => r = t
    BY <1>4, <1>11
  <2> QED BY <1>1, <1>14, <1>15, <1>21, <2>1, <2>2, <2>3, <2>4
<1>22. \A q \in caRows : q.id # caEdit.row /\ q.key[1] # u => q \in caRows'
  BY <1>11, <1>16
<1> QED BY <1>17, <1>18, <1>19, <1>20, <1>21, <1>22 DEF u

\* CaUpdateRow: nothing vouches for the edited event yet.
LEMMA CaUpdateRowInv == ASSUME CaInv, CaUpdateRow PROVE CaInv'
<1> DEFINE u == caEdit.uid
<1> USE DEF CaInv, CaFacts
<1>0. /\ caEdit.pc = "update" /\ caEdit' = CaIdleEdit
      /\ UNCHANGED <<caKind, caAccount, caCals, caToken, caSync, caServer, caTag, caStatus, caHist>>
  BY DEF CaUpdateRow, CaEditRest
<1>1. /\ u \in CaUids /\ caServer[u].at # 0 /\ caLast \in Nat /\ caEdit.row <= caLast
      /\ caEdit.row \in Nat
      /\ caEdit # CaIdleEdit /\ caEdit'.pc = "idle" /\ caEdit' \in CaEditType
  BY <1>0 DEF CaPlaces, CaEditPlace, CaTypes, CaEditType, CaIdleEdit, CaNull
<1>2. /\ caLast' \in Nat /\ caLast <= caLast' /\ caRows' \subseteq CaRowType
      /\ \A p, q \in caRows' : p.id = q.id => p = q
      /\ \A q \in caRows : q.id # caEdit.row /\ q.key[1] # u => q \in caRows'
      /\ \A q \in caRows : ~CaRecurs(u) => \E p \in caRows' : p.key = q.key
  BY CaUpdateEffect
<1>3. \A q \in caRows' :
        \/ q \in caRows /\ q.id # caEdit.row
        \/ /\ \E p \in caRows : p.id = q.id /\ p.cal = q.cal /\ p.key = q.key
           /\ q.id = caEdit.row /\ q.href = u
        \/ /\ CaRecurs(u) /\ q.id = caLast + 2 /\ caLast' = caLast + 2
           /\ q.key = <<u, 2>> /\ q.href = CaNull
           /\ \E p \in caRows : p.cal = q.cal
  BY CaUpdateEffect
<1>4. \A q \in caRows : q.id = caEdit.row => q.key[1] = u
  BY <1>0 DEF CaNamed
<1>5. CaTypes' /\ CaTags' /\ CaEditPlace'
  BY <1>0, <1>1, <1>2 DEF CaTypes, CaTags, CaEditPlace
<1>6. CaNamed'
  <2>1. ASSUME NEW q \in caRows'
        PROVE  /\ q.id <= caLast'
               /\ q.href # CaNull => q.href = q.key[1] /\ caServer[q.key[1]].at # 0
               /\ caServer[q.key[1]].at # 0 \/ q.key[1] = CaInvited
               /\ caKind = "caldav" /\ q.key[1] \notin CaSeries => q.key = <<q.key[1], 0>>
    <3>1. CASE q \in caRows
      <4>1. q.id \in Nat
        BY <3>1 DEF CaTypes, CaRowType
      <4> QED BY <1>1, <1>2, <3>1, <4>1 DEF CaNamed
    <3>2. CASE q.id = caEdit.row /\ q.href = u /\ \E p \in caRows : p.id = q.id /\ p.key = q.key
      <4>1. PICK p \in caRows : p.id = q.id /\ p.key = q.key
        BY <3>2
      <4>2. q.key[1] = u
        BY <1>4, <3>2, <4>1
      <4> QED BY <1>1, <1>2, <3>2, <4>1, <4>2 DEF CaNamed
    <3>3. CASE CaRecurs(u) /\ q.id = caLast + 2 /\ caLast' = caLast + 2 /\ q.key = <<u, 2>>
          /\ q.href = CaNull
      BY <1>1, <3>3 DEF CaRecurs
    <3> QED BY <1>3, <3>1, <3>2, <3>3
  <2> QED BY <1>0, <1>1, <1>2, <2>1 DEF CaNamed
<1>7. CaFacts'
  <2>1. CaKeepsRows
    BY <1>1, <1>3 DEF CaKeepsRows
  <2>2. caTag <= caTag' /\ \A v \in CaUids : caServer[v].at <= caServer'[v].at
    BY <1>0 DEF CaTypes
  <2> QED BY <1>0, <1>2, <1>5, <1>6, <2>1, <2>2, CaEditFacts
<1>8. CaInvitedStays'
  <2>1. ASSUME NEW r \in caRows, r.key[1] = CaInvited PROVE \E q \in caRows' : q.key[1] = CaInvited
    <3>1. CASE u = CaInvited
      <4>1. ~CaRecurs(u)
        BY <3>1, CaAssumption DEF CaRecurs
      <4> QED BY <1>2, <2>1, <4>1
    <3>2. CASE u # CaInvited
      BY <1>2, <1>4, <2>1, <3>2
    <3> QED BY <3>1, <3>2
  <2> QED BY <1>0, <1>1, <2>1 DEF CaInvitedStays
<1>9. ASSUME "raced" \notin caHist'
      PROVE  /\ \A s \in CaSyncs : caSync'[s] = CaIdleSync
             /\ \A c, d \in caCals' : c = d
             /\ \A r \in caRows' : r.cal \in caCals'
             /\ CaLeft' /\ CaOnce' /\ CaUnderEdit' /\ CaVouched' /\ CaUnlinked'
  <2>1. "raced" \notin caHist /\ \A s \in CaSyncs : caSync[s] = CaIdleSync
    BY <1>0, <1>1, <1>9, CaEditAlone
  <2>2. /\ \A c, d \in caCals' : c = d
        /\ \A r \in caRows' : r.cal \in caCals'
    BY <1>0, <1>3, <2>1 DEF CaAlone
  <2>3. CaLeft'
    <3>1. ~caAccount => caRows' = {} /\ caCals = {}
      BY <1>3, <2>1 DEF CaLeft
    <3> QED BY <1>0, <1>1, <3>1 DEF CaLeft
  <2>4. CaUnlinked' /\ CaUnderEdit'
    BY <1>0, <1>1, <2>1 DEF CaUnlinked, CaUnderEdit
  <2>5. CaOnce'
    <3>1. CaOnce
      BY <2>1 DEF CaSingle
    <3>2. ASSUME caKind = "caldav", "doubled" \notin caHist, NEW p \in caRows', NEW q \in caRows',
                 p.key[1] = q.key[1], p.key[1] \notin CaSeries
          PROVE  p = q
      <4>1. ASSUME NEW t \in caRows', t.key[1] \notin CaSeries
            PROVE  \E o \in caRows : o.id = t.id /\ o.key = t.key
        BY <1>3, <4>1 DEF CaRecurs
      <4>2. PICK o \in caRows : o.id = p.id /\ o.key = p.key
        BY <3>2, <4>1
      <4>3. PICK n \in caRows : n.id = q.id /\ n.key = q.key
        BY <3>2, <4>1
      <4>4. o = n
        BY <3>1, <3>2, <4>2, <4>3 DEF CaOnce
      <4> QED BY <1>2, <4>2, <4>3, <4>4
    <3> QED BY <1>0, <1>1, <3>2 DEF CaOnce
  <2>6. CaVouched'
    <3> SUFFICES ASSUME "dropped" \notin caHist, NEW c \in caCals, NEW v \in CaUids,
                        CaCovered(c, v), caServer[v].live, NEW k \in CaOccurrences(v)
                 PROVE  CaSaved(v, k)'
      BY <1>0 DEF CaVouched, CaOccurrences, CaRecurs, CaCovered
    <3>1. PICK r \in caRows : r.key = k /\ r.at = caServer[v].at /\ r.href = v /\ ~r.series
      BY <1>0, <2>1 DEF CaVouched, CaSaved
    <3>2. k[1] = v
      BY DEF CaOccurrences
    <3>3. v # u
      BY <1>0, <2>1 DEF CaUnderEdit, CaTypes
    <3>4. r \in caRows'
      BY <1>2, <1>4, <3>1, <3>2, <3>3
    <3> QED BY <1>0, <3>1, <3>4 DEF CaSaved
  <2> QED BY <1>0, <2>1, <2>2, <2>3, <2>4, <2>5, <2>6
<1> QED BY <1>7, <1>8, <1>9, CaQuietInv

\* CaDeleteRow: only what nothing vouches for goes.
LEMMA CaDeleteRowInv == ASSUME CaInv, CaDeleteRow PROVE CaInv'
<1> DEFINE u == caEdit.uid
<1> USE DEF CaInv, CaFacts
<1>0. /\ caEdit.pc = "delete" /\ caEdit' = CaIdleEdit
      /\ caRows' = {r \in caRows : r.id # caEdit.row /\ ~CaOfSeries(r)}
      /\ caHist' = caHist \cup (IF u = CaInvited THEN {"erased"} ELSE {})
      /\ UNCHANGED <<caKind, caAccount, caCals, caToken, caSync, caServer, caTag, caLast, caStatus>>
  BY DEF CaDeleteRow, CaEditRest
<1>1. caEdit # CaIdleEdit /\ caEdit'.pc = "idle" /\ caEdit' \in CaEditType
  BY <1>0 DEF CaEditType, CaIdleEdit, CaNull
<1>2. \A r \in caRows : /\ r.id = caEdit.row => r.key[1] = u
                        /\ r \in caRows' \/ r.id = caEdit.row \/ (r.series /\ r.key[1] = u)
  BY <1>0 DEF CaNamed, CaOfSeries
<1>3. caRows' \subseteq caRows
  BY <1>0
<1>4. CaTypes' /\ CaTags' /\ CaEditPlace' /\ CaNamed'
  BY <1>0, <1>1, <1>3 DEF CaTypes, CaTags, CaEditPlace, CaNamed
<1>5. CaFacts'
  <2>1. CaKeepsRows /\ caLast <= caLast' /\ caTag <= caTag'
    BY <1>0, <1>3 DEF CaKeepsRows, CaTypes
  <2>2. \A v \in CaUids : caServer[v].at <= caServer'[v].at
    BY <1>0 DEF CaTypes
  <2> QED BY <1>0, <1>4, <2>1, <2>2, CaEditFacts
<1>6. CaInvitedStays'
  <2>1. "erased" \notin caHist' => u # CaInvited /\ "erased" \notin caHist
    BY <1>0
  <2>2. \A r \in caRows : r.key[1] # u => r \in caRows'
    BY <1>2
  <2> QED BY <1>0, <1>1, <2>1, <2>2 DEF CaInvitedStays
<1>7. ASSUME "raced" \notin caHist'
      PROVE  /\ \A s \in CaSyncs : caSync'[s] = CaIdleSync
             /\ \A c, d \in caCals' : c = d
             /\ \A r \in caRows' : r.cal \in caCals'
             /\ CaLeft' /\ CaOnce' /\ CaUnderEdit' /\ CaVouched' /\ CaUnlinked'
  <2>1. "raced" \notin caHist /\ \A s \in CaSyncs : caSync[s] = CaIdleSync
    BY <1>0, <1>1, <1>7, CaEditAlone
  <2>2. /\ \A c, d \in caCals' : c = d
        /\ \A r \in caRows' : r.cal \in caCals'
    BY <1>0, <1>3, <2>1 DEF CaAlone
  <2>3. CaLeft' /\ CaUnlinked' /\ CaUnderEdit'
    BY <1>0, <1>1, <1>3, <2>1 DEF CaLeft, CaUnlinked, CaUnderEdit
  <2>4. CaOnce'
    BY <1>0, <1>1, <1>3, <2>1 DEF CaSingle, CaOnce
  <2>5. CaVouched'
    <3> SUFFICES ASSUME "dropped" \notin caHist, NEW c \in caCals, NEW v \in CaUids,
                        CaCovered(c, v), caServer[v].live, NEW k \in CaOccurrences(v)
                 PROVE  CaSaved(v, k)'
      BY <1>0 DEF CaVouched, CaOccurrences, CaRecurs, CaCovered
    <3>1. PICK r \in caRows : r.key = k /\ r.at = caServer[v].at /\ r.href = v /\ ~r.series
      BY <1>0, <2>1 DEF CaVouched, CaSaved
    <3>2. k[1] = v /\ v # CaNull /\ c \in CaCalendarIds
      BY CaAssumption DEF CaOccurrences, CaNull, CaTypes
    <3>3. r.id # caEdit.row
      <4> SUFFICES ASSUME r.id = caEdit.row PROVE FALSE
        OBVIOUS
      <4>1. v = u
        BY <1>2, <3>1, <3>2
      <4> QED BY <1>0, <2>1, <3>1, <3>2, <4>1 DEF CaUnderEdit
    <3>4. r \in caRows'
      BY <1>2, <3>1, <3>3
    <3> QED BY <1>0, <3>1, <3>4 DEF CaSaved
  <2> QED BY <1>0, <2>1, <2>2, <2>3, <2>4, <2>5
<1> QED BY <1>5, <1>6, <1>7, CaQuietInv

\* CaEditFails: what was vouched for still is, unless rows were dropped.
LEMMA CaEditFailsInv == ASSUME CaInv, CaEditFails PROVE CaInv'
<1> USE DEF CaInv, CaFacts
<1>0. /\ caEdit # CaIdleEdit /\ caEdit' = CaIdleEdit
      /\ caHist' = caHist \cup (IF caEdit.pc \in {"calendars", "account"} THEN {"dropped"} ELSE {})
      /\ UNCHANGED <<caKind, caAccount, caCals, caToken, caSync, caServer, caTag, caRows, caLast,
           caStatus>>
  BY DEF CaEditFails, CaEditRest
<1>1. caEdit'.pc = "idle" /\ caEdit' \in CaEditType
  BY <1>0 DEF CaEditType, CaIdleEdit, CaNull
<1>2. CaTypes' /\ CaTags' /\ CaEditPlace' /\ CaNamed'
  BY <1>0, <1>1 DEF CaTypes, CaTags, CaEditPlace, CaNamed
<1>3. CaFacts'
  <2>1. CaKeepsRows /\ caLast <= caLast' /\ caTag <= caTag'
    BY <1>0 DEF CaKeepsRows, CaTypes
  <2>2. \A v \in CaUids : caServer[v].at <= caServer'[v].at
    BY <1>0 DEF CaTypes
  <2> QED BY <1>0, <1>2, <2>1, <2>2, CaEditFacts
<1>4. CaInvitedStays'
  BY <1>0, <1>1 DEF CaInvitedStays
<1>5. ASSUME "raced" \notin caHist'
      PROVE  /\ \A s \in CaSyncs : caSync'[s] = CaIdleSync
             /\ \A c, d \in caCals' : c = d
             /\ \A r \in caRows' : r.cal \in caCals'
             /\ CaLeft' /\ CaOnce' /\ CaUnderEdit' /\ CaVouched' /\ CaUnlinked'
  <2>1. "raced" \notin caHist /\ \A s \in CaSyncs : caSync[s] = CaIdleSync
    BY <1>0, <1>5, CaEditAlone
  <2>2. /\ \A c, d \in caCals' : c = d
        /\ \A r \in caRows' : r.cal \in caCals'
    BY <1>0, <2>1 DEF CaAlone
  <2>3. CaLeft' /\ CaUnderEdit'
    BY <1>0, <1>1, <2>1 DEF CaLeft, CaUnderEdit
  <2>4. CaOnce'
    BY <1>0, <1>1, <2>1 DEF CaSingle, CaOnce
  <2>5. CASE caEdit.pc \in {"calendars", "account"}
    <3>1. "dropped" \in caHist'
      BY <1>0, <2>5
    <3>2. CaVouched' /\ CaUnlinked'
      BY <3>1 DEF CaVouched, CaUnlinked
    <3> QED BY <1>0, <2>1, <2>2, <2>3, <2>4, <3>2
  <2>6. CASE caEdit.pc \notin {"calendars", "account"}
    <3>1. caHist' = caHist
      BY <1>0, <2>6
    <3>2. CaUnlinked'
      BY <1>0, <2>1, <2>6, <3>1 DEF CaUnlinked
    <3>3. \A c, v : CaCovered(c, v)' <=> CaCovered(c, v)
      BY <1>0 DEF CaCovered
    <3>4. CaVouched'
      BY <1>0, <2>1, <2>6, <3>1, <3>3, CaSavedStays DEF CaVouched
    <3> QED BY <1>0, <2>1, <2>2, <2>3, <2>4, <3>2, <3>4
  <2> QED BY <2>5, <2>6
<1> QED BY <1>3, <1>4, <1>5, CaQuietInv

\* CaRsvp: the invitation's event is added, again if it was there.
LEMMA CaRsvpInv == ASSUME CaInv, NEW response \in {"accepted", "declined"},
    CaRsvp(response) PROVE CaInv'
<1> DEFINE cal == Min(caCals)
           row == CaRow(caLast + 1, cal, <<CaInvited, 0>>, 0, CaNull, FALSE)
           stores == response = "accepted" /\ caCals # {}
           again == \E r \in caRows : r.key[1] = CaInvited
<1> USE DEF CaInv, CaFacts
<1>0. /\ caEdit = CaIdleEdit /\ "raced" \notin caHist
      /\ CaAdds(IF stores THEN {row} ELSE {})
      /\ caHist' = (caHist \cup CaRacing \cup (IF stores /\ again THEN {"doubled"} ELSE {}))
                     \cup (IF response = "accepted" /\ caCals = {} THEN {"erased"} ELSE {})
      /\ caEdit' = [CaIdleEdit EXCEPT !.pc = response]
      /\ UNCHANGED <<caKind, caAccount, caCals, caToken, caSync, caServer, caTag, caStatus>>
  BY DEF CaRsvp, CaEditRest, CaMayBegin
<1>1. caEdit'.pc = response /\ caEdit.pc = "idle" /\ caEdit' \in CaEditType
  BY <1>0 DEF CaEditType, CaIdleEdit, CaNull
<1>2. stores => cal \in caCals /\ cal \in CaCalendarIds
  <2>1. caCals \in SUBSET Nat /\ caCals \subseteq CaCalendarIds
    BY DEF CaTypes, CaCalendarIds
  <2>2. caCals # {} => cal \in caCals
    BY <2>1, CaMinIn
  <2> QED BY <2>1, <2>2
<1>3. caLast \in Nat /\ \A q \in caRows : q.id <= caLast /\ q.id \in Nat
  BY DEF CaNamed, CaTypes, CaRowType
<1> HIDE DEF cal
<1>4. stores => row \in CaRowType
  <2>1. <<CaInvited, 0>> \in CaKeys
    BY CaAssumption DEF CaKeys
  <2> QED BY <1>2, <1>3, <2>1 DEF CaRow, CaRowType
<1>5. row.id = caLast + 1 /\ row.cal = cal /\ row.key = <<CaInvited, 0>> /\ row.key[1] = CaInvited
      /\ row.href = CaNull
  BY DEF CaRow
<1> HIDE DEF row
<1>6. \/ stores /\ caRows' = caRows \cup {row} /\ caLast' = caLast + 1
      \/ ~stores /\ caRows' = caRows /\ caLast' = caLast
  <2>1. CASE stores
    BY <1>0, <2>1, CaAdded
  <2>2. CASE ~stores
    <3>1. Cardinality({}) = 0
      BY FS_EmptySet
    <3> QED BY <1>0, <1>3, <2>2, <3>1 DEF CaAdds
  <2> QED BY <2>1, <2>2
<1>7. /\ caLast' \in Nat /\ caLast <= caLast' /\ caRows \subseteq caRows'
      /\ \A q \in caRows' : q \in caRows \/ (q = row /\ stores /\ caLast' = caLast + 1)
      /\ stores => row \in caRows'
  BY <1>3, <1>6
<1>8. CaTypes' /\ CaTags' /\ CaEditPlace'
  <2>1. caRows' \subseteq CaRowType
    BY <1>4, <1>7 DEF CaTypes
  <2> QED BY <1>0, <1>1, <1>7, <2>1 DEF CaTypes, CaTags, CaEditPlace
<1>9. CaNamed'
  <2>1. ASSUME NEW q \in caRows'
        PROVE  /\ q.id <= caLast'
               /\ q.href # CaNull => q.href = q.key[1] /\ caServer[q.key[1]].at # 0
               /\ caServer[q.key[1]].at # 0 \/ q.key[1] = CaInvited
               /\ caKind = "caldav" /\ q.key[1] \notin CaSeries => q.key = <<q.key[1], 0>>
    <3>1. CASE q \in caRows
      BY <1>3, <1>7, <3>1 DEF CaNamed
    <3>2. CASE q = row /\ caLast' = caLast + 1
      BY <1>3, <1>5, <3>2
    <3> QED BY <1>7, <3>1, <3>2
  <2>2. \A p, q \in caRows' : p.id = q.id => p = q
    BY <1>3, <1>5, <1>7 DEF CaNamed
  <2> QED BY <1>0, <1>1, <2>1, <2>2 DEF CaNamed
<1>10. CaFacts'
  <2>1. CaKeepsRows
    BY <1>3, <1>5, <1>7 DEF CaKeepsRows
  <2>2. caTag <= caTag' /\ \A v \in CaUids : caServer[v].at <= caServer'[v].at
    BY <1>0 DEF CaTypes
  <2> QED BY <1>0, <1>7, <1>8, <1>9, <2>1, <2>2, CaEditFacts
<1>11. CaInvitedStays'
  <2>1. CASE response = "accepted"
    <3>1. "erased" \notin caHist' => stores
      BY <1>0, <2>1
    <3> QED BY <1>1, <1>5, <1>7, <2>1, <3>1 DEF CaInvitedStays
  <2>2. CASE response = "declined"
    BY <1>0, <1>1, <1>7, <2>2 DEF CaInvitedStays
  <2> QED BY <2>1, <2>2
<1>12. ASSUME "raced" \notin caHist'
       PROVE  /\ \A s \in CaSyncs : caSync'[s] = CaIdleSync
              /\ \A c, d \in caCals' : c = d
              /\ \A r \in caRows' : r.cal \in caCals'
              /\ CaLeft' /\ CaOnce' /\ CaUnderEdit' /\ CaVouched' /\ CaUnlinked'
  <2>1. "raced" \notin caHist /\ \A s \in CaSyncs : caSync[s] = CaIdleSync
    <3>1. ~CaBusy
      BY <1>0, <1>12 DEF CaRacing
    <3> QED BY <1>0, <3>1 DEF CaBusy
  <2>2. /\ \A c, d \in caCals' : c = d
        /\ \A r \in caRows' : r.cal \in caCals'
    BY <1>0, <1>2, <1>5, <1>7, <2>1 DEF CaAlone
  <2>3. CaLeft' /\ CaUnlinked' /\ CaUnderEdit'
    <3>1. ~caAccount => caRows = {} /\ caCals = {}
      BY <2>1 DEF CaLeft
    <3>2. ~caAccount => caRows' = {} /\ caCals = {}
      BY <1>6, <3>1
    <3>3. CaUnlinked'
      BY <1>0, <1>1, <2>1 DEF CaUnlinked
    <3> QED BY <1>0, <1>1, <3>2, <3>3 DEF CaLeft, CaUnderEdit
  <2>4. CaOnce'
    <3>1. CaOnce
      BY <2>1 DEF CaSingle
    <3>2. "doubled" \notin caHist' => "doubled" \notin caHist /\ ~(stores /\ again)
      BY <1>0
    <3>3. ASSUME caKind = "caldav", "doubled" \notin caHist', NEW p \in caRows', NEW q \in caRows',
                 p.key[1] = q.key[1], p.key[1] \notin CaSeries
          PROVE  p = q
      BY <1>5, <1>7, <3>1, <3>2, <3>3 DEF CaOnce
    <3> QED BY <1>0, <1>1, <3>3 DEF CaOnce
  <2>5. CaVouched'
    <3>1. \A c, v : CaCovered(c, v)' <=> CaCovered(c, v)
      BY <1>0 DEF CaCovered
    <3>2. "dropped" \in caHist => "dropped" \in caHist'
      BY <1>0
    <3> QED BY <1>0, <1>1, <1>7, <2>1, <3>1, <3>2, CaSavedStays DEF CaVouched
  <2> QED BY <1>0, <2>1, <2>2, <2>3, <2>4, <2>5
<1> QED BY <1>10, <1>11, <1>12, CaQuietInv

\* CaRsvpStatus: an acceptance has its event.
LEMMA CaRsvpStatusInv == ASSUME CaInv, CaRsvpStatus PROVE CaInv'
<1> USE DEF CaInv, CaFacts
<1>0. /\ caEdit.pc \in {"accepted", "declined"} /\ caStatus' = caEdit.pc /\ caEdit' = CaIdleEdit
      /\ UNCHANGED <<caKind, caAccount, caCals, caToken, caSync, caServer, caTag, caRows, caLast,
           caHist>>
  BY DEF CaRsvpStatus, CaEditRest
<1>1. caEdit # CaIdleEdit /\ caEdit'.pc = "idle" /\ caEdit' \in CaEditType
  BY <1>0 DEF CaEditType, CaIdleEdit, CaNull
<1>2. CaTypes' /\ CaTags' /\ CaEditPlace' /\ CaNamed'
  BY <1>0, <1>1 DEF CaTypes, CaTags, CaEditPlace, CaNamed
<1>3. CaFacts'
  <2>1. CaKeepsRows /\ caLast <= caLast' /\ caTag <= caTag'
    BY <1>0 DEF CaKeepsRows, CaTypes
  <2>2. \A v \in CaUids : caServer[v].at <= caServer'[v].at
    BY <1>0 DEF CaTypes
  <2> QED BY <1>0, <1>2, <2>1, <2>2, CaEditFacts
<1>4. CaInvitedStays'
  BY <1>0, <1>1 DEF CaInvitedStays
<1>5. ASSUME "raced" \notin caHist'
      PROVE  /\ \A s \in CaSyncs : caSync'[s] = CaIdleSync
             /\ \A c, d \in caCals' : c = d
             /\ \A r \in caRows' : r.cal \in caCals'
             /\ CaLeft' /\ CaOnce' /\ CaUnderEdit' /\ CaVouched' /\ CaUnlinked'
  <2>1. "raced" \notin caHist /\ \A s \in CaSyncs : caSync[s] = CaIdleSync
    BY <1>0, <1>1, <1>5, CaEditAlone
  <2>2. /\ \A c, d \in caCals' : c = d
        /\ \A r \in caRows' : r.cal \in caCals'
    BY <1>0, <2>1 DEF CaAlone
  <2>3. CaLeft' /\ CaUnlinked' /\ CaUnderEdit'
    BY <1>0, <1>1, <2>1 DEF CaLeft, CaUnlinked, CaUnderEdit
  <2>4. CaOnce'
    BY <1>0, <1>1, <2>1 DEF CaSingle, CaOnce
  <2>5. CaVouched'
    <3>1. \A c, v : CaCovered(c, v)' <=> CaCovered(c, v)
      BY <1>0 DEF CaCovered
    <3> QED BY <1>0, <2>1, <3>1, CaSavedStays DEF CaVouched
  <2> QED BY <1>0, <2>1, <2>2, <2>3, <2>4, <2>5
<1> QED BY <1>3, <1>4, <1>5, CaQuietInv

-----------------------------------------------------------------------------
(* The deletions. *)

\* CaDeleteCalendar, while a synchronisation may run: its ctag goes with it.
LEMMA CaDeleteCalendarInv == ASSUME CaInv, NEW id \in CaCalendarIds,
    CaDeleteCalendar(id) PROVE CaInv'
<1> USE DEF CaInv, CaFacts
<1>0. /\ id \in caCals /\ "raced" \notin caHist
      /\ caCals' = caCals \ {id} /\ caRows' = {r \in caRows : r.cal \notin {id}}
      /\ caToken' = [c \in DOMAIN caToken |-> IF c \in {id} THEN CaNull ELSE caToken[c]]
      /\ caHist' = (caHist \cup {"erased"}) \cup (IF caKind = "graph" THEN {"dropped"} ELSE {})
      /\ UNCHANGED <<caKind, caServer, caTag, caAccount, caLast, caSync, caEdit, caStatus>>
  BY DEF CaDeleteCalendar, CaDropCalendars, CaMayBegin
<1>1. /\ caToken' \in [CaCalendarIds \cup {0} -> Nat]
      /\ \A c \in CaCalendarIds \cup {0} : caToken'[c] = IF c = id THEN CaNull ELSE caToken[c]
      /\ id # 0
  BY <1>0 DEF CaTypes, CaNull, CaCalendarIds
<1>2. caCals' = {} /\ caRows' = {}
  <2>1. (\A c, d \in caCals : c = d) /\ \A r \in caRows : r.cal \in caCals
    BY <1>0 DEF CaAlone
  <2>2. caCals = {id}
    BY <1>0, <2>1
  <2> QED BY <1>0, <2>1, <2>2
<1>3. CaTypes'
  BY <1>0, <1>1, <1>2 DEF CaTypes
<1>4. CaTags'
  <2>1. caToken'[0] = caToken[0] /\ 0 \notin CaCalendarIds
    BY <1>1 DEF CaCalendarIds
  <2>2. \A c \in CaCalendarIds \cup {0} : caToken'[c] <= caTag
    BY <1>1 DEF CaTags, CaTypes, CaNull
  <2>3. \A c \in CaCalendarIds : caKind # "caldav" \/ c \notin caCals' => caToken'[c] = CaNull
    BY <1>0, <1>1 DEF CaTags
  <2> QED BY <1>0, <2>2, <2>3 DEF CaTags
<1>5. CaPlaces' /\ CaNamed'
  BY <1>0, <1>2 DEF CaPlaces, CaEditPlace, CaPlaceOf, CaTakes, CaNamed
<1>6. CaFound'
  <2>1. \A u : CaOccurrences(u)' = CaOccurrences(u)
    BY <1>0 DEF CaOccurrences, CaRecurs
  <2> QED BY <1>0, <1>2, <2>1 DEF CaFound, CaFoundOf
<1>7. CaInvitedStays' /\ CaLeft'
  BY <1>0, <1>2 DEF CaInvitedStays, CaLeft
<1>8. CaAlone'
  BY <1>0, <1>2 DEF CaAlone, CaAloneOf, CaTakes
<1>9. CaSingle'
  BY <1>2 DEF CaSingle, CaSingleOf, CaOnce
<1>10. \A c \in CaCalendarIds, u \in CaUids : CaCovered(c, u)' => CaCovered(c, u)
  BY <1>0, <1>1 DEF CaCovered
<1>11. CaUnderEdit'
  <2>1. caEdit.pc \in {"update", "delete"} => caEdit.uid \in CaUids
    BY DEF CaPlaces, CaEditPlace
  <2>2. \A r \in caRows' : r.href = CaNull
    BY <1>2
  <2> QED BY <1>0, <1>2, <1>10, <2>1, <2>2 DEF CaUnderEdit
<1>12. CaVouched'
  BY <1>2 DEF CaVouched
<1>13. CaUnlinked'
  BY <1>0 DEF CaUnlinked
<1>14. CaSyncVouches'
  <2> SUFFICES ASSUME "dropped" \notin caHist', NEW s \in CaSyncs PROVE CaVouchesOf(s)'
    BY DEF CaSyncVouches
  <2>1. caKind # "graph" /\ "dropped" \notin caHist
    BY <1>0
  <2>2. CaVouchesOf(s)
    BY <1>0, <2>1 DEF CaSyncVouches
  <2>3. CaStores(s) => CaStoring(s)'
    <3>1. \A u \in CaUids : ~CaCovers(s, u)'
      BY <1>0, <1>2, <2>1 DEF CaCovers
    <3> QED BY <1>0, <1>2, <2>1, <2>2, <3>1 DEF CaVouchesOf, CaStoring
  <2> QED BY <1>0, <2>1, <2>3 DEF CaVouchesOf, CaStores
<1> QED BY <1>3, <1>4, <1>5, <1>6, <1>7, <1>8, <1>9, <1>11, <1>12, <1>13, <1>14

\* CaDeleteEvents: the account's deletion begins with every row.
LEMMA CaDeleteEventsInv == ASSUME CaInv, CaDeleteEvents PROVE CaInv'
<1> USE DEF CaInv, CaFacts
<1>0. /\ caEdit = CaIdleEdit /\ caAccount /\ caRows' = {}
      /\ caEdit' = [CaIdleEdit EXCEPT !.pc = "calendars"]
      /\ caHist' = caHist \cup CaRacing \cup {"erased"}
      /\ UNCHANGED <<caKind, caAccount, caCals, caToken, caSync, caServer, caTag, caLast, caStatus>>
  BY DEF CaDeleteEvents, CaEditRest
<1>1. caEdit'.pc = "calendars" /\ caEdit' \in CaEditType
  BY <1>0 DEF CaEditType, CaIdleEdit, CaNull
<1>2. CaTypes' /\ CaTags' /\ CaEditPlace' /\ CaNamed'
  BY <1>0, <1>1 DEF CaTypes, CaTags, CaEditPlace, CaNamed
<1>3. CaFacts'
  <2>1. CaKeepsRows /\ caLast <= caLast' /\ caTag <= caTag'
    BY <1>0 DEF CaKeepsRows, CaTypes
  <2>2. \A v \in CaUids : caServer[v].at <= caServer'[v].at
    BY <1>0 DEF CaTypes
  <2> QED BY <1>0, <1>2, <2>1, <2>2, CaEditFacts
<1>4. CaInvitedStays'
  BY <1>0 DEF CaInvitedStays
<1>5. ASSUME "raced" \notin caHist'
      PROVE  /\ \A s \in CaSyncs : caSync'[s] = CaIdleSync
             /\ \A c, d \in caCals' : c = d
             /\ \A r \in caRows' : r.cal \in caCals'
             /\ CaLeft' /\ CaOnce' /\ CaUnderEdit' /\ CaVouched' /\ CaUnlinked'
  <2>1. "raced" \notin caHist /\ \A s \in CaSyncs : caSync[s] = CaIdleSync
    BY <1>0, <1>5, CaBeginsAlone
  <2>2. /\ \A c, d \in caCals' : c = d
        /\ \A r \in caRows' : r.cal \in caCals'
    BY <1>0, <2>1 DEF CaAlone
  <2>3. CaLeft' /\ CaUnlinked' /\ CaUnderEdit'
    BY <1>0, <1>1 DEF CaLeft, CaUnlinked, CaUnderEdit
  <2>4. CaOnce' /\ CaVouched'
    BY <1>0, <1>1 DEF CaOnce, CaVouched
  <2> QED BY <1>0, <2>1, <2>2, <2>3, <2>4
<1> QED BY <1>3, <1>4, <1>5, CaQuietInv

\* CaDeleteCalendars: then every calendar.
LEMMA CaDeleteCalendarsInv == ASSUME CaInv, CaDeleteCalendars PROVE CaInv'
<1> USE DEF CaInv, CaFacts
<1>0. /\ caEdit.pc = "calendars" /\ caEdit' = [CaIdleEdit EXCEPT !.pc = "account"]
      /\ caCals' = caCals \ CaCalendarIds /\ caRows' = {r \in caRows : r.cal \notin CaCalendarIds}
      /\ caToken' = [c \in DOMAIN caToken |-> IF c \in CaCalendarIds THEN CaNull ELSE caToken[c]]
      /\ UNCHANGED <<caKind, caServer, caTag, caAccount, caLast, caSync, caStatus, caHist>>
  BY DEF CaDeleteCalendars, CaDropCalendars
<1>1. caEdit # CaIdleEdit /\ caEdit'.pc = "account" /\ caEdit' \in CaEditType
  BY <1>0 DEF CaEditType, CaIdleEdit, CaNull
<1>2. caCals' = {} /\ caRows' = {}
  BY <1>0 DEF CaTypes, CaRowType
<1>3. /\ caToken' \in [CaCalendarIds \cup {0} -> Nat]
      /\ \A c \in CaCalendarIds \cup {0} :
           caToken'[c] = IF c \in CaCalendarIds THEN CaNull ELSE caToken[c]
  BY <1>0 DEF CaTypes, CaNull
<1>4. CaTypes' /\ CaEditPlace' /\ CaNamed'
  BY <1>0, <1>1, <1>2, <1>3 DEF CaTypes, CaEditPlace, CaNamed
<1>5. CaTags'
  <2>1. \A c \in CaCalendarIds \cup {0} : caToken'[c] <= caTag
    BY <1>3 DEF CaTags, CaTypes, CaNull
  <2> QED BY <1>0, <1>3, <2>1 DEF CaTags
<1>6. CaFacts'
  <2>1. CaKeepsRows /\ caLast <= caLast' /\ caTag <= caTag'
    BY <1>0, <1>2 DEF CaKeepsRows, CaTypes
  <2>2. \A v \in CaUids : caServer[v].at <= caServer'[v].at
    BY <1>0 DEF CaTypes
  <2> QED BY <1>0, <1>4, <1>5, <2>1, <2>2, CaEditFacts
<1>7. CaInvitedStays'
  BY <1>0 DEF CaInvitedStays
<1>8. ASSUME "raced" \notin caHist'
      PROVE  /\ \A s \in CaSyncs : caSync'[s] = CaIdleSync
             /\ \A c, d \in caCals' : c = d
             /\ \A r \in caRows' : r.cal \in caCals'
             /\ CaLeft' /\ CaOnce' /\ CaUnderEdit' /\ CaVouched' /\ CaUnlinked'
  <2>1. "raced" \notin caHist /\ \A s \in CaSyncs : caSync[s] = CaIdleSync
    BY <1>0, <1>1, <1>8, CaEditAlone
  <2>2. CaLeft' /\ CaUnlinked' /\ CaUnderEdit'
    BY <1>1, <1>2 DEF CaLeft, CaUnlinked, CaUnderEdit
  <2>3. CaOnce' /\ CaVouched'
    BY <1>1, <1>2 DEF CaOnce, CaVouched
  <2> QED BY <1>0, <1>2, <2>1, <2>2, <2>3
<1> QED BY <1>6, <1>7, <1>8, CaQuietInv

\* CaDeleteAccount: and the account with its delta link.
LEMMA CaDeleteAccountInv == ASSUME CaInv, CaDeleteAccount PROVE CaInv'
<1> USE DEF CaInv, CaFacts
<1>0. /\ caEdit.pc = "account" /\ ~caAccount' /\ caAccount' \in BOOLEAN
      /\ caToken' = [caToken EXCEPT ![0] = CaNull] /\ caEdit' = CaIdleEdit
      /\ UNCHANGED <<caKind, caServer, caTag, caCals, caRows, caLast, caSync, caStatus, caHist>>
  BY DEF CaDeleteAccount
<1>1. caEdit # CaIdleEdit /\ caEdit'.pc = "idle" /\ caEdit' \in CaEditType
  BY <1>0 DEF CaEditType, CaIdleEdit, CaNull
<1>2. /\ caToken' \in [CaCalendarIds \cup {0} -> Nat] /\ caToken'[0] = CaNull
      /\ \A c \in CaCalendarIds : caToken'[c] = caToken[c]
  BY <1>0 DEF CaTypes, CaNull, CaCalendarIds
<1>3. CaTypes' /\ CaEditPlace' /\ CaNamed'
  BY <1>0, <1>1, <1>2 DEF CaTypes, CaEditPlace, CaNamed
<1>4. CaTags'
  <2>1. \A c \in CaCalendarIds \cup {0} : caToken'[c] <= caTag
    BY <1>2 DEF CaTags, CaTypes, CaNull
  <2> QED BY <1>0, <1>2, <2>1 DEF CaTags
<1>5. CaFacts'
  <2>1. CaKeepsRows /\ caLast <= caLast' /\ caTag <= caTag'
    BY <1>0 DEF CaKeepsRows, CaTypes
  <2>2. \A v \in CaUids : caServer[v].at <= caServer'[v].at
    BY <1>0 DEF CaTypes
  <2> QED BY <1>0, <1>3, <1>4, <2>1, <2>2, CaEditFacts
<1>6. CaInvitedStays'
  BY <1>0, <1>1 DEF CaInvitedStays
<1>7. ASSUME "raced" \notin caHist'
      PROVE  /\ \A s \in CaSyncs : caSync'[s] = CaIdleSync
             /\ \A c, d \in caCals' : c = d
             /\ \A r \in caRows' : r.cal \in caCals'
             /\ CaLeft' /\ CaOnce' /\ CaUnderEdit' /\ CaVouched' /\ CaUnlinked'
  <2>1. "raced" \notin caHist /\ \A s \in CaSyncs : caSync[s] = CaIdleSync
    BY <1>0, <1>1, <1>7, CaEditAlone
  <2>2. caRows = {} /\ caCals = {}
    BY <1>0, <2>1 DEF CaLeft
  <2>3. CaLeft' /\ CaUnlinked' /\ CaUnderEdit'
    BY <1>0, <1>1, <1>2, <2>2 DEF CaLeft, CaUnlinked, CaUnderEdit
  <2>4. CaOnce' /\ CaVouched'
    BY <1>0, <1>1, <2>2 DEF CaOnce, CaVouched
  <2> QED BY <1>0, <2>1, <2>2, <2>3, <2>4
<1> QED BY <1>5, <1>6, <1>7, CaQuietInv

-----------------------------------------------------------------------------
\* Every step keeps the invariant.
LEMMA CaStep == CaInv /\ [CaNext]_caVars => CaInv'
<1> SUFFICES ASSUME CaInv, [CaNext]_caVars PROVE CaInv'
  OBVIOUS
<1>1. ASSUME NEW u \in CaUids, CaRemote(u) \/ CaCreateRemote(u) PROVE CaInv'
  BY <1>1, CaRemoteInv, CaCreateRemoteInv
<1>2. ASSUME NEW s \in CaSyncs,
             CaBeginSync(s) \/ CaSelectCalendar(s) \/ CaInsertCalendar(s) \/ CaReadCtag(s)
      PROVE  CaInv'
  BY <1>2, CaBeginSyncInv, CaSelectCalendarInv, CaInsertCalendarInv, CaReadCtagInv
<1>3. ASSUME NEW s \in CaSyncs,
             CaPull(s) \/ CaSelectEvent(s) \/ CaWriteEvent(s) \/ CaSaveToken(s)
      PROVE  CaInv'
  BY <1>3, CaPullInv, CaSelectEventInv, CaWriteEventInv, CaSaveTokenInv
<1>4. ASSUME NEW s \in CaSyncs, CaSyncFails(s) PROVE CaInv'
  BY <1>4, CaSyncFailsInv DEF CaSyncFails, CaSyncRest
<1>5. ASSUME NEW row \in caRows, NEW live \in BOOLEAN, CaEditRemote(row, live) PROVE CaInv'
  BY <1>5, CaEditRemoteInv
<1>6. CASE CaCreateRow \/ CaUpdateRow \/ CaDeleteRow \/ CaEditFails
  BY <1>6, CaCreateRowInv, CaUpdateRowInv, CaDeleteRowInv, CaEditFailsInv
<1>7. ASSUME NEW r \in {"accepted", "declined"}, CaRsvp(r) PROVE CaInv'
  BY <1>7, CaRsvpInv
<1>8. ASSUME NEW id \in CaCalendarIds, CaDeleteCalendar(id) PROVE CaInv'
  BY <1>8, CaDeleteCalendarInv
<1>9. CASE CaRsvpStatus \/ CaDeleteEvents \/ CaDeleteCalendars \/ CaDeleteAccount
  BY <1>9, CaRsvpStatusInv, CaDeleteEventsInv, CaDeleteCalendarsInv, CaDeleteAccountInv
<1>10. CASE UNCHANGED caVars
  <2>1. /\ UNCHANGED <<caKind, caServer, caTag, caAccount, caCals, caToken>>
        /\ UNCHANGED <<caRows, caLast, caSync, caEdit, caStatus, caHist>>
    BY <1>10 DEF caVars
  <2>2. \A u : CaOccurrences(u)' = CaOccurrences(u)
    BY <2>1 DEF CaOccurrences, CaRecurs
  <2>3. \A s \in CaSyncs : CaPending(s)' = CaPending(s)
    BY <2>1 DEF CaPending
  <2>4. CaFacts'
    BY <2>1, <2>2, <2>3 DEF CaInv, CaFacts, CaTypes, CaTags, CaPlaces, CaPlaceOf, CaEditPlace,
        CaTakes,
       CaNamed, CaFound, CaFoundOf
  <2>5. CaInvitedStays' /\ CaAlone' /\ CaLeft' /\ CaUnlinked'
    BY <2>1 DEF CaInv, CaInvitedStays, CaAlone, CaAloneOf, CaTakes, CaLeft, CaUnlinked
  <2>6. CaSingle'
    BY <2>1, <2>3 DEF CaInv, CaSingle, CaSingleOf, CaMatching, CaOnce
  <2>7. CaUnderEdit' /\ CaVouched'
    BY <2>1, <2>2 DEF CaInv, CaUnderEdit, CaVouched, CaCovered, CaSaved
  <2>8. CaSyncVouches'
    BY <2>1, <2>2 DEF CaInv, CaSyncVouches, CaVouchesOf, CaTakes, CaStores, CaStoring, CaCovers,
        CaSaved
  <2> QED BY <2>4, <2>5, <2>6, <2>7, <2>8 DEF CaInv
<1> QED BY <1>1, <1>2, <1>3, <1>4, <1>5, <1>6, <1>7, <1>8, <1>9, <1>10 DEF CaNext

\* The invariant's parts are what the properties ask.
LEMMA CaKept == CaInv => CaCalendarKept
<1> SUFFICES ASSUME CaInv PROVE CaCalendarKept
  OBVIOUS
<1> USE DEF CaInv, CaFacts
<1>1. CaNoChangeSkipped
  <2> SUFFICES ASSUME CaQuiet, "dropped" \notin caHist, NEW c \in caCals, NEW u \in CaUids,
                      CaCovered(c, u), caServer[u].live, NEW k \in CaOccurrences(u)
               PROVE  \E r \in caRows : r.key = k /\ r.at = caServer[u].at
    BY DEF CaNoChangeSkipped, CaCovered
  <2>1. "raced" \notin caHist /\ caEdit.pc = "idle"
    BY DEF CaQuiet, CaBusy, CaIdleEdit
  <2> QED BY <2>1 DEF CaVouched, CaSaved
<1>2. CaOneRow
  <2> SUFFICES ASSUME caKind = "caldav", caHist \cap {"raced", "doubled"} = {},
                      NEW u \in CaUids \ CaSeries
               PROVE  Cardinality({r \in caRows : r.key[1] = u}) <= 1
    BY DEF CaOneRow
  <2> DEFINE S == {r \in caRows : r.key[1] = u}
  <2>1. \A p, q \in S : p = q
    BY DEF CaSingle, CaOnce
  <2>2. CASE S = {}
    <3>1. Cardinality(S) = 0
      BY <2>2, FS_EmptySet
    <3> QED BY <3>1
  <2>3. CASE S # {}
    <3>1. PICK p : S = {p}
      BY <2>1, <2>3
    <3>2. Cardinality(S) = 1
      BY <3>1, FS_Singleton
    <3> QED BY <3>2
  <2> QED BY <2>2, <2>3
<1>3. CaNoOrphans
  BY DEF CaNoOrphans, CaLeft
<1>4. CaAcceptedIsStored
  BY DEF CaAcceptedIsStored, CaInvitedStays
<1> QED BY <1>1, <1>2, <1>3, <1>4 DEF CaCalendarKept

\* What the synchronisation, the event handlers, RSVP and the deletions keep of the local
\* calendar: a stored ctag or delta link vouches for the events it covers, a CalDAV event
\* has one row, a deleted account leaves nothing, an accepted invitation is stored.
THEOREM CalendarKept == CaSpec => []CaCalendarKept
<1>1. CaInv => CaCalendarKept
  BY CaKept
<1> QED BY <1>1, CaInitInv, CaStep, PTL DEF CaSpec
=============================================================================
