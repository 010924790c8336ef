---------------------------- MODULE ContactEdits ----------------------------
(***************************************************************************)
(* Edits of one contact through the three provider adapters, beside other  *)
(* clients of the address book, a sync and the lazy fetch of its photo.    *)
(* An edit is remote first: read the row, send it under the version the    *)
(* row has, store what was sent under the version of the answer.           *)
(***************************************************************************)
EXTENDS Integers, FiniteSets

CONSTANTS CeEdits,      \* concurrent requests of the user
          CeMaxVersion  \* bound: versions of the contact on the server

ASSUME CeAssumption == CeMaxVersion \in Nat

VARIABLES
    ceKind,    \* contact_accounts.type
    ceServer,  \* the provider's contact: [alive, version, extras, photo]
    ceRow,     \* the row of contacts, with "basis", the server version its
               \*   content is of, or CeNone
    ceBlob,    \* the photo under the contact's key in the blob store
    ceCall,    \* each edit: [pc, op, seen, version, basis]
    ceCursor,  \* contact_books.sync_cursor: the server version it is at
    cePage,    \* the sync's page that is not yet applied, or CeNone
    cePhoto,   \* get_photo: [pc, bytes, version]
    ceHist     \* history: "blind" an answer had no version; "lost" an update
               \*   overwrote a change it had not seen; "late" a sync was past
               \*   what an edit stored; "crossed" get_photo met another writer

ceVars == <<ceKind, ceServer, ceRow, ceBlob, ceCall, ceCursor, cePage, cePhoto, ceHist>>

CeNone == [alive |-> FALSE]
CeQuiet == [pc |-> "idle", op |-> "none", seen |-> CeNone, version |-> 0, basis |-> 0]
CeNoPhoto == [pc |-> "idle", bytes |-> 0, version |-> 0]
CeHasRow == ceRow.alive

(* "phone": a work number; "group": a membership; "custom": a property     *)
(* Mailquill does not know.                                                *)
CeExtras == {"phone", "group", "custom"}

CeInit ==
    /\ ceKind \in {"carddav", "google", "graph"}
    /\ ceServer = [alive |-> FALSE, version |-> 0, extras |-> {}, photo |-> 0]
    /\ ceRow = CeNone /\ ceBlob = 0
    /\ ceCall = [e \in CeEdits |-> CeQuiet]
    /\ ceCursor = 0 /\ cePage = CeNone /\ cePhoto = CeNoPhoto /\ ceHist = {}

CeNext1 == ceServer.version + 1
CeCanChange == ceServer.version < CeMaxVersion

(* Another client writes the whole contact, or deletes it. *)
CeOther ==
    /\ CeCanChange
    /\ \/ \E photo \in {ceServer.photo, CeNext1} :
            ceServer' = [alive |-> TRUE, version |-> CeNext1, extras |-> CeExtras, photo |-> photo]
       \/ ceServer.alive /\ ceServer' = [ceServer EXCEPT !.alive = FALSE, !.version = CeNext1]
    /\ UNCHANGED <<ceKind, ceRow, ceBlob, ceCall, ceCursor, cePage, cePhoto, ceHist>>

-----------------------------------------------------------------------------
(* What a row keeps of a contact.  vCards are kept whole; the other two    *)
(* kinds only have the known fields, and Graph has no memberships.         *)
CeOfCardDav(s) == s.extras
CeOfGoogle(s) == s.extras \ {"custom"}
CeOfGraph(s) == s.extras \cap {"phone"}

CeShown(s) ==
    CASE ceKind = "carddav" -> CeOfCardDav(s)
      [] ceKind = "google" -> CeOfGoogle(s)
      [] ceKind = "graph" -> CeOfGraph(s)

(* The contact on the server after an update.  A vCard is replaced by the  *)
(* known fields and the lines of the stored vCard that are not managed,    *)
(* its photo among them.                                                   *)
CeToCardDav(seen) == [extras |-> seen.extras, photo |-> seen.photo]

(* The update mask names the memberships, which the body does not have.    *)
CeToGoogle(seen) ==
    [extras |-> (seen.extras \cap {"phone"}) \cup (ceServer.extras \cap {"custom"}),
     photo |-> ceServer.photo]

(* The numbers of businessPhones are labelled "business" in the row, and   *)
(* the body's businessPhones are those labelled "work".                    *)
CeToGraph(seen) ==
    [extras |-> ceServer.extras \ {"phone"}, photo |-> ceServer.photo]

CeWritten(seen) ==
    LET w == CASE ceKind = "carddav" -> CeToCardDav(seen)
               [] ceKind = "google" -> CeToGoogle(seen)
               [] ceKind = "graph" -> CeToGraph(seen)
    IN [alive |-> TRUE, version |-> CeNext1, extras |-> w.extras, photo |-> w.photo]

-----------------------------------------------------------------------------
CeFree == {e \in CeEdits : ceCall[e].pc = "idle"}
CeEditRest == UNCHANGED <<ceKind, ceBlob, ceCursor, cePage, cePhoto>>

(* create_contact; its contact is the one modelled if none was there yet.  *)
CeCreate(e) ==
    /\ e \in CeFree /\ ceServer.version = 0 /\ \A f \in CeEdits : ceCall[f].op # "create"
    /\ ceCall' = [ceCall EXCEPT ![e] = [CeQuiet EXCEPT !.pc = "send", !.op = "create"]]
    /\ CeEditRest /\ UNCHANGED <<ceServer, ceRow, ceHist>>

(* update_contact reads the row that its changes are merged into. *)
CeUpdate(e) ==
    /\ e \in CeFree /\ CeHasRow
    /\ ceCall' = [ceCall EXCEPT ![e] = [CeQuiet EXCEPT !.pc = "send", !.op = "update", !.seen = ceRow]]
    /\ CeEditRest /\ UNCHANGED <<ceServer, ceRow, ceHist>>

CeDelete(e) ==
    /\ e \in CeFree /\ CeHasRow
    /\ ceCall' = [ceCall EXCEPT ![e] = [CeQuiet EXCEPT !.pc = "send", !.op = "delete", !.seen = ceRow]]
    /\ CeEditRest /\ UNCHANGED <<ceServer, ceRow, ceHist>>

(* The provider lets a request under a version pass while it is current,   *)
(* one without a version always.  CardDAV: If-Match, on PUT and DELETE.    *)
CeVersionOf(e) == ceCall[e].seen.version
CeMatches(e) == CeVersionOf(e) = 0 \/ (ceServer.alive /\ CeVersionOf(e) = ceServer.version)

(* Google: the etag in the body of an update; a deletion has none. *)
CeGooglePasses(e) ==
    IF ceCall[e].op = "delete" THEN TRUE ELSE ceServer.alive /\ CeMatches(e)

(* Graph: If-Match, on PATCH and DELETE; neither creates a contact. *)
CeGraphPasses(e) == ceServer.alive /\ CeMatches(e)

CePasses(e) ==
    CASE ceCall[e].op = "create" -> ceServer.version = 0
      [] ceCall[e].op # "create" /\ ceKind = "carddav" -> CeMatches(e)
      [] ceCall[e].op # "create" /\ ceKind = "google" -> CeGooglePasses(e)
      [] ceCall[e].op # "create" /\ ceKind = "graph" -> CeGraphPasses(e)

(* The version of the answer to an update: the ETag header, which a        *)
(* CardDAV server may leave out.                                           *)
CeAnswers == IF ceKind = "carddav" THEN {0, CeNext1} ELSE {CeNext1}

CeAnswered(e, version) ==
    ceCall' = [ceCall EXCEPT ![e].pc = "persist", ![e].version = version, ![e].basis = CeNext1]

CeSendWrite(e) ==
    /\ ceCall[e].pc = "send" /\ ceCall[e].op # "delete"
    /\ CeCanChange /\ CePasses(e)
    /\ ceServer' = IF ceCall[e].op = "create"
                   THEN [alive |-> TRUE, version |-> CeNext1, extras |-> {}, photo |-> 0]
                   ELSE CeWritten(ceCall[e].seen)
    /\ \E version \in CeAnswers :
         /\ CeAnswered(e, version)
         /\ ceHist' = ceHist \cup (IF version = 0 THEN {"blind"} ELSE {})
                \cup (IF ceCall[e].op = "update" /\ ceCall[e].seen.basis # ceServer.version
                      THEN {"lost"} ELSE {})
    /\ CeEditRest /\ UNCHANGED ceRow

(* A contact that is not there counts as deleted. *)
CeSendDelete(e) ==
    /\ ceCall[e].pc = "send" /\ ceCall[e].op = "delete"
    /\ IF ceServer.alive
       THEN /\ CePasses(e) /\ CeCanChange
            /\ ceServer' = [ceServer EXCEPT !.alive = FALSE, !.version = CeNext1]
            /\ CeAnswered(e, 0)
       ELSE /\ ceServer' = ceServer
            /\ ceCall' = [ceCall EXCEPT ![e].pc = "persist", ![e].basis = ceServer.version]
    /\ CeEditRest /\ UNCHANGED <<ceRow, ceHist>>

(* A conflict, or any other status: the request ends, nothing is stored. *)
CeRefused(e) ==
    /\ ceCall[e].pc = "send" /\ ~CePasses(e)
    /\ ceCall' = [ceCall EXCEPT ![e] = CeQuiet]
    /\ CeEditRest /\ UNCHANGED <<ceServer, ceRow, ceHist>>

(* The answer does not arrive, or its JSON is not one: an error, too. *)
CeAnswerLost(e) ==
    /\ ceCall[e].pc = "persist"
    /\ ceCall' = [ceCall EXCEPT ![e] = CeQuiet]
    /\ CeEditRest /\ UNCHANGED <<ceServer, ceRow, ceHist>>

-----------------------------------------------------------------------------
(* upsert_contact.  The cached photo stays while photo_version does. *)
CeSameVersion(photoVersion) == CeHasRow /\ ceRow.photoVersion = photoVersion
CeStoredRow(version, basis, extras, photo, photoVersion) ==
    [alive |-> TRUE, version |-> version, basis |-> basis, extras |-> extras, photo |-> photo,
     photoVersion |-> photoVersion,
     key |-> CeHasRow /\ CeSameVersion(photoVersion) /\ ceRow.key]

(* What was sent becomes the row, without a photo: what a reader finds of  *)
(* the photo is in the stored vCard, which stays as it was.                *)
CePersist(e) ==
    LET call == ceCall[e] IN
    /\ call.pc = "persist"
    /\ ceRow' = CASE call.op = "create" -> CeStoredRow(call.version, call.basis, {}, 0, 0)
                  [] call.op = "update" ->
                          CeStoredRow(call.version, call.basis, call.seen.extras \ {"group"},
                                      call.seen.photo, 0)
                  [] call.op = "delete" -> CeNone
    /\ ceHist' = ceHist \cup (IF ceCursor > call.basis THEN {"late"} ELSE {})
                        \cup (IF cePhoto.pc # "idle" THEN {"crossed"} ELSE {})
    /\ ceCall' = [ceCall EXCEPT ![e] = CeQuiet]
    /\ CeEditRest /\ UNCHANGED ceServer

(* A sync's page: the contact as it is now, if it changed since the cursor. *)
CeFetch ==
    /\ ~cePage.alive /\ ceServer.version > ceCursor
    /\ cePage' = [alive |-> TRUE, server |-> ceServer]
    /\ UNCHANGED <<ceKind, ceServer, ceRow, ceBlob, ceCall, ceCursor, cePhoto, ceHist>>

CePhotoVersion(s) == IF ceKind # "graph" /\ s.photo = 0 THEN 0 ELSE s.version
CeCursorNow == ceServer.version
CeCursorOf == cePage.server.version

CeApply ==
    LET s == cePage.server IN
    /\ cePage.alive
    /\ ceRow' = IF s.alive
                THEN CeStoredRow(s.version, s.version, CeShown(s), s.photo, CePhotoVersion(s))
                ELSE CeNone
    /\ ceCursor' = CeCursorOf
    /\ cePage' = CeNone
    /\ ceHist' = IF cePhoto.pc # "idle" THEN ceHist \cup {"crossed"} ELSE ceHist
    /\ UNCHANGED <<ceKind, ceServer, ceBlob, ceCall, cePhoto>>

-----------------------------------------------------------------------------
(* get_photo, of a row without cached bytes.  The provider's adapter first *)
(* (Graph ignores the reference, the others need one, which the row lacks  *)
(* after an edit), then the stored vCard.                                  *)
CePhotoRest == UNCHANGED <<ceKind, ceServer, ceCall, ceCursor, cePage>>

CeFetched(bytes, version) ==
    /\ bytes # 0
    /\ cePhoto' = [pc |-> "put", bytes |-> bytes, version |-> version]
    /\ ceHist' = IF bytes # ceRow.photo THEN ceHist \cup {"crossed"} ELSE ceHist

(* A photo fetched from the provider may have an ETag of its own; -1       *)
(* stands for any, as none is ever a contact's version.                    *)
CePhotoOfGraph ==
    /\ ceKind = "graph" /\ ceServer.alive
    /\ \E version \in {0, -1} : CeFetched(ceServer.photo, version)

CePhotoOfUrl ==
    /\ ceKind # "graph" /\ ceRow.photoVersion # 0
    /\ \E version \in {0, -1} : CeFetched(ceRow.photo, version)

CePhotoOfVcard ==
    /\ ceKind = "carddav"
    /\ CeFetched(ceRow.photo, 0)

CeGetPhoto ==
    /\ cePhoto.pc = "idle" /\ CeHasRow /\ ~ceRow.key
    /\ CePhotoOfGraph \/ CePhotoOfUrl \/ CePhotoOfVcard
    /\ CePhotoRest /\ UNCHANGED <<ceRow, ceBlob>>

CePutPhoto ==
    /\ cePhoto.pc = "put"
    /\ ceBlob' = cePhoto.bytes
    /\ cePhoto' = [cePhoto EXCEPT !.pc = "update"]
    /\ CePhotoRest /\ UNCHANGED <<ceRow, ceHist>>

CeKeyPhoto ==
    /\ cePhoto.pc = "update"
    /\ ceRow' = IF CeHasRow
                THEN [ceRow EXCEPT !.key = TRUE,
                                   !.photoVersion = IF cePhoto.version = 0 THEN @ ELSE cePhoto.version]
                ELSE ceRow
    /\ cePhoto' = CeNoPhoto
    /\ CePhotoRest /\ UNCHANGED <<ceBlob, ceHist>>

CeNext ==
    \/ CeOther \/ CeFetch \/ CeApply \/ CeGetPhoto \/ CePutPhoto \/ CeKeyPhoto
    \/ \E e \in CeEdits :
         \/ CeCreate(e) \/ CeUpdate(e) \/ CeDelete(e) \/ CeSendWrite(e) \/ CeSendDelete(e)
         \/ CeRefused(e) \/ CeAnswerLost(e) \/ CePersist(e)

CeSpec == CeInit /\ [][CeNext]_ceVars

-----------------------------------------------------------------------------
(* An update that was computed from an old row overwrites another client's *)
(* change only after the provider answered an earlier update without a     *)
(* version, which leaves a row whose next update is unconditional.         *)
CeLostNeedsBlind == "lost" \in ceHist => "blind" \in ceHist

(* A row under the current version has the content of that version: the    *)
(* next conditional update then overwrites nothing it did not show.        *)
CeVersionTells ==
    CeHasRow /\ ceRow.version # 0 /\ ceRow.version = ceServer.version => ceRow.basis = ceServer.version

(* Once the cursor is past every change, the row is the server's contact,  *)
(* whatever requests are open, unless an edit stored what it had written   *)
(* after a sync had applied a later change.                                *)
CeStaleNeedsLate ==
    "late" \notin ceHist /\ ceCursor = ceServer.version
    => /\ CeHasRow <=> ceServer.alive
       /\ CeHasRow => ceRow.basis = ceServer.version

(* The cached photo of a row that is up to date is the provider's, unless  *)
(* get_photo stored it while another writer changed the row, an update     *)
(* replaced the photo unseen, or an edit stored late: the row of an older  *)
(* version whose photo is then cached keeps it when the next edit stores a *)
(* newer version, for neither has a photo version to tell them apart.      *)
CePhotoCurrent ==
    ceHist \cap {"crossed", "late", "lost"} = {} /\ CeHasRow /\ ceRow.key
    /\ ceRow.basis = ceServer.version /\ ceServer.alive
    => ceBlob = ceServer.photo

(* What versions, cursors and photo versions keep of a contact that the    *)
(* user, the sync and other clients change, under one name.                *)
CeContactKept == CeLostNeedsBlind /\ CeVersionTells /\ CeStaleNeedsLate /\ CePhotoCurrent
=============================================================================
