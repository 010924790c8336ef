---------------------------- MODULE MailboxProofs ----------------------------
(***************************************************************************)
(* What the user asks of one mailbox, for every number of messages, uids,  *)
(* concurrent requests and edits: drafts and their delivery, the bodies,   *)
(* attachments and verdicts of messages, the moves between folders, the    *)
(* list that is paged through while messages come and go, and the threads  *)
(* that messages are grouped in.  Each of them has its inductive           *)
(* invariant: the types, the places a request or task may be in with what  *)
(* it holds there, and one part per promise, which says what is half way   *)
(* while a request is open.                                                *)
(***************************************************************************)
EXTENDS Compose, MessageBodies, MailMoves, MailList, Threading, SequenceTheorems,
        FiniteSetTheorems, NaturalsInduction, WellFoundedInduction, TLAPS

-----------------------------------------------------------------------------
(* Drafts and sending. *)

\* A save and a send, field by field.
DrSaveType == [pc : {"idle", "put", "rows"}, version : Nat]
DrSendType ==
    [pc : {"idle", "deliver", "append", "cleanup", "blob", "sent", "failed", "gone"},
     version : Nat, draft : BOOLEAN]

\* The types, and that versions are those the author wrote.
DrTypes ==
    /\ drVersion \in Nat /\ drBlob \in Nat
    /\ drRow \in 0 .. drVersion /\ drLatest \in 0 .. drVersion
    /\ drCreated \in BOOLEAN /\ drDelivered \subseteq Nat
    /\ drSave \in [DrSaves -> DrSaveType] /\ drSend \in [DrSends -> DrSendType]
    /\ \A s \in DrSaves :
        /\ drSave[s].version <= drVersion
        /\ drSave[s].pc = "idle" <=> drSave[s] = DrIdle
        /\ drSave[s].pc # "idle" => drSave[s].version > 0

\* The draft's row was there and is not: nothing brings it back.
DrGone == drCreated /\ drRow = 0

\* Whoever deletes a blob deleted the row before, and a save at its transaction put
\* a body there unless the draft went meanwhile.
DrBodies ==
    /\ drRow # 0 => drCreated /\ drBlob # 0
    /\ ~DrGone => drDelete # "blob" /\ \A d \in DrSends : drSend[d].pc # "blob"
    /\ \A s \in DrSaves : drSave[s].pc = "rows" => drBlob # 0 \/ DrGone

\* Without a race one save at a time is under way: until it puts its body the blob
\* is the row's, and then it is its own.
DrOneSave ==
    "raced" \notin drHist =>
        /\ \A s, t \in DrSaving : s = t
        /\ "cut" \notin drHist /\ ~DrGone =>
             \/ drBlob = drRow /\ \A s \in DrSaves : drSave[s].pc # "rows"
             \/ \E s \in DrSaves : drSave[s].pc = "rows" /\ drBlob = drSave[s].version

\* What was saved last is no newer than what is sent, as long as nothing is saved
\* after the send was accepted; and what is done with is delivered.
DrSent ==
    /\ drRow # 0 => drRow = drLatest
    /\ ~drCreated => drLatest = 0
    /\ \A d \in DrSends :
        /\ "edited" \notin drHist /\ drSend[d].pc # "idle" => drLatest <= drSend[d].version
        /\ drSend[d].pc \in {"append", "cleanup", "blob", "sent"}
             => drSend[d].version \in drDelivered
    /\ drHist \cap {"edited", "purged", "discarded"} = {} /\ DrGone =>
        \E v \in drDelivered : v >= drLatest

DrInv == DrTypes /\ DrBodies /\ DrOneSave /\ DrSent

\* Nothing is written, saved or sent at first.
LEMMA DrInitInv == DrInit => DrInv
<1> SUFFICES ASSUME DrInit PROVE DrInv
  OBVIOUS
<1>1. DrTypes
  <2>1. drSave \in [DrSaves -> DrSaveType] /\ \A s \in DrSaves : drSave[s] = DrIdle
    BY DEF DrInit, DrSaveType, DrIdle
  <2>2. drSend \in [DrSends -> DrSendType]
    BY DEF DrInit, DrSendType, DrUnsent
  <2>3. \A s \in DrSaves : drSave[s].pc = "idle" /\ drSave[s].version = 0
    BY <2>1 DEF DrIdle
  <2>4. drVersion = 0 /\ drRow = 0 /\ drBlob = 0 /\ drLatest = 0
    BY DEF DrInit
  <2>5. drCreated \in BOOLEAN /\ drDelivered \subseteq Nat
    BY DEF DrInit
  <2> QED BY <2>1, <2>2, <2>3, <2>4, <2>5 DEF DrTypes
<1>2. DrBodies /\ DrSent
  BY DEF DrInit, DrBodies, DrSent, DrGone, DrIdle, DrUnsent
<1>3. DrOneSave
  BY DEF DrInit, DrOneSave, DrSaving, DrIdle
<1> QED BY <1>1, <1>2, <1>3 DEF DrInv

\* Every step of a save, a send, a deletion, a purge and a restart keeps the invariant.
LEMMA DrStep == ASSUME DrInv, [DrNext]_drVars PROVE DrInv'
<1> USE DEF DrInv
<1>1. ASSUME NEW s \in DrSaves, DrBeginSave(s) PROVE DrInv'
  <2>1. DrTypes'
    BY <1>1 DEF DrBeginSave, DrTypes, DrSaveType, DrSaveRest
  <2>2. DrBodies'
    BY <1>1 DEF DrBeginSave, DrBodies, DrSaveRest, DrGone
  <2>3. DrOneSave'
    BY <1>1 DEF DrBeginSave, DrOneSave, DrTypes, DrSaving, DrGone
  <2>4. DrSent'
    BY <1>1 DEF DrBeginSave, DrSent, DrSaveRest, DrGone
  <2> QED BY <2>1, <2>2, <2>3, <2>4
<1>2. ASSUME NEW s \in DrSaves, DrPutBody(s) PROVE DrInv'
  <2>1. DrTypes'
    BY <1>2 DEF DrPutBody, DrTypes, DrSaveType, DrSaveRest, DrIdle
  <2>2. DrBodies'
    BY <1>2 DEF DrPutBody, DrBodies, DrTypes, DrSaveRest, DrGone
  <2>3. DrOneSave'
    BY <1>2 DEF DrPutBody, DrOneSave, DrTypes, DrSaving
  <2>4. DrSent'
    BY <1>2 DEF DrPutBody, DrSent, DrSaveRest, DrGone
  <2> QED BY <2>1, <2>2, <2>3, <2>4
<1>3. ASSUME NEW s \in DrSaves, DrCommit(s) PROVE DrInv'
  <2>1. DrTypes'
    BY <1>3 DEF DrCommit, DrTypes, DrSaveType, DrIdle
  <2>2. DrBodies'
    BY <1>3 DEF DrCommit, DrBodies, DrHasParent, DrGone
  <2>3. DrOneSave'
    BY <1>3 DEF DrCommit, DrOneSave, DrSaving, DrIdle, DrHasParent, DrGone
  <2>4. DrSent'
    BY <1>3 DEF DrCommit, DrSent, DrTypes, DrGone
  <2> QED BY <2>1, <2>2, <2>3, <2>4
<1>4. ASSUME NEW s \in DrSaves, DrSaveFails(s) PROVE DrInv'
  <2>1. DrTypes'
    BY <1>4 DEF DrSaveFails, DrTypes, DrSaveType, DrSaveRest, DrIdle
  <2>2. DrBodies'
    BY <1>4 DEF DrSaveFails, DrBodies, DrSaveRest, DrIdle, DrGone
  <2>3. DrOneSave'
    BY <1>4 DEF DrSaveFails, DrOneSave, DrSaveRest, DrSaving, DrIdle, DrGone
  <2>4. DrSent'
    BY <1>4 DEF DrSaveFails, DrSent, DrSaveRest, DrGone
  <2> QED BY <2>1, <2>2, <2>3, <2>4
<1>5. ASSUME NEW d \in DrSends, DrAccept(d) PROVE DrInv'
  <2>1. DrTypes'
    BY <1>5 DEF DrAccept, DrTypes, DrSendType, DrSendRest
  <2>2. DrBodies'
    BY <1>5 DEF DrAccept, DrBodies, DrSendRest, DrGone
  <2>3. DrOneSave'
    BY <1>5 DEF DrAccept, DrOneSave, DrSendRest, DrSaving, DrGone
  <2>4. DrSent'
    BY <1>5 DEF DrAccept, DrSent, DrTypes, DrSendRest, DrGone
  <2> QED BY <2>1, <2>2, <2>3, <2>4
<1>6. ASSUME NEW d \in DrSends, DrDeliver(d) PROVE DrInv'
  <2>1. DrTypes'
    BY <1>6 DEF DrDeliver, DrTypes, DrSendType, DrSendRest, DrSendGoes
  <2>2. DrBodies'
    BY <1>6 DEF DrDeliver, DrBodies, DrSendRest, DrSendGoes, DrGone
  <2>3. DrOneSave'
    BY <1>6 DEF DrDeliver, DrOneSave, DrSendRest, DrSaving, DrGone
  <2>4. DrSent'
    BY <1>6 DEF DrDeliver, DrSent, DrSendRest, DrSendGoes
  <2> QED BY <2>1, <2>2, <2>3, <2>4
<1>7. ASSUME NEW d \in DrSends, DrAppend(d) PROVE DrInv'
  <2>1. DrTypes'
    BY <1>7 DEF DrAppend, DrTypes, DrSendType, DrSendRest, DrSendGoes
  <2>2. DrBodies'
    BY <1>7 DEF DrAppend, DrBodies, DrSendRest, DrSendGoes, DrGone
  <2>3. DrOneSave'
    BY <1>7 DEF DrAppend, DrOneSave, DrSendRest, DrSaving, DrGone
  <2>4. DrSent'
    BY <1>7 DEF DrAppend, DrSent, DrSendRest, DrSendGoes
  <2> QED BY <2>1, <2>2, <2>3, <2>4
<1>8. ASSUME NEW d \in DrSends, DrDeliveryFails(d) PROVE DrInv'
  <2>1. DrTypes'
    BY <1>8 DEF DrDeliveryFails, DrTypes, DrSendType, DrSendRest, DrSendGoes, DrAfterFailure
  <2>2. DrBodies'
    BY <1>8 DEF DrDeliveryFails, DrBodies, DrSendRest, DrSendGoes, DrAfterFailure, DrGone
  <2>3. DrOneSave'
    BY <1>8 DEF DrDeliveryFails, DrOneSave, DrSendRest, DrSaving, DrGone
  <2>4. DrSent'
    BY <1>8 DEF DrDeliveryFails, DrSent, DrSendRest, DrSendGoes, DrAfterFailure, DrGone
  <2> QED BY <2>1, <2>2, <2>3, <2>4
<1>9. ASSUME NEW d \in DrSends, DrCleanRow(d) PROVE DrInv'
  <2>1. DrTypes'
    BY <1>9 DEF DrCleanRow, DrTypes, DrSendType, DrSendRest, DrSendGoes
  <2>2. DrBodies'
    BY <1>9 DEF DrCleanRow, DrBodies, DrTypes, DrSendType, DrSendRest, DrSendGoes, DrGone
  <2>3. DrOneSave'
    BY <1>9 DEF DrCleanRow, DrOneSave, DrBodies, DrSendRest, DrSaving, DrGone
  <2>4. DrSent'
    BY <1>9 DEF DrCleanRow, DrSent, DrTypes, DrSendType, DrSendRest, DrSendGoes
  <2> QED BY <2>1, <2>2, <2>3, <2>4
<1>10. ASSUME NEW d \in DrSends, DrCleanBlob(d) PROVE DrInv'
  <2>1. DrTypes'
    BY <1>10 DEF DrCleanBlob, DrTypes, DrSendType, DrSendRest, DrSendGoes
  <2>2. DrBodies'
    BY <1>10 DEF DrCleanBlob, DrBodies, DrSendRest, DrGone
  <2>3. DrOneSave'
    BY <1>10 DEF DrCleanBlob, DrOneSave, DrBodies, DrSendRest, DrSaving, DrGone
  <2>4. DrSent'
    BY <1>10 DEF DrCleanBlob, DrSent, DrSendRest, DrSendGoes
  <2> QED BY <2>1, <2>2, <2>3, <2>4
<1>11. ASSUME DrDeleteRow PROVE DrInv'
  <2>1. DrTypes'
    BY <1>11 DEF DrDeleteRow, DrTypes, DrDeleteRest
  <2>2. DrBodies'
    BY <1>11 DEF DrDeleteRow, DrBodies, DrDeleteRest, DrGone
  <2>3. DrOneSave'
    BY <1>11 DEF DrDeleteRow, DrOneSave, DrBodies, DrDeleteRest, DrSaving, DrGone
  <2>4. DrSent'
    BY <1>11 DEF DrDeleteRow, DrSent, DrDeleteRest
  <2> QED BY <2>1, <2>2, <2>3, <2>4
<1>12. ASSUME DrDeleteBlob PROVE DrInv'
  <2>1. DrTypes'
    BY <1>12 DEF DrDeleteBlob, DrTypes, DrDeleteRest
  <2>2. DrBodies'
    BY <1>12 DEF DrDeleteBlob, DrBodies, DrDeleteRest, DrGone
  <2>3. DrOneSave'
    BY <1>12 DEF DrDeleteBlob, DrOneSave, DrBodies, DrDeleteRest, DrSaving, DrGone
  <2>4. DrSent'
    BY <1>12 DEF DrDeleteBlob, DrSent, DrBodies, DrDeleteRest
  <2> QED BY <2>1, <2>2, <2>3, <2>4
<1>13. ASSUME DrPurge PROVE DrInv'
  <2>1. DrTypes'
    BY <1>13 DEF DrPurge, DrTypes, DrDeleteRest
  <2>2. DrBodies'
    BY <1>13 DEF DrPurge, DrBodies, DrDeleteRest, DrGone
  <2>3. DrOneSave'
    BY <1>13 DEF DrPurge, DrOneSave, DrBodies, DrDeleteRest, DrSaving, DrGone
  <2>4. DrSent'
    BY <1>13 DEF DrPurge, DrSent, DrDeleteRest
  <2> QED BY <2>1, <2>2, <2>3, <2>4
<1>14. ASSUME DrRestart PROVE DrInv'
  <2>1. DrTypes'
    BY <1>14 DEF DrRestart, DrTypes, DrSaveType, DrSendType, DrIdle, DrUnsent
  <2>2. DrBodies'
    BY <1>14 DEF DrRestart, DrBodies, DrIdle, DrUnsent
  <2>3. DrOneSave'
    BY <1>14 DEF DrRestart, DrOneSave, DrSaving, DrIdle, DrGone
  <2>4. DrSent'
    BY <1>14 DEF DrRestart, DrSent, DrUnsent, DrGone
  <2> QED BY <2>1, <2>2, <2>3, <2>4
<1>15. CASE UNCHANGED drVars
  BY <1>15 DEF drVars, DrTypes, DrBodies, DrOneSave, DrSent, DrGone, DrSaving
<1> QED BY <1>1, <1>2, <1>3, <1>4, <1>5, <1>6, <1>7, <1>8, <1>9, <1>10, <1>11, <1>12, <1>13, <1>14,
    <1>15 DEF DrNext

\* However saves, sends, deletions, purges and restarts interleave: whoever deletes a body
\* deleted its row before, saves that do not overlap take the body in turns, and what was
\* sent is what was saved last (save_draft, send_email, delete_draft).
THEOREM DraftInvariance == DrSpec => []DrInv
BY DrInitInv, DrStep, PTL DEF DrSpec

\* A draft that is listed can be opened, and with what its row says unless saves overlapped
\* or one ended half way; what was saved last is in the drafts or was delivered unless its
\* author discarded or changed it; and no save under way brings a draft back that was sent
\* or deleted (save_draft, send_email, delete_draft).
THEOREM DraftKept == DrSpec => DrDraftKept
<1>1. DrInv => DrBodyThere /\ DrNothingLost
  BY DEF DrInv, DrTypes, DrBodies, DrOneSave, DrSent, DrBodyThere, DrNothingLost, DrGone,
     DrSaving
<1>2. DrInv /\ [DrNext]_drVars => [drCreated /\ drRow = 0 => drRow' = 0]_drVars
  <2> SUFFICES ASSUME [DrNext]_drVars, drCreated, drRow = 0 PROVE drRow' = 0
    BY DEF drVars
  <2>1. CASE \E s \in DrSaves : DrBeginSave(s) \/ DrPutBody(s) \/ DrCommit(s) \/ DrSaveFails(s)
    BY <2>1 DEF DrBeginSave, DrPutBody, DrCommit, DrSaveFails, DrHasParent
  <2>2. CASE \E d \in DrSends : DrAccept(d) \/ DrDeliver(d) \/ DrAppend(d) \/ DrDeliveryFails(d)
                                 \/ DrCleanRow(d) \/ DrCleanBlob(d)
    BY <2>2 DEF DrAccept, DrDeliver, DrAppend, DrDeliveryFails, DrCleanRow, DrCleanBlob
  <2>3. CASE DrDeleteRow \/ DrDeleteBlob \/ DrPurge \/ DrRestart \/ UNCHANGED drVars
    BY <2>3 DEF DrDeleteRow, DrDeleteBlob, DrPurge, DrRestart, drVars
  <2> QED BY <2>1, <2>2, <2>3 DEF DrNext
<1> QED BY <1>1, <1>2, DraftInvariance, PTL DEF DrSpec, DrDraftKept, DrStaysDeleted

-----------------------------------------------------------------------------
(* Bodies, attachments and verdicts. *)

\* A request, or the synchronisation, field by field.
MbFetching == {"fetch", "body", "row", "clear", "image", "attach", "analyse", "store"}
MbProcType ==
    [pc : MbFetching \cup {"idle", "verdict", "images"}, msg : MbMessages \cup {MbNone},
     then : {MbNone, "analyse", "verdict", "images", "done"}, bad : BOOLEAN,
     shown : MbMessages \cup {MbNone}]

\* The types, and where the synchronisation and a request go from where they are.
MbTypes ==
    /\ mbUid \in [MbMessages -> MbUids] /\ mbMode \in {"lazy", "full"}
    /\ mbKnown \subseteq MbMessages /\ mbBody \subseteq mbKnown
    /\ mbBlob \in [MbUids \X {"body", "image"} -> MbMessages \cup {MbNone}]
    /\ mbImages \in [MbMessages -> Nat] /\ mbVerdict \in [MbMessages -> {MbNone, "clean", "bad"}]
    /\ mbTrusted \in BOOLEAN /\ mbProc \in [MbProcs -> MbProcType]
    /\ mbTrust \in [pc : {"idle", "list", "clear"}, todo : SUBSET MbMessages]

MbPlaced(p) ==
    /\ mbProc[p].pc = "idle" => mbProc[p] = MbIdle
    /\ mbProc[p].pc # "idle" => mbProc[p].msg \in mbKnown
    /\ p = MbSync =>
        /\ mbProc[p].pc \in {"idle", "body", "row", "image", "attach", "analyse", "store"}
        /\ mbMode = "lazy" => mbProc[p].pc \in {"idle", "analyse", "store"}
        /\ mbProc[p].pc # "idle" => mbProc[p].then \in {"analyse", "done"}
        /\ mbProc[p].pc \in {"analyse", "store"} => mbProc[p].then = "analyse"
    /\ p # MbSync /\ mbProc[p].pc \in MbFetching => mbProc[p].then \in {"verdict", "images", "done"}

MbPlaces == \A p \in MbProcs : MbPlaced(p)

\* A row is written after its blob, and a key holds what a message of that uid put there.
MbPointers ==
    /\ \A k \in MbUids \X {"body", "image"} : mbBlob[k] # MbNone => mbUid[mbBlob[k]] = k[1]
    /\ \A m \in mbBody : mbBlob[MbKey(m, "body")] # MbNone
    /\ \A m \in MbMessages : mbImages[m] > 0 => m \in mbKnown /\ mbBlob[MbKey(m, "image")] # MbNone
    /\ \A p \in MbProcs : /\ MbAt(p, "row") => mbBlob[MbKey(MbMsg(p), "body")] # MbNone
                          /\ MbAt(p, "attach") => mbBlob[MbKey(MbMsg(p), "image")] # MbNone

\* Without a race one process at most is at work on a message; one that is about to
\* list its image has cleared the list, or finds it empty.
MbAlone ==
    "raced" \notin mbHist =>
        /\ \A p, q \in MbProcs : mbProc[p].msg = mbProc[q].msg => p = q \/ mbProc[p].msg = MbNone
        /\ "again" \notin mbHist =>
            /\ \A m \in MbMessages : mbImages[m] <= 1
            /\ \A p \in MbProcs : MbAt(p, "image") \/ MbAt(p, "attach") => mbImages[MbMsg(p)] = 0
            /\ MbAt(MbSync, "body") \/ MbAt(MbSync, "row") => mbImages[MbMsg(MbSync)] = 0

\* Once the sender is trusted no analysis finds anything, and what was flagged before
\* is on the list until it is cleared.
MbCleans ==
    /\ mbTrust.pc = "idle" <=> mbTrust = MbNoTrust
    /\ ~mbTrusted => mbTrust = MbNoTrust
    /\ mbTrusted /\ "trustraced" \notin mbHist =>
        /\ \A p \in MbProcs : MbAt(p, "store") => ~mbProc[p].bad
        /\ mbTrust.pc = "idle" => \A m \in MbMessages : mbVerdict[m] # "bad"
        /\ mbTrust.pc = "clear" => MbListed \subseteq mbTrust.todo

\* A stored body has been judged, or whoever stored it is about to.
MbWillJudge(o, m) ==
    MbMsg(o) = m /\ mbProc[o].pc \in {"clear", "image", "attach", "analyse", "store"}

MbJudged ==
    mbHist \cap {"raced", "cut"} = {} /\ ~mbTrusted =>
        /\ \A p \in MbProcs : MbAt(p, "store") => (mbProc[p].bad <=> MbHasBody(p))
        /\ mbMode = "full" => \A m \in mbKnown :
             mbVerdict[m] = "bad" \/ (MbMsg(MbSync) = m /\ mbProc[MbSync].then = "analyse")
        /\ mbMode = "lazy" =>
            /\ \A m \in mbBody : mbVerdict[m] = "bad" \/ \E o \in MbOpens : MbWillJudge(o, m)
            /\ MbMsg(MbSync) \notin mbBody

MbInv == MbTypes /\ MbPlaces /\ MbPointers /\ MbAlone /\ MbCleans /\ MbJudged

\* The others stay where they are when one goes on or ends.
LEMMA MbGoesOn ==
    ASSUME MbTypes, NEW p \in MbProcs, NEW pc, MbMoves(p, pc),
           pc \in MbFetching \cup {"verdict", "images", "done"}
    PROVE  /\ mbProc' \in [MbProcs -> MbProcType]
           /\ \A q \in MbProcs : q # p => mbProc'[q] = mbProc[q]
           /\ pc = "done" => mbProc'[p] = MbIdle
           /\ pc # "done" => /\ mbProc'[p].pc = pc /\ mbProc'[p].msg = mbProc[p].msg
                             /\ mbProc'[p].then = mbProc[p].then /\ mbProc'[p].bad = mbProc[p].bad
<1>1. mbProc[p] \in MbProcType /\ MbIdle \in MbProcType
  BY DEF MbTypes, MbIdle, MbProcType
<1>2. CASE pc = "done"
  BY <1>1, <1>2 DEF MbTypes, MbMoves, MbGoes
<1>3. CASE pc # "done"
  <2> DEFINE r == [mbProc[p] EXCEPT !.pc = pc]
  <2>0. pc \in MbFetching \cup {"idle", "verdict", "images"}
    BY <1>3
  <2>1. /\ r \in MbProcType /\ r.pc = pc /\ r.msg = mbProc[p].msg /\ r.then = mbProc[p].then
        /\ r.bad = mbProc[p].bad
    BY <1>1, <2>0 DEF MbProcType
  <2>2. mbProc' = [mbProc EXCEPT ![p] = r]
    BY <1>3 DEF MbMoves, MbGoes
  <2> HIDE DEF r
  <2> QED BY <1>3, <2>1, <2>2 DEF MbTypes
<1> QED BY <1>2, <1>3

\* Who stays where it is stays in a place that is allowed.
LEMMA MbPlacesFrame ==
    ASSUME MbPlaces, NEW p \in MbProcs, UNCHANGED mbMode, mbKnown \subseteq mbKnown',
           \A q \in MbProcs : q # p => mbProc'[q] = mbProc[q], MbPlaced(p)'
    PROVE  MbPlaces'
<1> SUFFICES ASSUME NEW q \in MbProcs, q # p PROVE MbPlaced(q)'
  BY DEF MbPlaces
<1> QED BY DEF MbPlaces, MbPlaced

\* A key that is put again stays in use, and holds the message it was put for.
LEMMA MbPut ==
    ASSUME MbTypes, MbPointers, UNCHANGED mbUid, NEW m \in MbMessages,
           NEW part \in {"body", "image"},
           mbBlob' = [mbBlob EXCEPT ![MbKey(m, part)] = m]
    PROVE  /\ \A k \in MbUids \X {"body", "image"} :
                 /\ mbBlob[k] # MbNone => mbBlob'[k] # MbNone
                 /\ mbBlob'[k] # MbNone => mbUid'[mbBlob'[k]] = k[1]
           /\ mbBlob'[MbKey(m, part)'] # MbNone
<1>1. MbKey(m, part) \in MbUids \X {"body", "image"} /\ MbKey(m, part)' = MbKey(m, part)
      /\ MbKey(m, part)[1] = mbUid[m]
  BY DEF MbTypes, MbKey
<1>2. \A k \in MbUids \X {"body", "image"} :
        mbBlob'[k] = IF k = MbKey(m, part) THEN m ELSE mbBlob[k]
  BY <1>1 DEF MbTypes
<1>3. m # MbNone
  BY MbAssumption
<1> QED BY <1>1, <1>2, <1>3 DEF MbPointers

\* Pointers hold when no key is given up, what a new row points to is there, and so is
\* what the process that moved is about to point to.
LEMMA MbPointersFrame ==
    ASSUME MbTypes, MbPlaces, MbPointers, UNCHANGED <<mbUid, mbKnown>>, NEW p \in MbProcs,
           \A q \in MbProcs : q # p => mbProc'[q] = mbProc[q],
           \A k \in MbUids \X {"body", "image"} :
             /\ mbBlob[k] # MbNone => mbBlob'[k] # MbNone
             /\ mbBlob'[k] # MbNone => mbUid'[mbBlob'[k]] = k[1],
           \A m \in mbBody' : m \in mbBody \/ mbBlob'[MbKey(m, "body")'] # MbNone,
           \A m \in MbMessages : mbImages'[m] > 0 =>
              mbImages[m] > 0 \/ (m \in mbKnown /\ mbBlob'[MbKey(m, "image")'] # MbNone),
           MbAt(p, "row")' => mbBlob'[MbKey(MbMsg(p), "body")'] # MbNone,
           MbAt(p, "attach")' => mbBlob'[MbKey(MbMsg(p), "image")'] # MbNone
    PROVE  MbPointers'
<1>1. \A m \in MbMessages, part \in {"body", "image"} :
         MbKey(m, part) \in MbUids \X {"body", "image"} /\ MbKey(m, part)' = MbKey(m, part)
  BY DEF MbTypes, MbKey
<1>2. \A m \in mbBody' : mbBlob'[MbKey(m, "body")'] # MbNone
  BY <1>1 DEF MbPointers, MbTypes
<1>3. \A m \in MbMessages : mbImages'[m] > 0 => m \in mbKnown'
      /\ mbBlob'[MbKey(m, "image")'] # MbNone
  BY <1>1 DEF MbPointers
<1>4. ASSUME NEW q \in MbProcs, q # p
      PROVE  /\ MbAt(q, "row")' => mbBlob'[MbKey(MbMsg(q), "body")'] # MbNone
             /\ MbAt(q, "attach")' => mbBlob'[MbKey(MbMsg(q), "image")'] # MbNone
  <2>1. MbMsg(q)' = MbMsg(q) /\ mbProc'[q] = mbProc[q]
    BY <1>4 DEF MbMsg
  <2>2. mbProc[q].pc # "idle" => MbMsg(q) \in MbMessages
    BY <1>4 DEF MbPlaces, MbPlaced, MbTypes, MbMsg
  <2>3. CASE MbAt(q, "row")
    <3>1. mbBlob'[MbKey(MbMsg(q), "body")] # MbNone
          /\ MbKey(MbMsg(q), "body")' = MbKey(MbMsg(q), "body")
      BY <1>1, <1>4, <2>2, <2>1, <2>3 DEF MbPointers, MbAt, MbKey
    <3> QED BY <2>1, <2>3, <3>1 DEF MbAt
  <2>4. CASE MbAt(q, "attach")
    <3>1. mbBlob'[MbKey(MbMsg(q), "image")] # MbNone
          /\ MbKey(MbMsg(q), "image")' = MbKey(MbMsg(q), "image")
      BY <1>1, <1>4, <2>2, <2>1, <2>4 DEF MbPointers, MbAt, MbKey
    <3> QED BY <2>1, <2>4, <3>1 DEF MbAt
  <2> QED BY <2>1, <2>3, <2>4 DEF MbAt
<1>5. \A k \in MbUids \X {"body", "image"} : mbBlob'[k] # MbNone => mbUid'[mbBlob'[k]] = k[1]
  OBVIOUS
<1>6. \A q \in MbProcs : /\ MbAt(q, "row")' => mbBlob'[MbKey(MbMsg(q), "body")'] # MbNone
                         /\ MbAt(q, "attach")' => mbBlob'[MbKey(MbMsg(q), "image")'] # MbNone
  BY <1>4
<1> QED BY <1>2, <1>3, <1>5, <1>6 DEF MbPointers

\* Every step of a request, the synchronisation and the marking keeps the invariant.
LEMMA MbStep == ASSUME MbInv, [MbNext]_mbVars PROVE MbInv'
<1> USE MbAssumption DEF MbInv
<1>1. ASSUME NEW m \in MbMessages, MbImport(m) PROVE MbInv'
  <2>1. MbTypes'
    BY <1>1 DEF MbImport, MbTypes, MbProcType, MbInput, MbIdle, MbFetching
  <2>2. MbPlaces'
    BY <1>1 DEF MbImport, MbPlaces, MbPlaced, MbTypes, MbProcType, MbProcs, MbMoves, MbGoes,
       MbEnds, MbInput, MbStores, MbFetches, MbOverlap, MbBusy, MbMsg, MbAt, MbIdle, MbFetching,
       MbAfterFailedPut, MbCleared, MbAnalysed, MbHasBody, MbFindsBad, MbTrustRest, MbListed,
       MbAnalysing, MbNoTrust
  <2>3. MbPointers'
    BY <1>1 DEF MbImport, MbPointers, MbKey, MbInput, MbMsg, MbAt
  <2>4. MbAlone'
    BY <1>1 DEF MbImport, MbAlone, MbTypes, MbPointers, MbEnds, MbOverlap, MbBusy, MbMsg, MbAt
  <2>5. MbCleans'
    BY <1>1 DEF MbImport, MbCleans, MbAt, MbListed
  <2>6. MbJudged'
    BY <1>1 DEF MbImport, MbJudged, MbTypes, MbWillJudge, MbProcs, MbInput, MbMsg, MbAt,
       MbIdle, MbHasBody
  <2> QED BY <2>1, <2>2, <2>3, <2>4, <2>5, <2>6
<1>2. ASSUME NEW o \in MbOpens, NEW m \in MbMessages, MbOpen(o, m) PROVE MbInv'
  <2>n. PICK r \in MbProcType :
            /\ mbProc' = [mbProc EXCEPT ![o] = r] /\ r.msg = m /\ ~r.bad
            /\ r.pc = "verdict" \/ (r.pc = "fetch" /\ r.then = "verdict")
    <3>1. [MbIdle EXCEPT !.pc = "fetch", !.msg = m, !.then = "verdict"] \in MbProcType
      BY DEF MbIdle, MbProcType, MbFetching
    <3>2. m \in mbBody
          => [MbIdle EXCEPT !.pc = "verdict", !.msg = m,
                            !.shown = mbBlob[MbKey(m, "body")]] \in MbProcType
      BY DEF MbIdle, MbProcType, MbTypes, MbKey
    <3> QED BY <1>2, <3>1, <3>2 DEF MbOpen, MbIdle
  <2>0. /\ UNCHANGED <<mbUid, mbMode, mbKnown, mbBlob, mbBody, mbImages, mbVerdict, mbTrusted,
             mbTrust>>
        /\ o \in MbProcs /\ o # MbSync /\ mbProc[o] = MbIdle /\ m \in mbKnown
             /\ mbHist' = mbHist \cup MbOverlap(m)
        /\ mbProc' \in [MbProcs -> MbProcType] /\ \A q \in MbProcs : q # o => mbProc'[q] = mbProc[q]
        /\ mbProc'[o] = r
    BY <1>2, <2>n DEF MbOpen, MbInput, MbTypes, MbProcs
  <2>1. MbTypes'
    BY <2>0, <2>n DEF MbTypes, MbKey, MbMsg
  <2>2. MbPlaces'
    <3>1. MbPlaced(o)'
      BY <2>0, <2>n DEF MbPlaced, MbFetching
    <3> QED BY <2>0, <2>n, <3>1, MbPlacesFrame
  <2>3. MbPointers'
    BY <2>0, <2>n DEF MbPointers, MbKey, MbMsg, MbAt
  <2>4. MbAlone'
    BY <2>0, <2>n DEF MbOverlap, MbBusy, MbAlone, MbAt, MbMsg
  <2>5. MbCleans'
    BY <2>0, <2>n DEF MbCleans, MbAt, MbListed
  <2>6. MbJudged'
    BY <2>0, <2>n DEF MbJudged, MbAt, MbMsg, MbHasBody, MbWillJudge, MbIdle
  <2> QED BY <2>1, <2>2, <2>3, <2>4, <2>5, <2>6
<1>3. ASSUME NEW o \in MbOpens, NEW m \in MbMessages, MbReanalyse(o, m) PROVE MbInv'
  <2>1. MbTypes'
    BY <1>3 DEF MbReanalyse, MbTypes, MbProcType, MbInput, MbIdle, MbFetching
  <2>2. MbPlaces'
    <3>1. MbPlaced(o)' /\ o \in MbProcs
      BY <1>3 DEF MbReanalyse, MbPlaced, MbTypes, MbProcs
    <3>2. UNCHANGED <<mbMode, mbKnown>> /\ \A q \in MbProcs : q # o => mbProc'[q] = mbProc[q]
      BY <1>3 DEF MbReanalyse, MbTypes, MbInput
    <3> QED BY <3>1, <3>2, MbPlacesFrame
  <2>3. MbPointers'
    BY <1>3 DEF MbReanalyse, MbPointers, MbKey, MbInput, MbMsg, MbAt
  <2>4. MbAlone'
    BY <1>3 DEF MbReanalyse, MbAlone, MbOverlap, MbBusy, MbMsg, MbAt
  <2>5. MbCleans'
    BY <1>3 DEF MbReanalyse, MbCleans, MbAt, MbListed
  <2>6. MbJudged'
    BY <1>3 DEF MbReanalyse, MbJudged, MbWillJudge, MbInput, MbMsg, MbAt, MbIdle, MbHasBody
  <2> QED BY <2>1, <2>2, <2>3, <2>4, <2>5, <2>6
<1>4. ASSUME NEW o \in MbOpens, MbFetch(o) PROVE MbInv'
  <2>m. /\ mbProc[o].pc = "fetch" /\ mbProc[o].msg \in mbKnown /\ o \in MbProcs
        /\ o # MbSync => mbProc[o].then \in {"verdict", "images", "done"}
        /\ o = MbSync => /\ mbProc[o].then \in {"analyse", "done"}
                          /\ "fetch" \in {"body", "row", "image", "attach", "analyse", "store"}
                          /\ mbMode = "full"
    BY <1>4, MbAssumption DEF MbFetch, MbAt, MbPlaces, MbPlaced, MbFetching, MbProcs
  <2>n. PICK pc \in MbFetching \cup {"verdict", "images", "done"} : MbMoves(o, pc)
        /\ pc \in {"body", mbProc[o].then}
    BY <1>4, <2>m DEF MbFetch, MbFetching, MbAfterFailedPut, MbAnalysed
  <2>0. /\ UNCHANGED <<mbUid, mbMode, mbKnown, mbTrusted, mbTrust, mbHist, mbBlob, mbBody,
             mbImages, mbVerdict>>
        /\ mbProc' \in [MbProcs -> MbProcType] /\ \A q \in MbProcs : q # o => mbProc'[q] = mbProc[q]
        /\ pc = "done" => mbProc'[o] = MbIdle
        /\ pc # "done" => /\ mbProc'[o].pc = pc /\ mbProc'[o].msg = mbProc[o].msg
                          /\ mbProc'[o].then = mbProc[o].then /\ mbProc'[o].bad = mbProc[o].bad
    BY <1>4, <2>m, <2>n, MbGoesOn DEF MbFetch, MbStores, MbFetches, MbInput
  <2>1. MbTypes'
    BY <2>m, <2>n, <2>0 DEF MbTypes, MbKey, MbMsg
  <2>2. MbPlaces'
    <3>1. MbPlaced(o)'
      BY <2>m, <2>n, <2>0 DEF MbPlaced, MbFetching, MbIdle
    <3> QED BY <2>m, <2>n, <2>0, <3>1, MbPlacesFrame
  <2>3. MbPointers'
    BY <2>m, <2>n, <2>0 DEF MbPointers, MbKey, MbMsg, MbAt, MbIdle
  <2>4. MbAlone'
    BY <2>m, <2>n, <2>0 DEF MbAlone, MbAt, MbMsg, MbIdle, MbProcs
  <2>5. MbCleans'
    BY <2>m, <2>n, <2>0 DEF MbCleans, MbAt, MbListed, MbIdle
  <2>6. MbJudged'
    BY <2>m, <2>n, <2>0 DEF MbJudged, MbAlone, MbAt, MbMsg, MbHasBody, MbWillJudge, MbTypes,
       MbIdle, MbProcs, MbAfterFailedPut, MbAnalysed, MbFetching, MbNoTrust
  <2> QED BY <2>1, <2>2, <2>3, <2>4, <2>5, <2>6
<1>5. ASSUME NEW o \in MbOpens, MbClear(o) PROVE MbInv'
  <2>m. /\ mbProc[o].pc = "clear" /\ mbProc[o].msg \in mbKnown /\ o \in MbProcs
        /\ o # MbSync => mbProc[o].then \in {"verdict", "images", "done"}
        /\ o = MbSync => /\ mbProc[o].then \in {"analyse", "done"}
                          /\ "clear" \in {"body", "row", "image", "attach", "analyse", "store"}
                          /\ mbMode = "full"
    BY <1>5, MbAssumption DEF MbClear, MbAt, MbPlaces, MbPlaced, MbFetching, MbProcs
  <2>n. PICK pc \in MbFetching \cup {"verdict", "images", "done"} : MbMoves(o, pc) /\ pc = "image"
    BY <1>5, <2>m DEF MbClear, MbFetching, MbAfterFailedPut, MbAnalysed
  <2>0. /\ UNCHANGED <<mbUid, mbMode, mbKnown, mbTrusted, mbTrust, mbHist, mbBlob, mbBody,
             mbVerdict>>
        /\ mbProc' \in [MbProcs -> MbProcType] /\ \A q \in MbProcs : q # o => mbProc'[q] = mbProc[q]
        /\ pc = "done" => mbProc'[o] = MbIdle
        /\ pc # "done" => /\ mbProc'[o].pc = pc /\ mbProc'[o].msg = mbProc[o].msg
                          /\ mbProc'[o].then = mbProc[o].then /\ mbProc'[o].bad = mbProc[o].bad
        /\ mbImages' = [mbImages EXCEPT ![mbProc[o].msg] = 0]
    BY <1>5, <2>m, <2>n, MbGoesOn DEF MbClear, MbStores, MbInput, MbCleared, MbMsg
  <2>1. MbTypes'
    BY <2>m, <2>n, <2>0 DEF MbTypes, MbKey, MbMsg
  <2>2. MbPlaces'
    <3>1. MbPlaced(o)'
      BY <2>m, <2>n, <2>0 DEF MbPlaced
    <3> QED BY <2>m, <2>n, <2>0, <3>1, MbPlacesFrame
  <2>3. MbPointers'
    BY <2>m, <2>n, <2>0 DEF MbPointers, MbKey, MbMsg, MbAt
  <2>4. MbAlone'
    BY <2>m, <2>n, <2>0 DEF MbAlone, MbAt, MbMsg, MbTypes, MbProcs
  <2>5. MbCleans'
    BY <2>m, <2>n, <2>0 DEF MbCleans, MbAt, MbListed
  <2>6. MbJudged'
    BY <2>m, <2>n, <2>0 DEF MbJudged, MbAt, MbMsg, MbHasBody, MbWillJudge, MbProcs
  <2> QED BY <2>1, <2>2, <2>3, <2>4, <2>5, <2>6
<1>6. ASSUME NEW o \in MbOpens, MbWantsVerdict(o) PROVE MbInv'
  <2>n. PICK r \in MbProcType :
            /\ mbProc' = [mbProc EXCEPT ![o] = r] /\ r.msg = mbProc[o].msg
            /\ r.then = "images" /\ r.pc \in {"fetch", "images"}
    <3> DEFINE r == [mbProc[o] EXCEPT !.pc =
                                IF mbVerdict[MbMsg(o)] = MbNone THEN "fetch" ELSE "images",
                                      !.then = "images"]
    <3>1. mbProc[o] \in MbProcType
      BY DEF MbTypes, MbProcs
    <3>2. /\ r \in MbProcType /\ r.msg = mbProc[o].msg /\ r.then = "images"
               /\ r.pc \in {"fetch", "images"}
      BY <3>1 DEF MbProcType, MbFetching
    <3>3. mbProc' = [mbProc EXCEPT ![o] = r]
      BY <1>6 DEF MbWantsVerdict
    <3> QED BY <3>2, <3>3
  <2>m. o \in MbProcs /\ o # MbSync /\ mbProc[o].pc = "verdict" /\ mbProc[o].msg \in mbKnown
    BY <1>6 DEF MbWantsVerdict, MbAt, MbProcs, MbPlaces, MbPlaced
  <2>k. /\ UNCHANGED <<mbUid, mbMode, mbKnown, mbBlob, mbBody, mbImages, mbVerdict, mbTrusted,
             mbTrust, mbHist>>
    BY <1>6 DEF MbWantsVerdict, MbFetches, MbStores, MbInput
  <2>0. /\ mbProc' \in [MbProcs -> MbProcType] /\ \A q \in MbProcs : q # o => mbProc'[q] = mbProc[q]
        /\ mbProc'[o] = r
    BY <2>m, <2>n DEF MbTypes, MbProcs
  <2>1. MbTypes'
    BY <2>m, <2>k, <2>0, <2>n DEF MbTypes, MbKey, MbMsg
  <2>2. MbPlaces'
    <3>1. MbPlaced(o)'
      BY <2>m, <2>k, <2>0, <2>n DEF MbPlaced
    <3> QED BY <2>m, <2>k, <2>0, <2>n, <3>1, MbPlacesFrame
  <2>3. MbPointers'
    BY <2>m, <2>k, <2>0, <2>n DEF MbPointers, MbKey, MbMsg, MbAt
  <2>4. MbAlone'
    BY <2>m, <2>k, <2>0, <2>n DEF MbAlone, MbAt, MbMsg
  <2>5. MbCleans'
    BY <2>m, <2>k, <2>0, <2>n DEF MbCleans, MbAt, MbListed
  <2>6. MbJudged'
    BY <2>m, <2>k, <2>0, <2>n DEF MbJudged, MbAt, MbMsg, MbHasBody, MbWillJudge
  <2> QED BY <2>1, <2>2, <2>3, <2>4, <2>5, <2>6
<1>7. ASSUME NEW o \in MbOpens, MbWantsImages(o) PROVE MbInv'
  <2>n. PICK r \in MbProcType :
            /\ mbProc' = [mbProc EXCEPT ![o] = r]
            /\ r = MbIdle \/ (r.msg = mbProc[o].msg /\ r.then = "done" /\ r.pc = "fetch")
    <3> DEFINE r == [mbProc[o] EXCEPT !.pc = "fetch", !.then = "done"]
    <3>1. mbProc[o] \in MbProcType /\ MbIdle \in MbProcType
      BY DEF MbTypes, MbProcs, MbIdle, MbProcType
    <3>2. r \in MbProcType /\ r.msg = mbProc[o].msg /\ r.then = "done" /\ r.pc = "fetch"
      BY <3>1 DEF MbProcType, MbFetching
    <3>3. mbProc' = [mbProc EXCEPT ![o] = r] \/ mbProc' = [mbProc EXCEPT ![o] = MbIdle]
      BY <1>7 DEF MbWantsImages, MbEnds
    <3> QED BY <3>1, <3>2, <3>3
  <2>0. /\ UNCHANGED <<mbUid, mbMode, mbKnown, mbBlob, mbBody, mbImages, mbVerdict, mbTrusted,
             mbTrust, mbHist>>
        /\ o \in MbProcs /\ o # MbSync /\ mbProc[o].pc = "images" /\ mbProc[o].msg \in mbKnown
        /\ mbProc' \in [MbProcs -> MbProcType] /\ \A q \in MbProcs : q # o => mbProc'[q] = mbProc[q]
        /\ mbProc'[o] = r
    BY <1>7, <2>n DEF MbWantsImages, MbFetches, MbStores, MbInput, MbTypes, MbProcs, MbAt,
       MbPlaces, MbPlaced
  <2>1. MbTypes'
    BY <2>0, <2>n DEF MbTypes, MbKey, MbMsg
  <2>2. MbPlaces'
    <3>1. MbPlaced(o)'
      BY <2>0, <2>n DEF MbPlaced, MbFetching, MbIdle
    <3> QED BY <2>0, <2>n, <3>1, MbPlacesFrame
  <2>3. MbPointers'
    BY <2>0, <2>n DEF MbPointers, MbKey, MbMsg, MbAt, MbIdle
  <2>4. MbAlone'
    BY <2>0, <2>n DEF MbAlone, MbAt, MbMsg, MbIdle
  <2>5. MbCleans'
    BY <2>0, <2>n DEF MbCleans, MbAt, MbListed, MbIdle
  <2>6. MbJudged'
    BY <2>0, <2>n DEF MbJudged, MbAt, MbMsg, MbHasBody, MbWillJudge, MbIdle
  <2> QED BY <2>1, <2>2, <2>3, <2>4, <2>5, <2>6
<1>8. ASSUME NEW p \in MbProcs, MbPutBody(p) PROVE MbInv'
  <2>m. /\ mbProc[p].pc = "body" /\ mbProc[p].msg \in mbKnown /\ p \in MbProcs
        /\ p # MbSync => mbProc[p].then \in {"verdict", "images", "done"}
        /\ p = MbSync => /\ mbProc[p].then \in {"analyse", "done"}
                          /\ "body" \in {"body", "row", "image", "attach", "analyse", "store"}
                          /\ mbMode = "full"
    BY <1>8, MbAssumption DEF MbPutBody, MbAt, MbPlaces, MbPlaced, MbFetching, MbTypes
  <2>n. PICK pc \in MbFetching \cup {"verdict", "images", "done"} : MbMoves(p, pc) /\ pc = "row"
    BY <1>8, <2>m DEF MbPutBody, MbFetching, MbAfterFailedPut, MbAnalysed
  <2>0. /\ UNCHANGED <<mbUid, mbMode, mbKnown, mbTrusted, mbTrust, mbHist, mbBody, mbImages,
             mbVerdict>>
        /\ mbProc' \in [MbProcs -> MbProcType] /\ \A q \in MbProcs : q # p => mbProc'[q] = mbProc[q]
        /\ pc = "done" => mbProc'[p] = MbIdle
        /\ pc # "done" => /\ mbProc'[p].pc = pc /\ mbProc'[p].msg = mbProc[p].msg
                          /\ mbProc'[p].then = mbProc[p].then /\ mbProc'[p].bad = mbProc[p].bad
        /\ mbBlob' = [mbBlob EXCEPT ![MbKey(mbProc[p].msg, "body")] = mbProc[p].msg]
    BY <1>8, <2>m, <2>n, MbGoesOn DEF MbPutBody, MbStores, MbInput, MbMsg
  <2>1. MbTypes'
    BY <2>m, <2>n, <2>0 DEF MbTypes, MbKey, MbMsg
  <2>2. MbPlaces'
    <3>1. MbPlaced(p)'
      BY <2>m, <2>n, <2>0 DEF MbPlaced
    <3> QED BY <2>m, <2>n, <2>0, <3>1, MbPlacesFrame
  <2>3. MbPointers'
    <3>1. CASE mbBlob' = [mbBlob EXCEPT ![MbKey(mbProc[p].msg, "body")] = mbProc[p].msg]
          /\ pc = "row"
      <4>1. mbProc[p].msg \in MbMessages /\ MbMsg(p)' = mbProc[p].msg
        BY <2>m, <2>0, <3>1 DEF MbTypes, MbMsg
      <4>2. /\ \A k \in MbUids \X {"body", "image"} :
                 /\ mbBlob[k] # MbNone => mbBlob'[k] # MbNone
                 /\ mbBlob'[k] # MbNone => mbUid'[mbBlob'[k]] = k[1]
            /\ mbBlob'[MbKey(mbProc[p].msg, "body")'] # MbNone
        BY <2>0, <3>1, <4>1, MbPut
      <4>3. /\ MbAt(p, "row")' => mbBlob'[MbKey(MbMsg(p), "body")'] # MbNone
            /\ MbAt(p, "attach")' => mbBlob'[MbKey(MbMsg(p), "image")'] # MbNone
        BY <2>0, <3>1, <4>1, <4>2 DEF MbAt, MbMsg, MbKey
      <4> QED BY <2>m, <2>0, <4>2, <4>3, MbPointersFrame
    <3> QED BY <2>n, <2>0, <3>1
  <2>4. MbAlone'
    BY <2>m, <2>n, <2>0 DEF MbAlone, MbAt, MbMsg, MbIdle, MbTypes, MbProcs, MbAfterFailedPut,
       MbAnalysed, MbFetching
  <2>5. MbCleans'
    BY <2>m, <2>n, <2>0 DEF MbCleans, MbAt, MbListed
  <2>6. MbJudged'
    BY <2>m, <2>n, <2>0 DEF MbJudged, MbAlone, MbAt, MbMsg, MbHasBody, MbWillJudge, MbTypes,
       MbIdle, MbProcs, MbAfterFailedPut, MbAnalysed, MbFetching, MbNoTrust
  <2> QED BY <2>1, <2>2, <2>3, <2>4, <2>5, <2>6
<1>9. ASSUME NEW p \in MbProcs, MbPutFails(p) PROVE MbInv'
  <2>m. /\ mbProc[p].pc = "body" /\ mbProc[p].msg \in mbKnown /\ p \in MbProcs
        /\ p # MbSync => mbProc[p].then \in {"verdict", "images", "done"}
        /\ p = MbSync => /\ mbProc[p].then \in {"analyse", "done"}
                          /\ "body" \in {"body", "row", "image", "attach", "analyse", "store"}
                          /\ mbMode = "full"
    BY <1>9, MbAssumption DEF MbPutFails, MbAt, MbPlaces, MbPlaced, MbFetching, MbTypes
  <2>n. PICK pc \in MbFetching \cup {"verdict", "images", "done"} : MbMoves(p, pc)
        /\ pc = MbAfterFailedPut(p)
    BY <1>9, <2>m DEF MbPutFails, MbFetching, MbAfterFailedPut, MbAnalysed
  <2>0. /\ UNCHANGED <<mbUid, mbMode, mbKnown, mbTrusted, mbTrust, mbHist, mbBlob, mbBody,
             mbImages, mbVerdict>>
        /\ mbProc' \in [MbProcs -> MbProcType] /\ \A q \in MbProcs : q # p => mbProc'[q] = mbProc[q]
        /\ pc = "done" => mbProc'[p] = MbIdle
        /\ pc # "done" => /\ mbProc'[p].pc = pc /\ mbProc'[p].msg = mbProc[p].msg
                          /\ mbProc'[p].then = mbProc[p].then /\ mbProc'[p].bad = mbProc[p].bad
    BY <1>9, <2>m, <2>n, MbGoesOn DEF MbPutFails, MbStores, MbFetches, MbInput
  <2>1. MbTypes'
    BY <2>m, <2>n, <2>0 DEF MbTypes, MbKey, MbMsg
  <2>2. MbPlaces'
    <3>1. MbPlaced(p)'
      BY <2>m, <2>n, <2>0 DEF MbPlaced, MbFetching, MbIdle, MbAfterFailedPut
    <3> QED BY <2>m, <2>n, <2>0, <3>1, MbPlacesFrame
  <2>3. MbPointers'
    <3>1. ~MbAt(p, "row")' /\ ~MbAt(p, "attach")'
      BY <2>m, <2>n, <2>0 DEF MbAt, MbAfterFailedPut, MbIdle
    <3>2. \A k \in MbUids \X {"body", "image"} : mbBlob[k] # MbNone => mbUid[mbBlob[k]] = k[1]
      BY DEF MbPointers
    <3> QED BY <2>m, <2>0, <3>1, <3>2, MbPointersFrame
  <2>4. MbAlone'
    BY <2>m, <2>n, <2>0 DEF MbAlone, MbAt, MbMsg, MbIdle, MbProcs, MbAfterFailedPut
  <2>5. MbCleans'
    BY <2>m, <2>n, <2>0 DEF MbCleans, MbAt, MbListed, MbIdle, MbAfterFailedPut
  <2>6. MbJudged'
    BY <2>m, <2>n, <2>0 DEF MbJudged, MbAt, MbMsg, MbHasBody, MbWillJudge, MbIdle, MbProcs,
       MbAfterFailedPut
  <2> QED BY <2>1, <2>2, <2>3, <2>4, <2>5, <2>6
<1>10. ASSUME NEW p \in MbProcs, MbInsertBody(p) PROVE MbInv'
  <2>m. /\ mbProc[p].pc = "row" /\ mbProc[p].msg \in mbKnown /\ p \in MbProcs
        /\ p # MbSync => mbProc[p].then \in {"verdict", "images", "done"}
        /\ p = MbSync => /\ mbProc[p].then \in {"analyse", "done"}
                          /\ "row" \in {"body", "row", "image", "attach", "analyse", "store"}
                          /\ mbMode = "full"
    BY <1>10, MbAssumption DEF MbInsertBody, MbAt, MbPlaces, MbPlaced, MbFetching, MbTypes
  <2>n. PICK pc \in MbFetching \cup {"verdict", "images", "done"} : MbMoves(p, pc)
        /\ pc = (IF p = MbSync THEN "image" ELSE "clear")
    BY <1>10, <2>m DEF MbInsertBody, MbFetching, MbAfterFailedPut, MbAnalysed
  <2>0. /\ UNCHANGED <<mbUid, mbMode, mbKnown, mbTrusted, mbTrust, mbHist, mbBlob, mbImages,
             mbVerdict>>
        /\ mbProc' \in [MbProcs -> MbProcType] /\ \A q \in MbProcs : q # p => mbProc'[q] = mbProc[q]
        /\ pc = "done" => mbProc'[p] = MbIdle
        /\ pc # "done" => /\ mbProc'[p].pc = pc /\ mbProc'[p].msg = mbProc[p].msg
                          /\ mbProc'[p].then = mbProc[p].then /\ mbProc'[p].bad = mbProc[p].bad
        /\ mbBody' = mbBody \cup {mbProc[p].msg}
    BY <1>10, <2>m, <2>n, MbGoesOn DEF MbInsertBody, MbStores, MbInput, MbMsg
  <2>1. MbTypes'
    BY <2>m, <2>n, <2>0 DEF MbTypes, MbKey, MbMsg
  <2>2. MbPlaces'
    <3>1. MbPlaced(p)'
      BY <2>m, <2>n, <2>0 DEF MbPlaced
    <3> QED BY <2>m, <2>n, <2>0, <3>1, MbPlacesFrame
  <2>3. MbPointers'
    <3>1. mbProc[p].msg \in MbMessages /\ \A k \in MbUids \X {"body", "image"} :
              mbBlob'[k] # MbNone => mbUid'[mbBlob'[k]] = k[1]
      BY <2>m, <2>0 DEF MbTypes, MbPointers
    <3>2. \A m \in mbBody' : m \in mbBody \/ mbBlob'[MbKey(m, "body")'] # MbNone
      BY <2>m, <2>0, <3>1 DEF MbPointers, MbAt, MbMsg, MbKey
    <3>3. ~MbAt(p, "row")' /\ ~MbAt(p, "attach")'
      BY <2>m, <2>n, <2>0 DEF MbAt, MbAnalysed, MbIdle
    <3> QED BY <2>m, <2>0, <3>1, <3>2, <3>3, MbPointersFrame
  <2>4. MbAlone'
    BY <2>m, <2>n, <2>0 DEF MbAlone, MbAt, MbMsg, MbProcs
  <2>5. MbCleans'
    BY <2>m, <2>n, <2>0 DEF MbCleans, MbAt, MbListed
  <2>6. MbJudged'
    <3> SUFFICES ASSUME mbHist \cap {"raced", "cut"} = {}, ~mbTrusted PROVE MbJudged'
      BY <2>0 DEF MbJudged
    <3>1. \A q \in MbProcs : MbAt(q, "store")' => (mbProc'[q].bad <=> MbHasBody(q)')
      BY <2>n, <2>0 DEF MbJudged, MbAt, MbHasBody
    <3>2. ASSUME mbMode = "full", NEW m \in mbKnown
          PROVE  mbVerdict[m] = "bad"
                 \/ (mbProc'[MbSync].msg = m /\ mbProc'[MbSync].then = "analyse")
      BY <2>m, <2>n, <2>0, <3>2 DEF MbJudged, MbMsg, MbProcs
    <3>3. ASSUME mbMode = "lazy" PROVE p # MbSync
      BY <2>m, <3>3 DEF MbPlaces, MbPlaced
    <3>4. ASSUME mbMode = "lazy", NEW m \in mbBody'
          PROVE  mbVerdict[m] = "bad" \/ \E o \in MbOpens : MbWillJudge(o, m)'
      <4>1. CASE m \in mbBody
        <5>1. CASE mbVerdict[m] = "bad"
          BY <5>1
        <5>2. CASE \E o \in MbOpens : MbWillJudge(o, m)
          BY <2>m, <2>n, <2>0, <3>3, <3>4, <5>2 DEF MbWillJudge, MbMsg, MbProcs
        <5> QED BY <3>4, <4>1, <5>1, <5>2 DEF MbJudged
      <4>2. CASE m = mbProc[p].msg
        BY <2>m, <2>n, <2>0, <3>3, <3>4, <4>2 DEF MbWillJudge, MbMsg, MbProcs
      <4> QED BY <2>0, <3>4, <4>1, <4>2
    <3>5. ASSUME mbMode = "lazy" PROVE mbProc'[MbSync].msg \notin mbBody'
      BY <2>m, <2>0, <3>3, <3>5 DEF MbJudged, MbAlone, MbMsg, MbProcs, MbTypes
    <3> QED BY <2>0, <3>1, <3>2, <3>4, <3>5 DEF MbJudged, MbMsg
  <2> QED BY <2>1, <2>2, <2>3, <2>4, <2>5, <2>6
<1>11. ASSUME NEW p \in MbProcs, MbPutImage(p) PROVE MbInv'
  <2>m. /\ mbProc[p].pc = "image" /\ mbProc[p].msg \in mbKnown /\ p \in MbProcs
        /\ p # MbSync => mbProc[p].then \in {"verdict", "images", "done"}
        /\ p = MbSync => /\ mbProc[p].then \in {"analyse", "done"}
                          /\ "image" \in {"body", "row", "image", "attach", "analyse", "store"}
                          /\ mbMode = "full"
    BY <1>11, MbAssumption DEF MbPutImage, MbAt, MbPlaces, MbPlaced, MbFetching, MbTypes
  <2>n. PICK pc \in MbFetching \cup {"verdict", "images", "done"} : MbMoves(p, pc)
        /\ pc \in {"attach", MbAnalysed(p)}
        /\ \/ /\ pc = "attach"
              /\ mbBlob' = [mbBlob EXCEPT ![MbKey(MbMsg(p), "image")] = MbMsg(p)]
           \/ pc = MbAnalysed(p) /\ UNCHANGED mbBlob
    BY <1>11, <2>m DEF MbPutImage, MbFetching, MbAfterFailedPut, MbAnalysed
  <2>0. /\ UNCHANGED <<mbUid, mbMode, mbKnown, mbTrusted, mbTrust, mbHist, mbBody, mbImages,
             mbVerdict>>
        /\ mbProc' \in [MbProcs -> MbProcType] /\ \A q \in MbProcs : q # p => mbProc'[q] = mbProc[q]
        /\ pc = "done" => mbProc'[p] = MbIdle
        /\ pc # "done" => /\ mbProc'[p].pc = pc /\ mbProc'[p].msg = mbProc[p].msg
                          /\ mbProc'[p].then = mbProc[p].then /\ mbProc'[p].bad = mbProc[p].bad
        /\ \/ pc = "attach"
                /\ mbBlob' = [mbBlob EXCEPT ![MbKey(mbProc[p].msg, "image")] = mbProc[p].msg]
           \/ pc = MbAnalysed(p) /\ UNCHANGED mbBlob
    BY <1>11, <2>m, <2>n, MbGoesOn DEF MbPutImage, MbStores, MbInput, MbMsg
  <2>1. MbTypes'
    BY <2>m, <2>n, <2>0 DEF MbTypes, MbKey, MbMsg
  <2>2. MbPlaces'
    <3>1. MbPlaced(p)'
      BY <2>m, <2>n, <2>0 DEF MbPlaced, MbIdle, MbAnalysed
    <3> QED BY <2>m, <2>n, <2>0, <3>1, MbPlacesFrame
  <2>3. MbPointers'
    <3>1. CASE mbBlob' = [mbBlob EXCEPT ![MbKey(mbProc[p].msg, "image")] = mbProc[p].msg]
          /\ pc = "attach"
      <4>1. mbProc[p].msg \in MbMessages /\ MbMsg(p)' = mbProc[p].msg
        BY <2>m, <2>0, <3>1 DEF MbTypes, MbMsg
      <4>2. /\ \A k \in MbUids \X {"body", "image"} :
                 /\ mbBlob[k] # MbNone => mbBlob'[k] # MbNone
                 /\ mbBlob'[k] # MbNone => mbUid'[mbBlob'[k]] = k[1]
            /\ mbBlob'[MbKey(mbProc[p].msg, "image")'] # MbNone
        BY <2>0, <3>1, <4>1, MbPut
      <4>3. /\ MbAt(p, "row")' => mbBlob'[MbKey(MbMsg(p), "body")'] # MbNone
            /\ MbAt(p, "attach")' => mbBlob'[MbKey(MbMsg(p), "image")'] # MbNone
        BY <2>0, <3>1, <4>1, <4>2 DEF MbAt, MbMsg, MbKey
      <4> QED BY <2>m, <2>0, <4>2, <4>3, MbPointersFrame
    <3>2. CASE UNCHANGED mbBlob /\ pc = MbAnalysed(p)
      BY <2>m, <2>n, <2>0, <3>2 DEF MbPointers, MbKey, MbMsg, MbAt, MbIdle, MbAnalysed
    <3> QED BY <2>0, <3>1, <3>2
  <2>4. MbAlone'
    BY <2>m, <2>n, <2>0 DEF MbAlone, MbAt, MbMsg, MbIdle, MbProcs
  <2>5. MbCleans'
    BY <2>m, <2>n, <2>0 DEF MbCleans, MbAt, MbListed, MbIdle, MbAnalysed
  <2>6. MbJudged'
    BY <2>m, <2>n, <2>0 DEF MbJudged, MbAt, MbMsg, MbHasBody, MbWillJudge, MbIdle, MbProcs,
       MbAnalysed
  <2> QED BY <2>1, <2>2, <2>3, <2>4, <2>5, <2>6
<1>12. ASSUME NEW p \in MbProcs, MbInsertImage(p) PROVE MbInv'
  <2>m. /\ mbProc[p].pc = "attach" /\ mbProc[p].msg \in mbKnown /\ p \in MbProcs
        /\ p # MbSync => mbProc[p].then \in {"verdict", "images", "done"}
        /\ p = MbSync => /\ mbProc[p].then \in {"analyse", "done"}
                          /\ "attach" \in {"body", "row", "image", "attach", "analyse", "store"}
                          /\ mbMode = "full"
    BY <1>12, MbAssumption DEF MbInsertImage, MbAt, MbPlaces, MbPlaced, MbFetching, MbTypes
  <2>n. PICK pc \in MbFetching \cup {"verdict", "images", "done"} : MbMoves(p, pc)
        /\ pc = MbAnalysed(p)
    BY <1>12, <2>m DEF MbInsertImage, MbFetching, MbAfterFailedPut, MbAnalysed
  <2>0. /\ UNCHANGED <<mbUid, mbMode, mbKnown, mbTrusted, mbTrust, mbHist, mbBlob, mbBody,
             mbVerdict>>
        /\ mbProc' \in [MbProcs -> MbProcType] /\ \A q \in MbProcs : q # p => mbProc'[q] = mbProc[q]
        /\ pc = "done" => mbProc'[p] = MbIdle
        /\ pc # "done" => /\ mbProc'[p].pc = pc /\ mbProc'[p].msg = mbProc[p].msg
                          /\ mbProc'[p].then = mbProc[p].then /\ mbProc'[p].bad = mbProc[p].bad
        /\ mbImages' = [mbImages EXCEPT ![mbProc[p].msg] = mbImages[mbProc[p].msg] + 1]
    BY <1>12, <2>m, <2>n, MbGoesOn DEF MbInsertImage, MbStores, MbInput, MbMsg
  <2>1. MbTypes'
    BY <2>m, <2>n, <2>0 DEF MbTypes, MbKey, MbMsg
  <2>2. MbPlaces'
    <3>1. MbPlaced(p)'
      BY <2>m, <2>n, <2>0 DEF MbPlaced, MbIdle, MbAnalysed
    <3> QED BY <2>m, <2>n, <2>0, <3>1, MbPlacesFrame
  <2>3. MbPointers'
    <3>1. mbProc[p].msg \in MbMessages /\ \A k \in MbUids \X {"body", "image"} :
              mbBlob'[k] # MbNone => mbUid'[mbBlob'[k]] = k[1]
      BY <2>m, <2>0 DEF MbTypes, MbPointers
    <3>2. \A m \in MbMessages : mbImages'[m] > 0 =>
              mbImages[m] > 0 \/ (m \in mbKnown /\ mbBlob'[MbKey(m, "image")'] # MbNone)
      BY <2>m, <2>0, <3>1 DEF MbPointers, MbAt, MbMsg, MbKey, MbTypes
    <3>3. ~MbAt(p, "row")' /\ ~MbAt(p, "attach")'
      BY <2>m, <2>n, <2>0 DEF MbAt, MbAnalysed, MbIdle
    <3> QED BY <2>m, <2>0, <3>1, <3>2, <3>3, MbPointersFrame
  <2>4. MbAlone'
    BY <2>m, <2>n, <2>0 DEF MbAlone, MbAt, MbMsg, MbIdle, MbTypes, MbProcs, MbAfterFailedPut,
       MbAnalysed, MbFetching
  <2>5. MbCleans'
    BY <2>m, <2>n, <2>0 DEF MbCleans, MbAt, MbListed, MbIdle, MbAnalysed
  <2>6. MbJudged'
    BY <2>m, <2>n, <2>0 DEF MbJudged, MbAt, MbMsg, MbHasBody, MbWillJudge, MbIdle, MbProcs,
       MbAnalysed
  <2> QED BY <2>1, <2>2, <2>3, <2>4, <2>5, <2>6
<1>13. ASSUME NEW p \in MbProcs, MbAnalyse(p) PROVE MbInv'
  <2>n. PICK r \in MbProcType :
            /\ mbProc' = [mbProc EXCEPT ![p] = r] /\ r.msg = mbProc[p].msg
                 /\ r.then = mbProc[p].then
            /\ r.pc = "store" /\ (r.bad <=> MbHasBody(p) /\ ~mbTrusted)
    <3> DEFINE r == [mbProc[p] EXCEPT !.pc = "store", !.bad = MbFindsBad(p)]
    <3>1. mbProc[p] \in MbProcType /\ MbFindsBad(p) \in BOOLEAN
      BY DEF MbTypes, MbFindsBad, MbHasBody
    <3>2. /\ r \in MbProcType /\ r.msg = mbProc[p].msg /\ r.then = mbProc[p].then
          /\ r.pc = "store" /\ r.bad = MbFindsBad(p)
      BY <3>1 DEF MbProcType, MbFetching
    <3>3. mbProc' = [mbProc EXCEPT ![p] = r]
      BY <1>13 DEF MbAnalyse
    <3> QED BY <3>2, <3>3 DEF MbFindsBad
  <2>m. /\ mbProc[p].pc = "analyse" /\ mbProc[p].msg \in mbKnown
        /\ p # MbSync => mbProc[p].then \in {"verdict", "images", "done"}
        /\ p = MbSync => mbProc[p].then = "analyse"
    BY <1>13 DEF MbAnalyse, MbAt, MbPlaces, MbPlaced, MbFetching
  <2>k. /\ UNCHANGED <<mbUid, mbMode, mbKnown, mbBlob, mbBody, mbImages, mbVerdict, mbTrusted,
             mbTrust>>
        /\ mbHist' = IF mbTrust # MbNoTrust THEN mbHist \cup {"trustraced"} ELSE mbHist
    BY <1>13 DEF MbAnalyse, MbInput
  <2>0. /\ mbProc' \in [MbProcs -> MbProcType] /\ \A q \in MbProcs : q # p => mbProc'[q] = mbProc[q]
        /\ mbProc'[p] = r
    BY <2>n DEF MbTypes, MbProcs
  <2>1. MbTypes'
    BY <2>m, <2>k, <2>0, <2>n DEF MbTypes, MbKey, MbMsg
  <2>2. MbPlaces'
    <3>1. MbPlaced(p)'
      BY <2>m, <2>k, <2>0, <2>n DEF MbPlaced
    <3> QED BY <2>m, <2>k, <2>0, <2>n, <3>1, MbPlacesFrame
  <2>3. MbPointers'
    BY <2>m, <2>k, <2>0, <2>n DEF MbPointers, MbKey, MbMsg, MbAt
  <2>4. MbAlone'
    BY <2>m, <2>k, <2>0, <2>n DEF MbAlone, MbAt, MbMsg
  <2>5. MbCleans'
    BY <2>m, <2>k, <2>0, <2>n DEF MbCleans, MbAt
  <2>6. MbJudged'
    BY <2>m, <2>k, <2>0, <2>n DEF MbJudged, MbAt, MbMsg, MbHasBody, MbWillJudge
  <2> QED BY <2>1, <2>2, <2>3, <2>4, <2>5, <2>6
<1>14. ASSUME NEW p \in MbProcs, MbStore(p) PROVE MbInv'
  <2>m. /\ mbProc[p].pc = "store" /\ mbProc[p].msg \in mbKnown
        /\ p # MbSync => mbProc[p].then \in {"verdict", "images", "done"}
        /\ p = MbSync => mbProc[p].then = "analyse"
    BY <1>14 DEF MbStore, MbAt, MbPlaces, MbPlaced, MbFetching
  <2>n. PICK r \in MbProcType :
            /\ mbProc' = [mbProc EXCEPT ![p] = r]
            /\ r = MbIdle \/ (p # MbSync /\ r.msg = mbProc[p].msg /\ r.pc \in {"verdict", "images"})
    <3>1. mbProc[p] \in MbProcType /\ mbProc[p].msg \in MbMessages /\ MbIdle \in MbProcType
      BY <2>m DEF MbTypes, MbIdle, MbProcType
    <3> DEFINE r1 == [mbProc[p] EXCEPT !.pc = "verdict", !.bad = FALSE, !.shown = MbMsg(p)]
               r2 == [[mbProc[p] EXCEPT !.pc = "images"] EXCEPT !.bad = FALSE]
    <3>2. r1 \in MbProcType /\ r1.msg = mbProc[p].msg /\ r1.pc = "verdict"
      BY <3>1 DEF MbProcType, MbMsg
    <3>3. r2 \in MbProcType /\ r2.msg = mbProc[p].msg /\ r2.pc = "images"
      BY <3>1 DEF MbProcType
    <3>4. [MbIdle EXCEPT !.bad = FALSE] = MbIdle
      <4>1. MbIdle.bad = FALSE
        BY DEF MbIdle
      <4> QED BY <3>1, <4>1 DEF MbProcType
    <3>5. CASE p = MbSync \/ mbProc[p].then = "done"
      BY <1>14, <3>1, <3>4, <3>5 DEF MbStore, MbGoes
    <3>6. CASE p # MbSync /\ mbProc[p].then = "verdict"
      <4>1. mbProc' = [mbProc EXCEPT ![p] = r1]
        BY <1>14, <3>6 DEF MbStore
      <4> QED BY <3>2, <3>6, <4>1
    <3>7. CASE p # MbSync /\ mbProc[p].then = "images"
      <4>1. mbProc' = [mbProc EXCEPT ![p] = r2]
        BY <1>14, <3>7 DEF MbStore, MbGoes
      <4> QED BY <3>3, <3>7, <4>1
    <3> QED BY <2>m, <3>5, <3>6, <3>7
  <2>0. /\ UNCHANGED <<mbUid, mbMode, mbKnown, mbBlob, mbBody, mbImages, mbTrusted, mbTrust,
             mbHist>>
        /\ mbVerdict' = [mbVerdict EXCEPT ![mbProc[p].msg] =
                            IF mbProc[p].bad THEN "bad" ELSE "clean"]
        /\ mbProc' \in [MbProcs -> MbProcType] /\ \A q \in MbProcs : q # p => mbProc'[q] = mbProc[q]
        /\ mbProc'[p] = r
    BY <1>14, <2>n DEF MbStore, MbStores, MbMsg, MbInput, MbTypes
  <2>1. MbTypes'
    BY <2>m, <2>0, <2>n DEF MbTypes, MbKey, MbMsg
  <2>2. MbPlaces'
    <3>1. MbPlaced(p)'
      BY <2>m, <2>0, <2>n DEF MbPlaced, MbFetching, MbIdle
    <3> QED BY <2>m, <2>0, <2>n, <3>1, MbPlacesFrame
  <2>3. MbPointers'
    BY <2>m, <2>0, <2>n DEF MbPointers, MbKey, MbMsg, MbAt, MbIdle
  <2>4. MbAlone'
    BY <2>m, <2>0, <2>n DEF MbAlone, MbAt, MbMsg, MbIdle
  <2>5. MbCleans'
    BY <2>m, <2>0, <2>n DEF MbCleans, MbAt, MbListed, MbIdle
  <2>6. MbJudged'
    BY <2>m, <2>0, <2>n DEF MbJudged, MbAt, MbMsg, MbHasBody, MbWillJudge, MbTypes, MbIdle
  <2> QED BY <2>1, <2>2, <2>3, <2>4, <2>5, <2>6
<1>15. ASSUME NEW p \in MbProcs, MbCut(p) PROVE MbInv'
  <2>1. MbTypes'
    BY <1>15 DEF MbCut, MbTypes, MbProcType, MbEnds, MbInput, MbIdle
  <2>2. MbPlaces'
    BY <1>15 DEF MbCut, MbPlaces, MbPlaced, MbTypes, MbProcType, MbProcs, MbMoves, MbGoes,
       MbEnds, MbInput, MbStores, MbFetches, MbOverlap, MbBusy, MbMsg, MbAt, MbIdle, MbFetching,
       MbAfterFailedPut, MbCleared, MbAnalysed, MbHasBody, MbFindsBad, MbTrustRest, MbListed,
       MbAnalysing, MbNoTrust
  <2>3. MbPointers'
    BY <1>15 DEF MbCut, MbPointers, MbKey, MbEnds, MbInput, MbMsg, MbAt, MbIdle
  <2>4. MbAlone'
    BY <1>15 DEF MbCut, MbAlone, MbEnds, MbMsg, MbAt, MbIdle
  <2>5. MbCleans'
    BY <1>15 DEF MbCut, MbCleans, MbEnds, MbAt, MbIdle, MbListed
  <2>6. MbJudged'
    BY <1>15 DEF MbCut, MbJudged
  <2> QED BY <2>1, <2>2, <2>3, <2>4, <2>5, <2>6
<1>16. ASSUME MbTrustSender PROVE MbInv'
  <2>1. MbTypes'
    BY <1>16 DEF MbTrustSender, MbTypes, MbInput, MbTrustRest
  <2>2. MbPlaces'
    BY <1>16 DEF MbTrustSender, MbPlaces, MbPlaced, MbInput, MbTrustRest
  <2>3. MbPointers'
    BY <1>16 DEF MbTrustSender, MbPointers, MbKey, MbInput, MbMsg, MbAt, MbTrustRest
  <2>4. MbAlone'
    BY <1>16 DEF MbTrustSender, MbAlone, MbMsg, MbAt, MbTrustRest
  <2>5. MbCleans'
    BY <1>16 DEF MbTrustSender, MbCleans, MbAt, MbTrustRest, MbAnalysing
  <2>6. MbJudged'
    BY <1>16 DEF MbTrustSender, MbJudged
  <2> QED BY <2>1, <2>2, <2>3, <2>4, <2>5, <2>6
<1>17. ASSUME MbTrustList PROVE MbInv'
  <2>1. MbTypes'
    BY <1>17 DEF MbTrustList, MbTypes, MbInput, MbTrustRest, MbListed
  <2>2. MbPlaces'
    BY <1>17 DEF MbTrustList, MbPlaces, MbPlaced, MbInput, MbTrustRest
  <2>3. MbPointers'
    BY <1>17 DEF MbTrustList, MbPointers, MbKey, MbInput, MbMsg, MbAt, MbTrustRest
  <2>4. MbAlone'
    BY <1>17 DEF MbTrustList, MbAlone, MbMsg, MbAt, MbTrustRest
  <2>5. MbCleans'
    BY <1>17 DEF MbTrustList, MbCleans, MbAt, MbTrustRest, MbListed, MbNoTrust
  <2>6. MbJudged'
    BY <1>17 DEF MbTrustList, MbJudged, MbWillJudge, MbInput, MbMsg, MbAt, MbHasBody,
       MbTrustRest
  <2> QED BY <2>1, <2>2, <2>3, <2>4, <2>5, <2>6
<1>18. ASSUME MbTrustClear PROVE MbInv'
  <2>1. MbTypes'
    BY <1>18 DEF MbTrustClear, MbTypes, MbInput, MbTrustRest, MbNoTrust
  <2>2. MbPlaces'
    BY <1>18 DEF MbTrustClear, MbPlaces, MbPlaced, MbInput, MbTrustRest
  <2>3. MbPointers'
    BY <1>18 DEF MbTrustClear, MbPointers, MbKey, MbInput, MbMsg, MbAt, MbTrustRest
  <2>4. MbAlone'
    BY <1>18 DEF MbTrustClear, MbAlone, MbMsg, MbAt, MbTrustRest
  <2>5. MbCleans'
    BY <1>18 DEF MbTrustClear, MbCleans, MbTypes, MbAt, MbTrustRest, MbListed, MbNoTrust
  <2>6. MbJudged'
    <3>1. mbTrusted
      BY <1>18 DEF MbTrustClear, MbCleans, MbNoTrust
    <3> QED BY <1>18, <3>1 DEF MbTrustClear, MbJudged
  <2> QED BY <2>1, <2>2, <2>3, <2>4, <2>5, <2>6
<1>19. CASE UNCHANGED mbVars
  BY <1>19 DEF mbVars, MbTypes, MbPlaces, MbPlaced, MbPointers, MbAlone, MbCleans, MbJudged,
     MbKey, MbMsg, MbAt, MbListed, MbHasBody, MbWillJudge
<1> QED BY <1>1, <1>2, <1>3, <1>4, <1>5, <1>6, <1>7, <1>8, <1>9, <1>10, <1>11, <1>12, <1>13, <1>14,
    <1>15, <1>16, <1>17, <1>18, <1>19 DEF MbNext, MbProcs

\* No message is known and nobody works at first.
LEMMA MbInitInv == MbInit => MbInv
<1> SUFFICES ASSUME MbInit PROVE MbInv
  OBVIOUS
<1> USE DEF MbInit
<1>1. MbIdle \in MbProcType /\ MbIdle.pc = "idle" /\ MbIdle.msg = MbNone
  BY DEF MbIdle, MbProcType
<1>2. /\ mbUid \in [MbMessages -> MbUids] /\ mbMode \in {"lazy", "full"} /\ mbHist = {}
      /\ mbKnown = {} /\ mbBody = {} /\ mbTrusted = FALSE /\ mbTrust = MbNoTrust
  OBVIOUS
<1>3. /\ mbBlob \in [MbUids \X {"body", "image"} -> MbMessages \cup {MbNone}]
      /\ \A k \in MbUids \X {"body", "image"} : mbBlob[k] = MbNone
  OBVIOUS
<1>4. /\ mbImages \in [MbMessages -> Nat] /\ mbVerdict \in [MbMessages -> {MbNone, "clean", "bad"}]
      /\ \A m \in MbMessages : mbImages[m] = 0 /\ mbVerdict[m] = MbNone
  OBVIOUS
<1>5. mbProc \in [MbProcs -> MbProcType] /\ \A p \in MbProcs : mbProc[p] = MbIdle
  BY <1>1
<1> HIDE DEF MbInit
<1>6. MbNoTrust \in [pc : {"idle", "list", "clear"}, todo : SUBSET MbMessages]
      /\ MbNoTrust.pc = "idle"
  BY DEF MbNoTrust
<1>7. MbTypes
  BY <1>2, <1>3, <1>4, <1>5, <1>6 DEF MbTypes
<1>8. MbPlaces
  BY <1>1, <1>5 DEF MbPlaces, MbPlaced, MbFetching
<1>9. MbPointers
  BY <1>1, <1>2, <1>3, <1>4, <1>5 DEF MbPointers, MbAt
<1>10. MbAlone
  BY <1>1, <1>4, <1>5 DEF MbAlone, MbAt, MbProcs
<1>11. MbCleans
  BY <1>2, <1>6 DEF MbCleans
<1>12. MbJudged
  <2>1. MbMsg(MbSync) = MbNone /\ \A p \in MbProcs : ~MbAt(p, "store")
    BY <1>1, <1>5 DEF MbMsg, MbProcs, MbAt
  <2> QED BY <1>2, <2>1 DEF MbJudged
<1> QED BY <1>7, <1>8, <1>9, <1>10, <1>11, <1>12 DEF MbInv

\* The invariant says what the runs check.
LEMMA MbFits == MbInv => MbContentFits
<1> SUFFICES ASSUME MbInv PROVE MbContentFits
  OBVIOUS
<1> USE DEF MbInv
<1>1. MbPointersHold
  <2>1. ASSUME NEW m \in MbMessages, NEW part \in {"body", "image"},
               \A n \in MbMessages \ {m} : mbUid[n] # mbUid[m]
        PROVE  mbBlob[MbKey(m, part)] \in {MbNone, m}
    <3>1. MbKey(m, part) \in MbUids \X {"body", "image"} /\ MbKey(m, part)[1] = mbUid[m]
      BY DEF MbTypes, MbKey
    <3>2. mbBlob[MbKey(m, part)] \in MbMessages \cup {MbNone}
      BY <3>1 DEF MbTypes
    <3> QED BY <2>1, <3>1, <3>2 DEF MbPointers
  <2> QED BY <2>1 DEF MbPointersHold, MbPointers
<1>2. MbImagesOnce
  BY DEF MbImagesOnce, MbAlone
<1>3. MbTrustedIsClean
  BY DEF MbTrustedIsClean, MbCleans
<1>4. MbJudgedByBody
  <2> SUFFICES ASSUME mbHist \cap {"raced", "cut"} = {}, ~mbTrusted, NEW m \in mbBody, ~MbBusy(m)
               PROVE  mbVerdict[m] = "bad"
    BY DEF MbJudgedByBody
  <2>1. m \in mbKnown /\ \A p \in MbProcs : MbMsg(p) # m
    BY DEF MbTypes, MbBusy, MbMsg
  <2>2. CASE mbMode = "full"
    BY <2>1, <2>2 DEF MbJudged, MbProcs
  <2>3. CASE mbMode = "lazy"
    BY <2>1, <2>3 DEF MbJudged, MbProcs, MbWillJudge
  <2> QED BY <2>2, <2>3 DEF MbTypes
<1> QED BY <1>1, <1>2, <1>3, <1>4 DEF MbContentFits

\* Whatever requests, imports and markings interleave: what a row points to is there, and is
\* its own message's while no other has its uid; an attachment is listed once unless two
\* fetches overlapped; mail of a trusted sender is not flagged unless an analysis overlapped
\* with marking it; and a stored body has been judged if nothing overlapped or was
\* cut (fetch_body_by_uid, walk_parts,
\* analyse_and_store_batch, trust_sender_of).
THEOREM ContentFits == MbSpec => []MbContentFits
<1> QED BY MbInitInv, MbStep, MbFits, PTL DEF MbSpec

-----------------------------------------------------------------------------
(* Moves. *)

\* A command, field by field; a place may lie beyond the uids the model gives.
MvSpots == MvFolders \X Nat
MvCommand ==
    [pc : {"idle", "do", "mark", "expunge"}, from : MvSpots, dest : MvFolders, expunge : BOOLEAN]

MvTypes ==
    /\ mvKind \in {"move", "copy", "gmail"} /\ mvFolders \subseteq MvFolders
    /\ mvServer \subseteq [at : MvSpots, del : BOOLEAN]
    /\ mvNext \in [MvFolders -> Nat] /\ mvRow \in [MvPlaces -> {"none", "shown", "hidden"}]
    /\ mvReq \in [pc : {"idle", "queue"}, from : MvSpots, dest : MvFolders, expunge : BOOLEAN]
    /\ mvTask \in MvCommand /\ (mvTask.pc = "idle" <=> mvTask = MvNoTask)
    /\ mvQueue \in Seq(MvCommand) /\ \A i \in DOMAIN mvQueue : mvQueue[i].pc = "do"

\* What a folder gives next was never given: no copy and no row is there.
MvFresh ==
    /\ \A p \in MvCopies : p[2] < mvNext[p[1]]
    /\ \A p \in MvPlaces : mvRow[p] # "none" => p[2] < mvNext[p[1]]

\* Only a deletion for good expunges, and no step of the task is taken by the wrong
\* provider.
MvPhases ==
    /\ "erased" \notin mvHist =>
         ~mvReq.expunge /\ ~mvTask.expunge /\ \A i \in DOMAIN mvQueue : ~mvQueue[i].expunge
    /\ mvTask.pc = "mark" => ~MvGmail /\ (mvTask.expunge \/ mvKind = "copy")
    /\ mvTask.pc = "expunge" => ~MvGmail /\ mvTask.expunge /\ MvFrom \notin MvLive

\* A message that was not deleted for good is somewhere, and only a copied original
\* is marked: by then its copy is live.
MvSomewhere ==
    /\ "erased" \notin mvHist =>
        /\ MvLive # {}
        /\ mvKind # "copy" => MvCopies = MvLive
        /\ mvTask.pc = "mark" => MvFrom \notin MvLive \/ MvLive \ {MvFrom} # {}
    /\ MvGmail => MvCopies = MvLive

\* MOVE keeps one copy; a copy and its mark keep one live copy between commands.
MvApart ==
    /\ mvKind = "move" => \A p, q \in MvCopies : p = q
    /\ mvKind = "copy" /\ mvHist \cap {"lost", "again"} = {} =>
         \A p, q \in MvLive : \/ p = q
                              \/ mvTask.pc = "mark" /\ ~mvTask.expunge /\ MvFrom \in {p, q}

MvInv == MvTypes /\ MvFresh /\ MvPhases /\ MvSomewhere /\ MvApart /\ MvHiddenIsGone

-----------------------------------------------------------------------------
\* Taking a command leaves the others waiting, and queueing one adds it.
LEMMA MvTakes ==
    ASSUME NEW queue \in Seq(MvCommand), queue # <<>>
    PROVE  /\ Tail(queue) \in Seq(MvCommand) /\ Head(queue) \in MvCommand
           /\ \E j \in DOMAIN queue : queue[j] = Head(queue)
           /\ \A i \in DOMAIN Tail(queue) : \E j \in DOMAIN queue : Tail(queue)[i] = queue[j]
           /\ \A j \in DOMAIN queue :
                queue[j] = Head(queue) \/ \E i \in DOMAIN Tail(queue) : Tail(queue)[i] = queue[j]
<1>1. /\ Tail(queue) \in Seq(MvCommand) /\ Head(queue) \in MvCommand
      /\ Len(queue) \in Nat \ {0} /\ Len(Tail(queue)) = Len(queue) - 1
      /\ \A i \in 1 .. Len(Tail(queue)) : Tail(queue)[i] = queue[i + 1]
  BY HeadTailProperties, EmptySeq
<1>2. DOMAIN queue = 1 .. Len(queue) /\ DOMAIN Tail(queue) = 1 .. Len(queue) - 1
      /\ Head(queue) = queue[1]
  BY <1>1
<1>3. \A j \in 2 .. Len(queue) : j - 1 \in 1 .. Len(queue) - 1 /\ Tail(queue)[j - 1] = queue[j]
  BY <1>1
<1>4. \A i \in 1 .. Len(queue) - 1 : i + 1 \in 1 .. Len(queue) /\ Tail(queue)[i] = queue[i + 1]
  BY <1>1
<1>5. \A j \in DOMAIN queue :
        queue[j] = Head(queue) \/ \E i \in DOMAIN Tail(queue) : Tail(queue)[i] = queue[j]
  <2> SUFFICES ASSUME NEW j \in DOMAIN queue, j # 1
               PROVE  \E i \in DOMAIN Tail(queue) : Tail(queue)[i] = queue[j]
    BY <1>2
  <2>1. j \in 2 .. Len(queue)
    BY <1>1, <1>2
  <2> QED BY <1>2, <1>3, <2>1
<1>6. \A i \in DOMAIN Tail(queue) : \E j \in DOMAIN queue : Tail(queue)[i] = queue[j]
  BY <1>2, <1>4
<1>7. \E j \in DOMAIN queue : queue[j] = Head(queue)
  BY <1>1, <1>2
<1> QED BY <1>1, <1>5, <1>6, <1>7

\* Queueing a command adds it behind the others.
LEMMA MvQueues ==
    ASSUME NEW queue \in Seq(MvCommand), NEW command \in MvCommand
    PROVE  /\ Append(queue, command) \in Seq(MvCommand)
           /\ \A i \in DOMAIN Append(queue, command) :
                \/ Append(queue, command)[i] = command
                \/ i \in DOMAIN queue /\ Append(queue, command)[i] = queue[i]
           /\ \A i \in DOMAIN queue :
                i \in DOMAIN Append(queue, command) /\ Append(queue, command)[i] = queue[i]
           /\ \E i \in DOMAIN Append(queue, command) : Append(queue, command)[i] = command
<1>1. /\ Append(queue, command) \in Seq(MvCommand) /\ Len(queue) \in Nat
      /\ Len(Append(queue, command)) = Len(queue) + 1
      /\ \A i \in 1 .. Len(queue) : Append(queue, command)[i] = queue[i]
      /\ Append(queue, command)[Len(queue) + 1] = command
  BY AppendProperties
<1>2. /\ DOMAIN queue = 1 .. Len(queue)
      /\ DOMAIN Append(queue, command) = 1 .. Len(queue) + 1
  BY <1>1
<1> QED BY <1>1, <1>2

\* A command that is completed took the message from its place, or left it where
\* nothing was hidden.
LEMMA MvCompletion ==
    ASSUME MvInv, UNCHANGED <<mvRow, mvReq, mvQueue>>, mvHist \subseteq mvHist',
           \A p \in MvLive' : \/ p \in MvLive /\ p # MvFrom
                              \/ p[1] \in MvFolders /\ p[2] = mvNext[p[1]]
                              \/ mvHist' \cap {"lost", "kept"} # {}
    PROVE  MvHiddenIsGone'
<1> SUFFICES ASSUME mvHist' \cap {"lost", "kept"} = {},
                    NEW p \in MvPlaces, mvRow[p] = "hidden", p \in MvLive'
             PROVE  MvOnItsWay(p)'
  BY DEF MvHiddenIsGone
<1>1. mvNext[p[1]] \in Nat /\ p[2] < mvNext[p[1]]
  BY DEF MvInv, MvTypes, MvFresh, MvPlaces
<1>2. p \in MvLive /\ p # MvFrom
  BY <1>1
<1>3. MvOnItsWay(p)
  BY <1>2 DEF MvInv, MvHiddenIsGone
<1> QED BY <1>2, <1>3 DEF MvOnItsWay, MvFrom

\* A copy that arrives where none was keeps the next places free.
LEMMA MvStaysFresh ==
    ASSUME MvTypes, MvFresh, UNCHANGED mvRow, mvNext' \in [MvFolders -> Nat],
           \A f \in MvFolders : mvNext[f] <= mvNext'[f],
           \A p \in MvCopies' : \/ p \in MvCopies
                                \/ p[1] \in MvFolders /\ p[2] = mvNext[p[1]] /\ p[2] < mvNext'[p[1]]
    PROVE  MvFresh'
<1>1. \A p \in MvCopies : p[1] \in MvFolders /\ p[2] \in Nat
  BY DEF MvTypes, MvCopies, MvSpots
<1>2. \A p \in MvPlaces : p[1] \in MvFolders /\ p[2] \in Nat
  BY DEF MvPlaces
<1>3. \A f \in MvFolders : mvNext[f] \in Nat /\ mvNext'[f] \in Nat
  BY DEF MvTypes
<1>4. \A p \in MvCopies' : p[2] < mvNext'[p[1]]
  BY <1>1, <1>3 DEF MvFresh
<1>5. \A p \in MvPlaces : mvRow'[p] # "none" => p[2] < mvNext'[p[1]]
  BY <1>2, <1>3 DEF MvFresh
<1> QED BY <1>4, <1>5 DEF MvFresh

\* What the steps of the task do to the places of the message.
LEMMA MvMoveEffect ==
    ASSUME MvTypes, MvDoMove, MvSource # {}
    PROVE  LET new == <<mvTask.dest, mvNext[mvTask.dest]>> IN
           /\ mvTask.dest \in MvFolders /\ mvNext' = [mvNext EXCEPT ![mvTask.dest] = @ + 1]
           /\ mvServer' \subseteq [at : MvSpots, del : BOOLEAN]
           /\ MvCopies' = (MvCopies \ {MvFrom}) \cup {new}
           /\ MvLive' = (MvLive \ {MvFrom}) \cup {new}
<1> DEFINE new == [at |-> <<mvTask.dest, mvNext[mvTask.dest]>>, del |-> FALSE]
<1>1. /\ mvServer' = (mvServer \ MvSource) \cup {new}
      /\ mvTask.dest \in MvFolders /\ mvNext' = [mvNext EXCEPT ![mvTask.dest] = @ + 1]
  BY DEF MvTypes, MvDoMove, MvGives, MvArrives
<1>2. mvNext[mvTask.dest] \in Nat /\ new \in [at : MvSpots, del : BOOLEAN]
      /\ new.at = <<mvTask.dest, mvNext[mvTask.dest]>> /\ ~new.del
  BY <1>1 DEF MvTypes, MvSpots
<1> HIDE DEF new
<1>3. mvServer' \subseteq [at : MvSpots, del : BOOLEAN]
  BY <1>1, <1>2 DEF MvTypes
<1>4. MvCopies' = (MvCopies \ {MvFrom}) \cup {new.at}
  BY <1>1 DEF MvCopies, MvSource, MvFrom
<1>5. MvLive' = (MvLive \ {MvFrom}) \cup {new.at}
  BY <1>1, <1>2 DEF MvLive, MvSource, MvFrom
<1> QED BY <1>1, <1>2, <1>3, <1>4, <1>5

\* COPY adds a live copy to the destination.
LEMMA MvCopyEffect ==
    ASSUME MvTypes, MvDoCopy, MvSource # {}
    PROVE  LET new == <<mvTask.dest, mvNext[mvTask.dest]>> IN
           /\ mvTask.dest \in MvFolders /\ mvNext' = [mvNext EXCEPT ![mvTask.dest] = @ + 1]
           /\ mvServer' \subseteq [at : MvSpots, del : BOOLEAN]
           /\ MvCopies' = MvCopies \cup {new}
           /\ MvLive' = MvLive \cup {new}
<1> DEFINE new == [at |-> <<mvTask.dest, mvNext[mvTask.dest]>>, del |-> FALSE]
<1>1. /\ mvServer' = mvServer \cup {new}
      /\ mvTask.dest \in MvFolders /\ mvNext' = [mvNext EXCEPT ![mvTask.dest] = @ + 1]
  BY DEF MvTypes, MvDoCopy, MvGives, MvArrives, MvCopied
<1>2. mvNext[mvTask.dest] \in Nat /\ new \in [at : MvSpots, del : BOOLEAN]
      /\ new.at = <<mvTask.dest, mvNext[mvTask.dest]>> /\ ~new.del
  BY <1>1 DEF MvTypes, MvSpots
<1> HIDE DEF new
<1>3. mvServer' \subseteq [at : MvSpots, del : BOOLEAN]
  BY <1>1, <1>2 DEF MvTypes
<1>4. MvCopies' = MvCopies \cup {new.at}
  BY <1>1 DEF MvCopies
<1>5. MvLive' = MvLive \cup {new.at}
  BY <1>1, <1>2 DEF MvLive
<1> QED BY <1>1, <1>2, <1>3, <1>4, <1>5

\* Marking takes the original out of the live copies, and no copy away.
LEMMA MvMarkEffect ==
    ASSUME MvTypes, MvMarkOriginal
    PROVE  /\ mvServer' \subseteq [at : MvSpots, del : BOOLEAN]
           /\ MvCopies' = MvCopies /\ MvLive' = MvLive \ {MvFrom}
<1> DEFINE marked(c) == IF c.at = MvFrom THEN [c EXCEPT !.del = TRUE] ELSE c
<1>1. mvServer' = {marked(c) : c \in mvServer}
  BY DEF MvMarkOriginal, MvMarked
<1>2. \A c \in mvServer : /\ marked(c) \in [at : MvSpots, del : BOOLEAN] /\ marked(c).at = c.at
                          /\ marked(c).del <=> c.del \/ c.at = MvFrom
  BY DEF MvTypes
<1> HIDE DEF marked
<1> QED BY <1>1, <1>2 DEF MvCopies, MvLive

\* EXPUNGE takes copies that are marked.
LEMMA MvExpungeEffect ==
    ASSUME MvTypes, MvExpunge
    PROVE  mvServer' \subseteq mvServer /\ MvCopies' \subseteq MvCopies /\ MvLive' = MvLive
BY DEF MvTypes, MvExpunge, MvCopies, MvLive

\* A Gmail move leaves the message somewhere, and at its old place only if that is one of
\* the places that were to be kept.
LEMMA MvGmailEffect ==
    ASSUME MvTypes, MvGmailMove, MvCopies = MvLive
    PROVE  /\ mvServer' \subseteq [at : MvSpots, del : BOOLEAN]
           /\ mvNext' \in [MvFolders -> Nat] /\ \A f \in MvFolders : mvNext[f] <= mvNext'[f]
           /\ MvCopies' = MvLive' /\ MvLive' # {}
           /\ \A p \in MvLive' : \/ p \in MvLive
                                 \/ p[1] \in MvFolders /\ p[2] = mvNext[p[1]]
                                      /\ p[2] < mvNext'[p[1]]
           /\ MvFrom \in MvLive' => "kept" \in mvHist'
<1> DEFINE dest == mvTask.dest
           left == IF dest = "TRASH" THEN {}
                   ELSE IF dest = "ARCHIVE" THEN MvDropLabels({"INBOX"})
                   ELSE MvDropLabels(MvSourceLabel \ {dest})
           added == IF dest \in {"TRASH", "INBOX", "WORK", "SPAM"} THEN {dest} ELSE {}
           all == IF dest \in {"TRASH", "SPAM"} \/ \E c \in left : c.at[1] = "ARCHIVE" THEN {}
                  ELSE {"ARCHIVE"}
           arriving == (added \cup all) \ {c.at[1] : c \in left}
           kept == IF dest = "SPAM" THEN {c \in left : c.at[1] = "SPAM"} ELSE left
<1>1. /\ mvServer' = kept \cup {MvArrives(f) : f \in arriving}
      /\ mvNext' = [f \in MvFolders |-> IF f \in arriving THEN mvNext[f] + 1 ELSE mvNext[f]]
      /\ (\E c \in mvServer' : c.at = MvFrom) => "kept" \in mvHist'
  BY DEF MvGmailMove
<1>2. dest \in MvFolders
  BY DEF MvTypes, MvCommand
<1>3. left \subseteq mvServer /\ kept \subseteq mvServer
  BY DEF MvDropLabels
<1>4. \A c, d \in mvServer : c.at = d.at /\ c \in kept => d \in kept
  BY DEF MvDropLabels
<1>5. arriving \subseteq MvFolders
  BY <1>2 DEF MvFolders
<1>6. kept # {} \/ arriving # {}
  <2>1. CASE dest \in {"TRASH", "INBOX", "WORK"}
    BY <2>1
  <2>2. CASE dest = "SPAM"
    BY <2>2
  <2>3. CASE dest = "ARCHIVE"
    BY <2>3
  <2> QED BY <1>2, <2>1, <2>2, <2>3 DEF MvFolders
<1> HIDE DEF kept, arriving, left
<1>7. \A f \in arriving : /\ MvArrives(f) \in [at : MvSpots, del : BOOLEAN] /\ ~MvArrives(f).del
                           /\ MvArrives(f).at = <<f, mvNext[f]>>
  BY <1>5 DEF MvArrives, MvTypes, MvSpots
<1>8. mvServer' \subseteq [at : MvSpots, del : BOOLEAN]
  BY <1>1, <1>3, <1>7 DEF MvTypes
<1>9. mvNext' \in [MvFolders -> Nat] /\ (\A f \in MvFolders : mvNext[f] <= mvNext'[f])
      /\ (\A f \in arriving : mvNext[f] < mvNext'[f])
  BY <1>1, <1>5 DEF MvTypes
<1>10. MvCopies' = {c.at : c \in kept} \cup {<<f, mvNext[f]>> : f \in arriving}
  BY <1>1, <1>7 DEF MvCopies
<1>11. {c.at : c \in kept} \subseteq MvLive
  BY <1>3 DEF MvCopies
<1>12. \A p \in MvCopies' : p \in MvLive'
  <2>1. \A c \in kept : c.at \in MvLive'
    BY <1>1, <1>3, <1>4, <1>11 DEF MvLive
  <2>2. \A f \in arriving : MvArrives(f).at \in MvLive'
    BY <1>1, <1>7 DEF MvLive
  <2> QED BY <1>7, <1>10, <2>1, <2>2
<1>13. MvLive' \subseteq MvCopies'
  BY DEF MvLive, MvCopies
<1>14. MvFrom \in MvLive' => "kept" \in mvHist'
  BY <1>1, <1>13 DEF MvCopies
<1>15. MvLive' # {}
  BY <1>6, <1>10, <1>12
<1>16. \A p \in MvLive' : \/ p \in MvLive
                          \/ p[1] \in MvFolders /\ p[2] = mvNext[p[1]] /\ p[2] < mvNext'[p[1]]
  <2> SUFFICES ASSUME NEW p \in MvLive', p \notin MvLive
               PROVE  p[1] \in MvFolders /\ p[2] = mvNext[p[1]] /\ p[2] < mvNext'[p[1]]
    OBVIOUS
  <2>1. PICK f \in arriving : p = <<f, mvNext[f]>>
    BY <1>10, <1>11, <1>13
  <2> QED BY <1>5, <1>9, <2>1
<1> QED BY <1>8, <1>9, <1>12, <1>13, <1>14, <1>15, <1>16

\* The places, as long as the server is left alone.
LEMMA MvSameServer == UNCHANGED mvServer => MvCopies' = MvCopies /\ MvLive' = MvLive
BY DEF MvCopies, MvLive

\* No command in hand and no request.
LEMMA MvNoTaskTyped ==
    /\ MvNoTask \in MvCommand /\ MvNoTask.pc = "idle" /\ ~MvNoTask.expunge
    /\ MvNoReq \in [pc : {"idle", "queue"}, from : MvSpots, dest : MvFolders, expunge : BOOLEAN]
    /\ MvNoReq.pc = "idle" /\ ~MvNoReq.expunge
BY DEF MvNoTask, MvNoReq, MvCommand, MvSpots, MvFolders

\* One copy, or with Gmail one per label, and no command on its way.
LEMMA MvInitInv == MvInit => MvInv
<1> SUFFICES ASSUME MvInit PROVE MvInv
  OBVIOUS
<1>1. PICK places \in SUBSET MvFolders :
        /\ places # {} /\ mvServer = {[at |-> <<g, 1>>, del |-> FALSE] : g \in places}
        /\ mvNext = [g \in MvFolders |-> IF g \in places THEN 2 ELSE 1]
        /\ mvKind # "gmail" => \E g \in MvFolders : places = {g}
  BY DEF MvInit, MvFolders
<1>2. MvCopies = {<<g, 1>> : g \in places} /\ MvLive = MvCopies /\ MvCopies # {}
  <2>1. \A c \in mvServer : ~c.del
    BY <1>1
  <2>2. MvCopies = {<<g, 1>> : g \in places}
    <3>1. \A g \in places : [at |-> <<g, 1>>, del |-> FALSE] \in mvServer
      BY <1>1
    <3>2. \A c \in mvServer : \E g \in places : c.at = <<g, 1>>
      BY <1>1
    <3>3. \A g \in places : <<g, 1>> \in MvCopies
      <4> SUFFICES ASSUME NEW g \in places PROVE \E c \in mvServer : c.at = <<g, 1>>
        BY DEF MvCopies
      <4>1. [at |-> <<g, 1>>, del |-> FALSE].at = <<g, 1>>
        OBVIOUS
      <4> QED BY <3>1, <4>1
    <3> QED BY <3>2, <3>3 DEF MvCopies
  <2>3. MvLive = MvCopies
    BY <2>1 DEF MvCopies, MvLive
  <2> QED BY <1>1, <2>2, <2>3
<1>3. MvTypes
  <2>1. mvServer \subseteq [at : MvSpots, del : BOOLEAN] /\ mvNext \in [MvFolders -> Nat]
    <3>1. \A g \in MvFolders : [at |-> <<g, 1>>, del |-> FALSE] \in [at : MvSpots, del : BOOLEAN]
      BY DEF MvSpots
    <3>2. mvNext \in [MvFolders -> Nat]
      BY <1>1
    <3> QED BY <1>1, <3>1, <3>2
  <2>2. mvTask = MvNoTask /\ MvNoTask \in MvCommand /\ mvReq = MvNoReq /\ MvNoTask.pc = "idle"
        /\ MvNoReq \in [pc : {"idle", "queue"}, from : MvSpots, dest : MvFolders, expunge : BOOLEAN]
    BY DEF MvInit, MvNoTask, MvNoReq, MvCommand, MvSpots, MvFolders
  <2>3. mvQueue \in Seq(MvCommand) /\ DOMAIN mvQueue = {}
    BY EmptySeq DEF MvInit
  <2>4. mvKind \in {"move", "copy", "gmail"} /\ mvFolders \subseteq MvFolders
        /\ mvRow \in [MvPlaces -> {"none", "shown", "hidden"}]
    BY DEF MvInit
  <2> QED BY <2>1, <2>2, <2>3, <2>4 DEF MvTypes
<1>4. mvTask.pc = "idle" /\ ~mvTask.expunge /\ ~mvReq.expunge /\ DOMAIN mvQueue = {}
      /\ \A p \in MvPlaces : mvRow[p] = "none"
  BY DEF MvInit, MvNoTask, MvNoReq
<1>5. MvFresh /\ MvPhases /\ MvHiddenIsGone
  BY <1>1, <1>2, <1>4 DEF MvFresh, MvPhases, MvHiddenIsGone
<1>6. MvSomewhere /\ MvApart
  BY <1>1, <1>2, <1>4 DEF MvSomewhere, MvApart, MvGmail
<1> QED BY <1>3, <1>5, <1>6 DEF MvInv

\* Every step of the user, the queue, the task and the poll keeps the invariant.
LEMMA MvStepKeeps == ASSUME MvInv, [MvStep]_mvVars PROVE MvInv'
<1> USE MvSameServer DEF MvInv
<1>1. ASSUME NEW p \in MvPlaces, NEW dest \in MvFolders, NEW hide \in BOOLEAN,
             NEW expunge \in BOOLEAN,
             MvRequest(p, dest, hide, expunge)
      PROVE  MvInv'
  <2>0. /\ UNCHANGED <<mvKind, mvFolders, mvServer, mvNext, mvQueue, mvTask>>
        /\ mvReq.pc = "idle" /\ mvRow[p] # "none"
        /\ mvReq' = [pc |-> "queue", from |-> p, dest |-> dest, expunge |-> expunge]
        /\ mvRow' \in [MvPlaces -> {"none", "shown", "hidden"}]
        /\ \A q \in MvPlaces : mvRow'[q] = mvRow[q] \/ q = p
        /\ mvHist' = IF expunge THEN mvHist \cup {"erased"} ELSE mvHist
    BY <1>1 DEF MvRequest, MvTypes
  <2>1. MvTypes'
    BY <2>0 DEF MvTypes, MvSpots, MvPlaces
  <2>2. MvFresh'
    BY <2>0 DEF MvFresh
  <2>3. MvPhases'
    BY <2>0 DEF MvPhases, MvGmail, MvFrom
  <2>4. MvSomewhere'
    BY <2>0 DEF MvSomewhere, MvGmail, MvFrom
  <2>5. MvApart'
    BY <2>0 DEF MvApart, MvFrom
  <2>6. MvHiddenIsGone'
    BY <2>0 DEF MvHiddenIsGone, MvOnItsWay
  <2> QED BY <2>1, <2>2, <2>3, <2>4, <2>5, <2>6
<1>2. CASE MvEnqueue
  <2> DEFINE command == [pc |-> "do", from |-> mvReq.from, dest |-> mvReq.dest,
                         expunge |-> mvReq.expunge]
  <2>0. /\ UNCHANGED <<mvKind, mvFolders, mvServer, mvNext, mvRow, mvTask, mvOps, mvHist>>
        /\ mvReq.pc = "queue" /\ mvReq' = MvNoReq /\ mvQueue' = Append(mvQueue, command)
        /\ command.pc = "do" /\ command.from = mvReq.from /\ command.expunge = mvReq.expunge
    BY <1>2 DEF MvEnqueue
  <2>q. command \in MvCommand
    BY DEF MvTypes, MvCommand
  <2> HIDE DEF command
  <2>r. /\ mvQueue' \in Seq(MvCommand)
        /\ \A i \in DOMAIN mvQueue' : mvQueue'[i] = command
             \/ (i \in DOMAIN mvQueue /\ mvQueue'[i] = mvQueue[i])
        /\ \A i \in DOMAIN mvQueue : i \in DOMAIN mvQueue' /\ mvQueue'[i] = mvQueue[i]
        /\ \E i \in DOMAIN mvQueue' : mvQueue'[i] = command
    BY <2>0, <2>q, MvQueues DEF MvTypes
  <2>1. MvTypes'
    BY <2>0, <2>r, MvNoTaskTyped DEF MvTypes
  <2>2. MvFresh'
    BY <2>0, <2>r DEF MvFresh, MvTypes
  <2>3. MvPhases'
    BY <2>0, <2>r, MvNoTaskTyped DEF MvPhases, MvTypes, MvGmail, MvFrom
  <2>4. MvSomewhere'
    BY <2>0, <2>r, MvNoTaskTyped DEF MvSomewhere, MvGmail, MvFrom
  <2>5. MvApart'
    BY <2>0, <2>r, MvNoTaskTyped DEF MvApart, MvFrom
  <2>6. MvHiddenIsGone'
    BY <2>0, <2>r, MvNoTaskTyped DEF MvHiddenIsGone, MvOnItsWay, MvTypes
  <2> QED BY <2>1, <2>2, <2>3, <2>4, <2>5, <2>6 DEF MvInv
<1>3. CASE MvDropped
  <2>0. /\ UNCHANGED <<mvKind, mvFolders, mvServer, mvNext, mvRow, mvQueue, mvTask>>
        /\ mvReq' = MvNoReq /\ mvHist' = mvHist \cup {"lost"}
    BY <1>3 DEF MvDropped
  <2>1. MvTypes'
    BY <2>0, MvNoTaskTyped DEF MvTypes
  <2>2. MvFresh'
    BY <2>0 DEF MvFresh, MvTypes
  <2>3. MvPhases'
    BY <2>0, MvNoTaskTyped DEF MvPhases, MvTypes, MvGmail, MvFrom
  <2>4. MvSomewhere'
    BY <2>0, MvNoTaskTyped DEF MvSomewhere, MvGmail, MvFrom
  <2>5. MvApart'
    BY <2>0, MvNoTaskTyped DEF MvApart
  <2>6. MvHiddenIsGone'
    BY <2>0, MvNoTaskTyped DEF MvHiddenIsGone, MvOnItsWay, MvTypes
  <2> QED BY <2>1, <2>2, <2>3, <2>4, <2>5, <2>6 DEF MvInv
<1>4. CASE MvRestart
  <2>0. /\ UNCHANGED <<mvKind, mvFolders, mvServer, mvNext, mvRow>>
        /\ mvReq' = MvNoReq /\ mvQueue' = <<>> /\ mvTask' = MvNoTask
             /\ mvHist' = mvHist \cup {"lost"}
    BY <1>4 DEF MvRestart
  <2>q. mvQueue' \in Seq(MvCommand) /\ DOMAIN mvQueue' = {}
    BY <2>0, EmptySeq
  <2>1. MvTypes'
    BY <2>0, <2>q, MvNoTaskTyped DEF MvTypes
  <2>2. MvFresh'
    BY <2>0, <2>q DEF MvFresh, MvTypes
  <2>3. MvPhases'
    BY <2>0, <2>q, MvNoTaskTyped DEF MvPhases, MvTypes, MvGmail, MvFrom
  <2>4. MvSomewhere'
    BY <2>0, <2>q, MvNoTaskTyped DEF MvSomewhere, MvGmail
  <2>5. MvApart'
    BY <2>0, <2>q, MvNoTaskTyped DEF MvApart
  <2>6. MvHiddenIsGone'
    BY <2>0, <2>q, MvNoTaskTyped DEF MvHiddenIsGone, MvOnItsWay, MvTypes
  <2> QED BY <2>1, <2>2, <2>3, <2>4, <2>5, <2>6 DEF MvInv
<1>5. CASE MvTake
  <2>0. /\ UNCHANGED <<mvKind, mvFolders, mvServer, mvNext, mvRow, mvReq, mvHist>>
        /\ mvTask = MvNoTask /\ mvQueue # <<>> /\ mvTask' = Head(mvQueue)
             /\ mvQueue' = Tail(mvQueue)
    BY <1>5 DEF MvTake, MvTaskRest
  <2>r. /\ mvQueue' \in Seq(MvCommand) /\ mvTask' \in MvCommand
        /\ \E j \in DOMAIN mvQueue : mvQueue[j] = mvTask'
        /\ \A i \in DOMAIN mvQueue' : \E j \in DOMAIN mvQueue : mvQueue'[i] = mvQueue[j]
        /\ \A j \in DOMAIN mvQueue :
             mvQueue[j] = mvTask' \/ \E i \in DOMAIN mvQueue' : mvQueue'[i] = mvQueue[j]
    BY <2>0, MvTakes DEF MvTypes
  <2>1. MvTypes'
    BY <2>0, <2>r, MvNoTaskTyped DEF MvTypes
  <2>2. MvFresh'
    BY <2>0, <2>r DEF MvFresh, MvTypes
  <2>3. MvPhases'
    BY <2>0, <2>r, MvNoTaskTyped DEF MvPhases, MvTypes, MvGmail, MvFrom
  <2>4. MvSomewhere'
    BY <2>0, <2>r, MvNoTaskTyped DEF MvSomewhere, MvTypes, MvGmail
  <2>5. MvApart'
    BY <2>0, <2>r, MvNoTaskTyped DEF MvApart
  <2>6. MvHiddenIsGone'
    <3>1. mvTask' # MvNoTask
      BY <2>r, MvNoTaskTyped DEF MvTypes
    <3>2. ASSUME NEW p \in MvPlaces, MvOnItsWay(p) PROVE MvOnItsWay(p)'
      <4>1. CASE mvReq.pc = "queue" /\ mvReq.from = p
        BY <2>0, <4>1 DEF MvOnItsWay
      <4>2. ASSUME NEW j \in DOMAIN mvQueue, mvQueue[j].from = p PROVE MvOnItsWay(p)'
        <5>1. CASE mvQueue[j] = mvTask'
          BY <3>1, <4>2, <5>1 DEF MvOnItsWay
        <5>2. CASE \E i \in DOMAIN mvQueue' : mvQueue'[i] = mvQueue[j]
          BY <4>2, <5>2 DEF MvOnItsWay
        <5> QED BY <2>r, <5>1, <5>2
      <4> QED BY <2>0, <3>2, <4>1, <4>2 DEF MvOnItsWay
    <3> QED BY <2>0, <3>2 DEF MvHiddenIsGone
  <2> QED BY <2>1, <2>2, <2>3, <2>4, <2>5, <2>6 DEF MvInv
<1>6. CASE MvDoMove
  <2>0. /\ UNCHANGED <<mvKind, mvFolders, mvRow, mvReq, mvQueue, mvHist>> /\ mvTask' = MvNoTask
        /\ mvTask.pc = "do" /\ ~mvTask.expunge /\ mvKind = "move"
    BY <1>6 DEF MvDoMove, MvTaskRest, MvCompletes
  <2>q. \/ MvFrom \notin MvCopies /\ UNCHANGED <<mvServer, mvNext, MvCopies, MvLive>>
        \/ /\ mvTask.dest \in MvFolders /\ mvNext' = [mvNext EXCEPT ![mvTask.dest] = @ + 1]
           /\ mvServer' \subseteq [at : MvSpots, del : BOOLEAN]
           /\ MvFrom \in MvCopies
           /\ MvCopies' = (MvCopies \ {MvFrom}) \cup {<<mvTask.dest, mvNext[mvTask.dest]>>}
           /\ MvLive' = (MvLive \ {MvFrom}) \cup {<<mvTask.dest, mvNext[mvTask.dest]>>}
    <3>1. CASE MvSource = {}
      BY <1>6, <3>1 DEF MvDoMove, MvSource, MvCopies
    <3>2. CASE MvSource # {}
      BY <1>6, <3>2, MvMoveEffect DEF MvSource, MvCopies
    <3> QED BY <3>1, <3>2
  <2>r. MvLive \subseteq MvCopies
    BY DEF MvLive, MvCopies
  <2>s. /\ mvNext' \in [MvFolders -> Nat] /\ \A f \in MvFolders : mvNext[f] <= mvNext'[f]
        /\ \A p \in MvCopies' \cup MvLive' :
             \/ p \in MvCopies
             \/ p[1] \in MvFolders /\ p[2] = mvNext[p[1]] /\ p[2] < mvNext'[p[1]]
    <3>1. CASE UNCHANGED <<mvNext, MvCopies, MvLive>>
      BY <2>r, <3>1 DEF MvTypes
    <3>2. CASE mvTask.dest \in MvFolders /\ mvNext' = [mvNext EXCEPT ![mvTask.dest] = @ + 1]
      <4> DEFINE new == <<mvTask.dest, mvNext[mvTask.dest]>>
      <4>1. new[1] \in MvFolders /\ new[2] = mvNext[new[1]] /\ new[2] < mvNext'[new[1]]
        BY <3>2 DEF MvTypes
      <4>2. \A p \in MvCopies' \cup MvLive' : p \in MvCopies \/ p = new
        BY <2>q, <2>r
      <4>3. mvNext' \in [MvFolders -> Nat] /\ \A f \in MvFolders : mvNext[f] <= mvNext'[f]
        BY <3>2 DEF MvTypes
      <4> QED BY <4>1, <4>2, <4>3
    <3> QED BY <2>q, <3>1, <3>2
  <2>1. MvTypes'
    BY <2>0, <2>q, <2>r, MvNoTaskTyped DEF MvTypes
  <2>2. MvFresh'
    BY <2>0, <2>s, MvStaysFresh
  <2>3. MvPhases'
    BY <2>0, <2>q, <2>r, MvNoTaskTyped DEF MvPhases, MvTypes, MvGmail, MvFrom
  <2>4. MvSomewhere'
    BY <2>0, <2>q, <2>r, MvNoTaskTyped DEF MvSomewhere, MvGmail
  <2>5. MvApart'
    BY <2>0, <2>q, <2>r, MvNoTaskTyped DEF MvApart, MvPhases, MvTypes, MvGmail, MvFrom
  <2>6. MvHiddenIsGone'
    BY <2>0, <2>q, <2>r, MvCompletion DEF MvPhases
  <2> QED BY <2>1, <2>2, <2>3, <2>4, <2>5, <2>6 DEF MvInv
<1>7. CASE MvDoCopy
  <2>0. /\ UNCHANGED <<mvKind, mvFolders, mvRow, mvReq, mvQueue>>
        /\ mvTask.pc = "do" /\ ~mvTask.expunge /\ mvKind = "copy"
        /\ mvHist' = IF MvFrom \notin MvLive THEN mvHist \cup {"again"} ELSE mvHist
        /\ mvTask' \in MvCommand /\ mvTask'.pc = "mark" /\ mvTask'.from = mvTask.from
             /\ ~mvTask'.expunge
    BY <1>7 DEF MvDoCopy, MvTaskRest, MvTypes, MvCommand
  <2>q. \/ MvFrom \notin MvCopies /\ UNCHANGED <<mvServer, mvNext, MvCopies, MvLive>>
        \/ /\ mvTask.dest \in MvFolders /\ mvNext' = [mvNext EXCEPT ![mvTask.dest] = @ + 1]
           /\ mvServer' \subseteq [at : MvSpots, del : BOOLEAN]
           /\ MvFrom \in MvCopies
           /\ MvCopies' = MvCopies \cup {<<mvTask.dest, mvNext[mvTask.dest]>>}
           /\ MvLive' = MvLive \cup {<<mvTask.dest, mvNext[mvTask.dest]>>}
    <3>1. CASE MvSource = {}
      BY <1>7, <3>1 DEF MvDoCopy, MvSource, MvCopies
    <3>2. CASE MvSource # {}
      BY <1>7, <3>2, MvCopyEffect DEF MvSource, MvCopies
    <3> QED BY <3>1, <3>2
  <2>r. MvLive \subseteq MvCopies
    BY DEF MvLive, MvCopies
  <2>s. /\ mvNext' \in [MvFolders -> Nat] /\ \A f \in MvFolders : mvNext[f] <= mvNext'[f]
        /\ \A p \in MvCopies' \cup MvLive' :
             \/ p \in MvCopies
             \/ p[1] \in MvFolders /\ p[2] = mvNext[p[1]] /\ p[2] < mvNext'[p[1]]
    <3>1. CASE UNCHANGED <<mvNext, MvCopies, MvLive>>
      BY <2>r, <3>1 DEF MvTypes
    <3>2. CASE mvTask.dest \in MvFolders /\ mvNext' = [mvNext EXCEPT ![mvTask.dest] = @ + 1]
      <4> DEFINE new == <<mvTask.dest, mvNext[mvTask.dest]>>
      <4>1. new[1] \in MvFolders /\ new[2] = mvNext[new[1]] /\ new[2] < mvNext'[new[1]]
        BY <3>2 DEF MvTypes
      <4>2. \A p \in MvCopies' \cup MvLive' : p \in MvCopies \/ p = new
        BY <2>q, <2>r
      <4>3. mvNext' \in [MvFolders -> Nat] /\ \A f \in MvFolders : mvNext[f] <= mvNext'[f]
        BY <3>2 DEF MvTypes
      <4> QED BY <4>1, <4>2, <4>3
    <3> QED BY <2>q, <3>1, <3>2
  <2>1. MvTypes'
    BY <2>0, <2>q, <2>r, MvNoTaskTyped DEF MvTypes
  <2>2. MvFresh'
    BY <2>0, <2>s, MvStaysFresh
  <2>3. MvPhases'
    BY <2>0, <2>q, <2>r, MvNoTaskTyped DEF MvPhases, MvTypes, MvGmail, MvFrom
  <2>4. MvSomewhere'
    <3>1. MvFrom \in MvCopies => MvFrom # <<mvTask.dest, mvNext[mvTask.dest]>>
      <4> SUFFICES ASSUME MvFrom \in MvCopies, MvFrom = <<mvTask.dest,
                          mvNext[mvTask.dest]>> PROVE FALSE
        OBVIOUS
      <4>1. MvFrom[2] < mvNext[MvFrom[1]] /\ mvNext[mvTask.dest] \in Nat
        BY DEF MvFresh, MvTypes, MvCommand
      <4> QED BY <4>1
    <3>2. "erased" \notin mvHist => MvLive' # {}
      BY <2>q DEF MvSomewhere
    <3>3. MvFrom \notin MvLive' \/ MvLive' \ {MvFrom} # {}
      BY <2>q, <2>r, <3>1
    <3> QED BY <2>0, <3>2, <3>3 DEF MvSomewhere, MvGmail, MvFrom
  <2>5. MvApart'
    BY <2>0, <2>q, <2>r, MvNoTaskTyped DEF MvApart, MvPhases, MvTypes, MvGmail, MvFrom
  <2>6. MvHiddenIsGone'
    <3> SUFFICES ASSUME mvHist \cap {"lost", "kept"} = {},
                        NEW p \in MvPlaces, mvRow[p] = "hidden", p \in MvLive'
                 PROVE  MvOnItsWay(p)'
      BY <2>0 DEF MvHiddenIsGone
    <3>1. p[2] < mvNext[p[1]] /\ mvNext[p[1]] \in Nat /\ p[2] \in Nat
      BY DEF MvTypes, MvFresh, MvPlaces
    <3>2. p # <<mvTask.dest, mvNext[mvTask.dest]>>
      BY <3>1
    <3>3. MvOnItsWay(p)
      BY <2>q, <3>2 DEF MvHiddenIsGone
    <3> QED BY <2>0, <3>3, MvNoTaskTyped DEF MvOnItsWay
  <2> QED BY <2>1, <2>2, <2>3, <2>4, <2>5, <2>6 DEF MvInv
<1>8. CASE MvMarkOriginal
  <2>0. /\ UNCHANGED <<mvKind, mvFolders, mvRow, mvReq, mvNext, mvQueue, mvHist>>
             /\ mvTask.pc = "mark"
        /\ \/ ~mvTask.expunge /\ mvTask' = MvNoTask
           \/ /\ mvTask.expunge /\ mvTask' \in MvCommand /\ mvTask'.pc = "expunge"
              /\ mvTask'.from = mvTask.from /\ mvTask'.expunge
    BY <1>8 DEF MvMarkOriginal, MvTaskRest, MvCompletes, MvTypes, MvCommand
  <2>q. /\ mvServer' \subseteq [at : MvSpots, del : BOOLEAN]
        /\ MvCopies' = MvCopies /\ MvLive' = MvLive \ {MvFrom}
    BY <1>8, MvMarkEffect
  <2>1. MvTypes'
    BY <2>0, <2>q, MvNoTaskTyped DEF MvTypes
  <2>2. MvFresh'
    BY <2>0, <2>q DEF MvFresh, MvTypes
  <2>3. MvPhases'
    BY <2>0, <2>q, MvNoTaskTyped DEF MvPhases, MvTypes, MvGmail, MvFrom
  <2>4. MvSomewhere'
    BY <2>0, <2>q, MvNoTaskTyped DEF MvSomewhere, MvPhases, MvGmail
  <2>5. MvApart'
    BY <2>0, <2>q, MvNoTaskTyped DEF MvApart
  <2>6. MvHiddenIsGone'
    BY <2>0, <2>q, MvCompletion DEF MvPhases
  <2> QED BY <2>1, <2>2, <2>3, <2>4, <2>5, <2>6 DEF MvInv
<1>9. CASE MvBeginExpunge
  <2>0. /\ UNCHANGED <<mvKind, mvFolders, mvRow, mvReq, mvNext, mvServer, mvQueue, mvHist>>
        /\ mvTask.pc = "do" /\ mvTask.expunge /\ ~MvGmail
        /\ mvTask' \in MvCommand /\ mvTask'.pc = "mark" /\ mvTask'.from = mvTask.from
             /\ mvTask'.expunge
    BY <1>9 DEF MvBeginExpunge, MvTaskRest, MvTypes, MvCommand
  <2>1. MvTypes'
    BY <2>0, MvNoTaskTyped DEF MvTypes
  <2>2. MvFresh'
    BY <2>0 DEF MvFresh, MvTypes
  <2>3. MvPhases'
    BY <2>0, MvNoTaskTyped DEF MvPhases, MvTypes, MvGmail, MvFrom
  <2>4. MvSomewhere'
    BY <2>0, MvNoTaskTyped DEF MvSomewhere, MvPhases, MvGmail
  <2>5. MvApart'
    BY <2>0, MvNoTaskTyped DEF MvApart
  <2>6. MvHiddenIsGone'
    BY <2>0, MvNoTaskTyped DEF MvHiddenIsGone, MvOnItsWay, MvTypes
  <2> QED BY <2>1, <2>2, <2>3, <2>4, <2>5, <2>6 DEF MvInv
<1>10. CASE MvExpunge
  <2>0. /\ UNCHANGED <<mvKind, mvFolders, mvRow, mvReq, mvNext, mvQueue, mvHist>>
             /\ mvTask.pc = "expunge"
        /\ mvTask' = MvNoTask
    BY <1>10 DEF MvExpunge, MvTaskRest, MvCompletes
  <2>q. mvServer' \subseteq mvServer /\ MvCopies' \subseteq MvCopies /\ MvLive' = MvLive
    BY <1>10, MvExpungeEffect
  <2>r. MvCopies' \subseteq MvCopies /\ MvLive' \subseteq MvCopies'
    BY <2>q DEF MvLive, MvCopies
  <2>1. MvTypes'
    BY <2>0, <2>q, <2>r, MvNoTaskTyped DEF MvTypes
  <2>2. MvFresh'
    BY <2>0, <2>q, <2>r DEF MvFresh, MvTypes
  <2>3. MvPhases'
    BY <2>0, <2>q, <2>r, MvNoTaskTyped DEF MvPhases, MvTypes, MvGmail, MvFrom
  <2>4. MvSomewhere'
    BY <2>0, <2>q, <2>r, MvNoTaskTyped DEF MvSomewhere, MvGmail
  <2>5. MvApart'
    BY <2>0, <2>q, <2>r, MvNoTaskTyped DEF MvApart
  <2>6. MvHiddenIsGone'
    BY <2>0, <2>q, <2>r, MvCompletion DEF MvPhases
  <2> QED BY <2>1, <2>2, <2>3, <2>4, <2>5, <2>6 DEF MvInv
<1>11. CASE MvGmailMove
  <2>0. /\ UNCHANGED <<mvKind, mvFolders, mvRow, mvReq, mvQueue>> /\ mvTask.pc = "do" /\ MvGmail
        /\ mvTask' = MvNoTask /\ mvHist \subseteq mvHist' /\ mvHist' \subseteq mvHist \cup {"kept"}
    BY <1>11 DEF MvGmailMove, MvTaskRest, MvCompletes
  <2>q. /\ mvServer' \subseteq [at : MvSpots, del : BOOLEAN]
        /\ mvNext' \in [MvFolders -> Nat] /\ \A f \in MvFolders : mvNext[f] <= mvNext'[f]
        /\ MvCopies' = MvLive' /\ MvLive' # {}
        /\ \A p \in MvLive' : \/ p \in MvLive
                              \/ p[1] \in MvFolders /\ p[2] = mvNext[p[1]] /\ p[2] < mvNext'[p[1]]
        /\ MvFrom \in MvLive' => "kept" \in mvHist'
    BY <1>11, <2>0, MvGmailEffect DEF MvSomewhere
  <2>r. MvLive \subseteq MvCopies
    BY DEF MvLive, MvCopies
  <2>1. MvTypes'
    BY <2>0, <2>q, <2>r, MvNoTaskTyped DEF MvTypes
  <2>2. MvFresh'
    BY <2>0, <2>q, <2>r, MvStaysFresh
  <2>3. MvPhases'
    BY <2>0, <2>q, <2>r, MvNoTaskTyped DEF MvPhases, MvTypes, MvGmail, MvFrom
  <2>4. MvSomewhere'
    BY <2>0, <2>q, <2>r, MvNoTaskTyped DEF MvSomewhere
  <2>5. MvApart'
    BY <2>0, <2>q, <2>r, MvNoTaskTyped DEF MvApart, MvGmail
  <2>6. MvHiddenIsGone'
    BY <2>0, <2>q, <2>r, MvCompletion DEF MvPhases
  <2> QED BY <2>1, <2>2, <2>3, <2>4, <2>5, <2>6 DEF MvInv
<1>12. CASE MvGmailDelete
  <2>0. /\ UNCHANGED <<mvKind, mvFolders, mvRow, mvReq, mvNext, mvQueue, mvHist>>
             /\ mvTask.pc = "do" /\ MvGmail
        /\ mvTask.expunge /\ mvTask' = MvNoTask /\ mvServer' = {}
    BY <1>12 DEF MvGmailDelete, MvTaskRest, MvCompletes
  <2>q. MvLive' = {} /\ MvCopies' = {}
    BY <2>0 DEF MvLive, MvCopies
  <2>1. MvTypes'
    BY <2>0, <2>q, MvNoTaskTyped DEF MvTypes
  <2>2. MvFresh'
    BY <2>0, <2>q DEF MvFresh, MvTypes
  <2>3. MvPhases'
    BY <2>0, <2>q, MvNoTaskTyped DEF MvPhases, MvTypes, MvGmail, MvFrom
  <2>4. MvSomewhere'
    BY <2>0, <2>q, MvNoTaskTyped DEF MvSomewhere, MvPhases
  <2>5. MvApart'
    BY <2>0, <2>q, MvNoTaskTyped DEF MvApart
  <2>6. MvHiddenIsGone'
    BY <2>0, <2>q, MvCompletion DEF MvPhases
  <2> QED BY <2>1, <2>2, <2>3, <2>4, <2>5, <2>6 DEF MvInv
<1>13. CASE MvFails
  <2>0. /\ UNCHANGED <<mvKind, mvFolders, mvServer, mvNext, mvRow, mvReq, mvQueue>>
        /\ mvTask' = MvNoTask /\ mvHist' = mvHist \cup {"lost"}
    BY <1>13 DEF MvFails, MvTaskRest, MvCompletes
  <2>1. MvTypes'
    BY <2>0, MvNoTaskTyped DEF MvTypes
  <2>2. MvFresh'
    BY <2>0 DEF MvFresh, MvTypes
  <2>3. MvPhases'
    BY <2>0, MvNoTaskTyped DEF MvPhases, MvTypes, MvGmail, MvFrom
  <2>4. MvSomewhere'
    BY <2>0, MvNoTaskTyped DEF MvSomewhere, MvGmail
  <2>5. MvApart'
    BY <2>0, MvNoTaskTyped DEF MvApart
  <2>6. MvHiddenIsGone'
    BY <2>0, MvNoTaskTyped DEF MvHiddenIsGone, MvOnItsWay, MvTypes
  <2> QED BY <2>1, <2>2, <2>3, <2>4, <2>5, <2>6 DEF MvInv
<1>14. CASE MvPoll
  <2>0. /\ UNCHANGED <<mvKind, mvFolders, mvServer, mvNext, mvReq, mvQueue, mvTask, mvHist>>
        /\ mvRow' \in [MvPlaces -> {"none", "shown", "hidden"}]
        /\ \A p \in MvPlaces : /\ mvRow'[p] # "none" => p \in MvCopies \/ mvRow[p] # "none"
                               /\ p \in MvLive /\ mvRow'[p] = "hidden" => mvRow[p] = "hidden"
    <3>1. MvLive \subseteq MvCopies
      BY DEF MvLive, MvCopies
    <3> QED BY <1>14, <3>1 DEF MvPoll, MvTypes
  <2>1. MvTypes'
    BY <2>0, MvNoTaskTyped DEF MvTypes
  <2>2. MvFresh'
    BY <2>0 DEF MvFresh, MvTypes
  <2>3. MvPhases'
    BY <2>0, MvNoTaskTyped DEF MvPhases, MvTypes, MvGmail, MvFrom
  <2>4. MvSomewhere'
    BY <2>0, MvNoTaskTyped DEF MvSomewhere, MvGmail, MvFrom
  <2>5. MvApart'
    BY <2>0, MvNoTaskTyped DEF MvApart, MvFrom
  <2>6. MvHiddenIsGone'
    BY <2>0, MvNoTaskTyped DEF MvHiddenIsGone, MvOnItsWay, MvTypes
  <2> QED BY <2>1, <2>2, <2>3, <2>4, <2>5, <2>6 DEF MvInv
<1>15. CASE UNCHANGED mvVars
  BY <1>15 DEF mvVars, MvTypes, MvFresh, MvPhases, MvSomewhere, MvApart, MvHiddenIsGone,
     MvOnItsWay, MvGmail, MvFrom
<1>16. CASE \E p \in MvPlaces : \/ MvArchive(p) \/ MvDelete(p) \/ MvNotSpam(p)
                               \/ \E dest \in {"WORK", "INBOX", "ARCHIVE", "SPAM"} : MvMove(p, dest)
  BY <1>1, <1>16 DEF MvArchive, MvDelete, MvIsTrash, MvNotSpam, MvMove, MvFolders
<1> QED BY <1>2, <1>3, <1>4, <1>5, <1>6, <1>7, <1>8, <1>9, <1>10, <1>11, <1>12, <1>13, <1>14,
    <1>15, <1>16 DEF MvStep

\* Wherever a command fails: the message is somewhere unless the user deleted it for good;
\* a row is hidden only while its command is on the way, or its message is gone, or the
\* command was lost or kept it; and a message is in one folder unless a move failed half way
\* or was asked for twice (delete_message, queue_imap_move, do_imap_move).
THEOREM MessageKept == MvSpec => []MvMessageKept
<1>1. MvInv => MvMessageKept
  <2> SUFFICES ASSUME MvInv PROVE MvMessageKept
    OBVIOUS
  <2>1. MvNoLoss /\ MvHiddenIsGone
    BY DEF MvInv, MvSomewhere, MvNoLoss
  <2>2. MvOneCopy
    <3> SUFFICES ASSUME mvHist \cap {"lost", "again"} = {}, mvTask = MvNoTask, ~MvGmail
                 PROVE  Cardinality(MvLive) <= 1
      BY DEF MvOneCopy
    <3>1. MvLive \subseteq MvCopies
      BY DEF MvLive, MvCopies
    <3>2. \A p, q \in MvLive : p = q
      BY <3>1, MvNoTaskTyped DEF MvInv, MvTypes, MvApart, MvGmail
    <3>3. MvLive = {} \/ \E p \in MvLive : MvLive = {p}
      BY <3>2
    <3>4. Cardinality(MvLive) = 0 \/ Cardinality(MvLive) = 1
      BY <3>3, FS_EmptySet, FS_Singleton
    <3> QED BY <3>4
  <2> QED BY <2>1, <2>2 DEF MvMessageKept
<1> QED BY <1>1, MvInitInv, MvStepKeeps, PTL DEF MvSpec

-----------------------------------------------------------------------------
(* The message list. *)

\* A message row, and the list of a client.
MlRowType ==
    [in : BOOLEAN, date : 0 .. MlMaxDate, read : BOOLEAN, flagged : BOOLEAN, deleted : BOOLEAN]
MlListType ==
    [view : MlViews \cup {"none"}, unread : BOOLEAN, cursor : 0 .. MlTop,
     shown : SUBSET MlMessages, rows : Nat, always : SUBSET MlMessages]

\* The types; live messages have a date, and there is nothing in a closed list.
MlTypes ==
    /\ mlRow \in [MlMessages -> MlRowType] /\ mlList \in MlListType
    /\ \A m \in MlLive : mlRow[m].date # 0
    /\ ~MlOpen => mlList.shown = {} /\ mlList.always = {} /\ mlList.rows = 0

\* What was shown is at the cursor or above it, until it is deleted.
MlAbove ==
    /\ \A m \in mlList.shown : mlRow[m].in /\ (~mlRow[m].deleted => mlRow[m].date >= mlList.cursor)
    /\ MlShownOnce

\* What always matched matches, and is below the cursor if it was not shown yet.
MlAwaited ==
    /\ mlList.always \subseteq MlMatching(mlList.view, mlList.unread)
    /\ "tie" \notin mlHist => \A m \in mlList.always \ mlList.shown : mlRow[m].date < mlList.cursor

MlInv == MlTypes /\ MlAbove /\ MlAwaited

\* The messages a page of the open list is taken from.
MlOfView ==
    CASE mlList.view = "starred" -> MlStarred
      [] mlList.view = "search" -> MlOfSearch
      [] OTHER -> MlOfFolders(mlList.view)
MlPool == MlBefore(MlUnread(MlOfView, mlList.unread))

\* The first rows of a set are in it, as many as fit, or all of them.
LEMMA MlFirstOf ==
    ASSUME NEW s \in SUBSET MlMessages, NEW n \in Nat, NEW t \in MlFirst(s, n)
    PROVE  /\ t \subseteq s /\ IsFiniteSet(t) /\ Cardinality(t) \in Nat
           /\ Cardinality(t) <= n /\ (Cardinality(t) < n => t = s)
           /\ \A a \in t, b \in s \ t : mlRow[b].date <= mlRow[a].date
<1>1. IsFiniteSet(s) /\ Cardinality(s) \in Nat
  BY MlAssumption, FS_Subset, FS_CardinalityType
<1>2. /\ t \in SUBSET s
      /\ Cardinality(t) = (IF Cardinality(s) < n THEN Cardinality(s) ELSE n)
      /\ \A a \in t, b \in s \ t : mlRow[b].date <= mlRow[a].date
  BY DEF MlFirst
<1>3. IsFiniteSet(t) /\ Cardinality(t) \in Nat /\ (Cardinality(s) = Cardinality(t) => s = t)
  BY <1>1, <1>2, FS_Subset, FS_CardinalityType
<1> QED BY <1>1, <1>2, <1>3

\* Who has more date than a member is in too: the first rows hold all rows above theirs.
LEMMA MlAboveFirst ==
    ASSUME MlTypes, NEW A \in SUBSET MlMessages, NEW B \in SUBSET MlMessages, NEW n \in Nat,
           NEW a \in MlFirst(A, n), NEW b \in MlFirst(B, n), NEW t \in MlFirst(a \cup b, n),
           NEW x \in t, NEW y \in A \ a
    PROVE  mlRow[y].date <= mlRow[x].date
<1> SUFFICES ASSUME mlRow[x].date < mlRow[y].date PROVE FALSE
  <2>1. x \in MlMessages /\ y \in MlMessages
    BY DEF MlFirst
  <2> QED BY <2>1 DEF MlTypes, MlRowType
<1>1. /\ a \subseteq A /\ b \subseteq B /\ t \subseteq a \cup b
      /\ IsFiniteSet(t) /\ Cardinality(a) = n /\ Cardinality(t) <= n /\ Cardinality(t) \in Nat
      /\ \A v \in a : mlRow[y].date <= mlRow[v].date
      /\ \A v \in t, w \in (a \cup b) \ t : mlRow[w].date <= mlRow[v].date
  <2>1. a \cup b \in SUBSET MlMessages
    BY DEF MlFirst
  <2>2. a \subseteq A /\ Cardinality(a) <= n /\ (Cardinality(a) < n => a = A)
        /\ Cardinality(a) \in Nat /\ \A v \in a, w \in A \ a : mlRow[w].date <= mlRow[v].date
    BY MlFirstOf
  <2>3. b \subseteq B
    BY MlFirstOf
  <2>4. t \subseteq a \cup b /\ IsFiniteSet(t) /\ Cardinality(t) <= n /\ Cardinality(t) \in Nat
        /\ \A v \in t, w \in (a \cup b) \ t : mlRow[w].date <= mlRow[v].date
    BY <2>1, MlFirstOf
  <2>5. Cardinality(a) = n
    BY <2>2
  <2> QED BY <2>2, <2>3, <2>4, <2>5
<1>2. \A v \in a : mlRow[v].date > mlRow[x].date
  <2>1. \A v \in MlMessages : mlRow[v].date \in Nat
    BY MlAssumption DEF MlTypes, MlRowType
  <2> QED BY <1>1, <2>1
<1>3. a \in SUBSET t
  <2>1. \A v \in MlMessages : mlRow[v].date \in Nat
    BY MlAssumption DEF MlTypes, MlRowType
  <2> QED BY <1>1, <1>2, <2>1
<1>4. Cardinality(a) <= Cardinality(t) /\ (Cardinality(t) = Cardinality(a) => t = a)
  BY <1>1, <1>3, FS_Subset
<1>5. t = a
  BY <1>1, <1>4
<1>6. mlRow[x].date > mlRow[x].date /\ mlRow[x].date \in Nat
  BY <1>1, <1>2, <1>5, MlAssumption DEF MlTypes, MlRowType
<1> QED BY <1>6

\* unified_page: the first rows of the first rows of two folders are those of both.
LEMMA MlMergeFirst ==
    ASSUME MlTypes, NEW A \in SUBSET MlMessages, NEW B \in SUBSET MlMessages, NEW n \in Nat,
           NEW a \in MlFirst(A, n), NEW b \in MlFirst(B, n), NEW t \in MlFirst(a \cup b, n)
    PROVE  t \in MlFirst(A \cup B, n)
<1>1. a \in SUBSET A /\ b \in SUBSET B /\ a \cup b \in SUBSET MlMessages
  BY DEF MlFirst
<1>2. /\ t \subseteq a \cup b
      /\ \A v \in t, w \in (a \cup b) \ t : mlRow[w].date <= mlRow[v].date
      /\ Cardinality(a) < n => a = A
      /\ Cardinality(b) < n => b = B
  BY <1>1, MlFirstOf
<1>3. \A v \in t, w \in A \ a : mlRow[w].date <= mlRow[v].date
  BY MlAboveFirst
<1>4. \A v \in t, w \in B \ b : mlRow[w].date <= mlRow[v].date
  <2>1. a \cup b = b \cup a
    OBVIOUS
  <2>2. t \in MlFirst(b \cup a, n)
    BY <2>1
  <2> QED BY <2>2, MlAboveFirst
<1>5. \A v \in t, w \in (A \cup B) \ t : mlRow[w].date <= mlRow[v].date
  BY <1>2, <1>3, <1>4
<1>6. /\ IsFiniteSet(A \cup B) /\ Cardinality(A \cup B) \in Nat
      /\ Cardinality(a \cup b) <= Cardinality(A \cup B) /\ Cardinality(a \cup b) \in Nat
      /\ Cardinality(a) <= Cardinality(a \cup b) /\ Cardinality(b) <= Cardinality(a \cup b)
      /\ Cardinality(a) \in Nat /\ Cardinality(b) \in Nat
  <2>1. IsFiniteSet(A \cup B) /\ a \cup b \in SUBSET (A \cup B)
    BY <1>1, MlAssumption, FS_Subset
  <2>2. IsFiniteSet(a \cup b) /\ Cardinality(a \cup b) <= Cardinality(A \cup B)
    BY <2>1, FS_Subset
  <2>3. /\ IsFiniteSet(a) /\ Cardinality(a) <= Cardinality(a \cup b)
        /\ IsFiniteSet(b) /\ Cardinality(b) <= Cardinality(a \cup b)
    <3>1. a \in SUBSET (a \cup b) /\ b \in SUBSET (a \cup b)
      OBVIOUS
    <3> QED BY <2>2, <3>1, FS_Subset
  <2> QED BY <2>1, <2>2, <2>3, FS_CardinalityType
<1>7. Cardinality(t) = (IF Cardinality(a \cup b) < n THEN Cardinality(a \cup b) ELSE n)
  BY DEF MlFirst
<1>8. Cardinality(t) = (IF Cardinality(A \cup B) < n THEN Cardinality(A \cup B) ELSE n)
  <2>1. CASE Cardinality(a \cup b) < n
    <3>1. a = A /\ b = B
      BY <1>2, <1>6, <2>1
    <3> QED BY <1>7, <3>1
  <2>2. CASE ~(Cardinality(a \cup b) < n)
    BY <1>6, <1>7, <2>2
  <2> QED BY <2>1, <2>2
<1>9. t \in SUBSET (A \cup B)
  BY <1>1, <1>2
<1> QED BY <1>5, <1>8, <1>9 DEF MlFirst

\* Whatever the view, a page is the first rows of what belongs to it below the cursor.
LEMMA MlPageIsFirst ==
    ASSUME MlTypes, MlOpen
    PROVE  /\ MlPool \subseteq MlLive /\ \A m \in MlPool : mlRow[m].date < mlList.cursor
           /\ MlPages \subseteq MlFirst(MlPool, MlLimit)
<1>1. MlPool \subseteq MlLive /\ \A m \in MlPool : mlRow[m].date < mlList.cursor
  <2>1. MlOfView \subseteq MlLive
    BY DEF MlOfView, MlStarred, MlOfSearch, MlOfFolders
  <2> QED BY <2>1 DEF MlPool, MlBefore, MlUnread
<1> SUFFICES ASSUME NEW t \in MlPages PROVE t \in MlFirst(MlPool, MlLimit)
  BY <1>1
<1> DEFINE Of(f) == MlBefore(MlUnread(MlOfFolder(f), mlList.unread))
<1>2. mlList.view \in {"inbox", "in1", "in2", "trash", "bin", "starred", "search"}
  BY MlAssumption DEF MlOpen, MlTypes, MlListType
<1>3. CASE mlList.view = "inbox"
  <2>1. MlPool = Of("in1") \cup Of("in2")
    BY <1>3 DEF MlPool, MlOfView, MlBefore, MlUnread, MlOfFolders, MlOfFolder, MlFolders
  <2>2. Of("in1") \in SUBSET MlMessages /\ Of("in2") \in SUBSET MlMessages
    BY DEF MlBefore, MlUnread, MlOfFolder, MlLive
  <2>3. PICK a \in MlFirst(Of("in1"), MlLimit), b \in MlFirst(Of("in2"), MlLimit) :
          t \in MlFirst(a \cup b, MlLimit)
    BY <1>3 DEF MlPages, MlMerged, MlBranch
  <2> HIDE DEF Of
  <2> QED BY <2>1, <2>2, <2>3, MlMergeFirst, MlAssumption
<1>4. CASE mlList.view \in {"starred", "search"}
  BY <1>4 DEF MlPages, MlPool, MlOfView
<1>5. CASE mlList.view \in {"in1", "in2", "trash", "bin"}
  <2>1. PICK f : MlFolders(mlList.view) = {f}
    BY <1>5 DEF MlFolders
  <2>2. MlPool = Of(f)
    BY <1>5, <2>1 DEF MlPool, MlOfView, MlOfFolders, MlOfFolder
  <2>3. t \in MlBranch(f)
    BY <1>5, <2>1 DEF MlPages
  <2> QED BY <2>2, <2>3 DEF MlBranch
<1> QED BY <1>2, <1>3, <1>4, <1>5

\* The relation on which the least date of a page is found.
MlEarlier == {d \in Nat \X Nat : d[1] < d[2]}

\* The last date of a page is that of one of its rows, and no row's is before it.
LEMMA MlLastOf ==
    ASSUME MlTypes, NEW page \in SUBSET MlMessages, page # {}
    PROVE  /\ \E m \in page : MlLast(page) = mlRow[m].date
           /\ \A m \in page : MlLast(page) <= mlRow[m].date
<1> DEFINE dates == {mlRow[m].date : m \in page}
<1>1. dates \subseteq Nat /\ dates # {}
  BY MlAssumption DEF MlTypes, MlRowType
<1>2. IsWellFoundedOn(MlEarlier, Nat)
  BY NatLessThanWellFounded, Zenon DEF OpToRel, MlEarlier
<1>3. PICK d \in dates : \A e \in dates : <<e, d>> \notin MlEarlier
  <2> HIDE DEF dates
  <2> QED BY <1>1, <1>2, WFMin, Zenon
<1>4. ASSUME NEW m \in page PROVE d <= mlRow[m].date
  <2> DEFINE e == mlRow[m].date
  <2>1. e \in dates /\ e \in Nat /\ d \in Nat
    BY <1>1
  <2> HIDE DEF e, dates
  <2>2. <<e, d>> \in Nat \X Nat /\ ~(<<e, d>>[1] < <<e, d>>[2])
    BY <1>3, <2>1 DEF MlEarlier
  <2>3. d <= e
    BY <2>1, <2>2
  <2> QED BY <2>3 DEF e
<1>5. \E e \in dates : \A m \in page : e <= mlRow[m].date
  BY <1>4
<1>6. MlLast(page) \in dates /\ \A m \in page : MlLast(page) <= mlRow[m].date
  BY <1>5, Zenon DEF MlLast
<1> QED BY <1>6

\* A page loaded keeps the invariant.
LEMMA MlLoadInv == ASSUME MlInv, MlLoad PROVE MlInv'
<1> USE DEF MlInv
<1>1. PICK page \in MlPages :
        /\ mlList' = [mlList EXCEPT !.cursor = MlNextCursor(page), !.shown = @ \cup page,
                                  !.rows = @ + Cardinality(page)]
        /\ mlHist' = IF MlHasMore(page) /\ \E m \in MlLive \ (page \cup mlList.shown) :
                          mlRow[m].date = MlLast(page)
                     THEN mlHist \cup {"tie"} ELSE mlHist
  BY DEF MlLoad
<1>2. MlOpen /\ mlRow' = mlRow
  BY DEF MlLoad
<1>3. /\ MlPool \subseteq MlLive /\ MlPool \in SUBSET MlMessages
      /\ \A m \in MlPool : mlRow[m].date < mlList.cursor
      /\ page \in MlFirst(MlPool, MlLimit)
  BY <1>1, <1>2, MlPageIsFirst DEF MlLive
<1>4. /\ page \subseteq MlPool /\ page \in SUBSET MlMessages /\ IsFiniteSet(page)
      /\ Cardinality(page) \in Nat /\ Cardinality(page) <= MlLimit
      /\ Cardinality(page) < MlLimit => page = MlPool
      /\ \A a \in page, b \in MlPool \ page : mlRow[b].date <= mlRow[a].date
  <2>1. MlLimit \in Nat
    BY MlAssumption
  <2> QED BY <1>3, <2>1, MlFirstOf
<1>5. ASSUME MlHasMore(page)
      PROVE  /\ MlNextCursor(page) \in 0 .. MlTop /\ MlNextCursor(page) = MlLast(page)
             /\ \E m \in page : mlRow[m].date = MlLast(page)
             /\ \A m \in page : MlLast(page) <= mlRow[m].date
  <2>1. page # {}
    BY <1>5, FS_EmptySet, MlAssumption DEF MlHasMore
  <2>2. /\ \E m \in page : mlRow[m].date = MlLast(page)
        /\ \A m \in page : MlLast(page) <= mlRow[m].date
    BY <1>4, <2>1, MlLastOf
  <2>3. \A m \in MlMessages : mlRow[m].date \in 0 .. MlMaxDate
    BY DEF MlTypes, MlRowType
  <2>4. MlLast(page) \in 0 .. MlTop
    BY <1>4, <2>2, <2>3, MlAssumption DEF MlTop
  <2> QED BY <1>5, <2>2, <2>4 DEF MlNextCursor
<1>6. MlNextCursor(page) \in 0 .. MlTop /\ \A m \in page : MlNextCursor(page) <= mlRow[m].date
  <2>1. CASE ~MlHasMore(page)
    <3>1. \A m \in page : mlRow[m].date \in 0 .. MlMaxDate
      BY <1>4 DEF MlTypes, MlRowType
    <3> QED BY <2>1, <3>1, MlAssumption DEF MlNextCursor, MlEnded, MlTop
  <2> QED BY <1>5, <2>1
<1>7. MlNextCursor(page) <= mlList.cursor
  <2>1. CASE MlHasMore(page)
    <3>1. PICK m \in page : mlRow[m].date = MlNextCursor(page)
      BY <1>5, <2>1
    <3>2. mlRow[m].date < mlList.cursor /\ mlRow[m].date \in Nat /\ mlList.cursor \in Nat
      BY <1>3, <1>4, MlAssumption DEF MlTypes, MlRowType, MlListType, MlTop
    <3> QED BY <3>1, <3>2
  <2>2. CASE ~MlHasMore(page)
    BY <2>2, MlAssumption DEF MlNextCursor, MlEnded, MlTypes, MlListType, MlTop
  <2> QED BY <2>1, <2>2
<1>8. /\ mlList' \in MlListType
      /\ mlList'.view = mlList.view /\ mlList'.unread = mlList.unread
      /\ mlList'.always = mlList.always /\ mlList'.cursor = MlNextCursor(page)
      /\ mlList'.shown = mlList.shown \cup page
      /\ mlList'.rows = mlList.rows + Cardinality(page)
  <2>1. mlList \in MlListType
    BY DEF MlTypes
  <2>2. mlList.shown \cup page \in SUBSET MlMessages /\ mlList.rows + Cardinality(page) \in Nat
    BY <1>4, <2>1 DEF MlListType
  <2> DEFINE c == MlNextCursor(page)
             n == Cardinality(page)
  <2>3. c \in 0 .. MlTop
    BY <1>6
  <2>4. mlList' = [mlList EXCEPT !.cursor = c, !.shown = @ \cup page, !.rows = @ + n]
    BY <1>1
  <2> HIDE DEF c, n
  <2>5. /\ mlList' \in MlListType
        /\ mlList'.view = mlList.view /\ mlList'.unread = mlList.unread
        /\ mlList'.always = mlList.always /\ mlList'.cursor = c
        /\ mlList'.shown = mlList.shown \cup page
        /\ mlList'.rows = mlList.rows + n
    BY <2>1, <2>2, <2>3, <2>4 DEF MlListType, n
  <2> QED BY <2>5 DEF c, n
<1>9. MlTypes'
  BY <1>2, <1>8 DEF MlTypes, MlLive, MlOpen
<1>10. page \cap mlList.shown = {}
  <2>1. \A m \in page : mlRow[m].in /\ ~mlRow[m].deleted /\ mlRow[m].date < mlList.cursor
    BY <1>3, <1>4 DEF MlLive
  <2>2. \A m \in MlMessages : mlRow[m].date \in Nat /\ mlList.cursor \in Nat
    BY MlAssumption DEF MlTypes, MlRowType, MlListType, MlTop
  <2> QED BY <1>4, <2>1, <2>2 DEF MlAbove
<1>11. MlAbove'
  <2>1. \A m \in mlList'.shown : mlRow'[m].in
        /\ (~mlRow'[m].deleted => mlRow'[m].date >= mlList'.cursor)
    <3>1. \A m \in MlMessages : mlRow[m].date \in Nat /\ mlList.cursor \in Nat
          /\ MlNextCursor(page) \in Nat
      BY <1>6, MlAssumption DEF MlTypes, MlRowType, MlListType, MlTop
    <3>2. mlList.shown \subseteq MlMessages
      BY DEF MlTypes, MlListType
    <3> QED BY <1>2, <1>3, <1>4, <1>6, <1>7, <1>8, <3>1, <3>2 DEF MlAbove, MlLive
  <2>2. Cardinality(mlList.shown \cup page) = Cardinality(mlList.shown) + Cardinality(page)
    <3>1. IsFiniteSet(mlList.shown) /\ Cardinality(mlList.shown) \in Nat
      BY MlAssumption, FS_Subset, FS_CardinalityType DEF MlTypes, MlListType
    <3>2. mlList.shown \cap page = {}
      BY <1>10
    <3>3. /\ IsFiniteSet(mlList.shown \cup page)
          /\ Cardinality(mlList.shown \cup page)
             = Cardinality(mlList.shown) + Cardinality(page) - Cardinality({})
      BY <1>4, <3>1, <3>2, FS_Union
    <3> QED BY <1>4, <3>1, <3>3, FS_EmptySet
  <2> QED BY <1>8, <2>1, <2>2 DEF MlAbove, MlShownOnce
<1>12. MlAwaited'
  <2>1. mlList'.always \subseteq MlMatching(mlList.view, mlList.unread)'
    <3>1. MlMatching(mlList.view, mlList.unread)' = MlMatching(mlList.view, mlList.unread)
      BY <1>2, <1>8 DEF MlMatching, MlUnread, MlStarred, MlOfFolders, MlLive
    <3> QED BY <1>8, <3>1 DEF MlAwaited
  <2>2. ASSUME "tie" \notin mlHist', NEW m \in mlList.always \ (mlList.shown \cup page)
        PROVE  mlRow[m].date < MlNextCursor(page)
    <3>1. "tie" \notin mlHist
      BY <1>1, <2>2
    <3>2. m \in MlPool
      <4>1. m \in MlMatching(mlList.view, mlList.unread) /\ mlRow[m].date < mlList.cursor
        BY <2>2, <3>1 DEF MlAwaited
      <4>2. m \in MlUnread(MlOfView, mlList.unread)
        BY <4>1 DEF MlMatching, MlUnread, MlOfView, MlOfSearch, MlTermsFound
      <4> QED BY <4>1, <4>2 DEF MlPool, MlBefore
    <3>3. MlHasMore(page)
      BY <1>4, <2>2, <3>2, MlAssumption DEF MlHasMore
    <3>4. mlRow[m].date # MlLast(page)
      BY <1>1, <1>3, <2>2, <3>2, <3>3
    <3>5. PICK a \in page : mlRow[a].date = MlLast(page)
      BY <1>5, <3>3
    <3>6. mlRow[m].date <= mlRow[a].date
      BY <1>4, <2>2, <3>2
    <3>7. mlRow[m].date \in Nat /\ mlRow[a].date \in Nat
      BY <1>3, <1>4, <3>2, MlAssumption DEF MlTypes, MlRowType
    <3> QED BY <1>5, <3>3, <3>4, <3>5, <3>6, <3>7
  <2> QED BY <1>2, <1>8, <2>1, <2>2 DEF MlAwaited
<1> QED BY <1>9, <1>11, <1>12

\* A change of the rows that leaves the dates of live messages and revives none keeps
\* the invariant.
LEMMA MlChangeInv ==
    ASSUME MlInv, NEW row \in [MlMessages -> MlRowType], MlChange(row),
           \A m \in MlMessages :
             /\ row[m].in /\ ~row[m].deleted => row[m].date # 0
             /\ mlRow[m].in => row[m].in
             /\ mlRow[m].in /\ ~row[m].deleted => ~mlRow[m].deleted /\ row[m].date = mlRow[m].date
    PROVE  MlInv'
<1> USE DEF MlInv
<1>0. mlRow' = row /\ mlHist' = mlHist
  BY DEF MlChange
<1> DEFINE kept == {m \in mlList.always : /\ ~row[m].deleted
                                          /\ mlList.unread => ~row[m].read
                                          /\ mlList.view = "starred" => row[m].flagged}
<1>1. /\ mlList' \in MlListType /\ mlList'.view = mlList.view /\ mlList'.unread = mlList.unread
      /\ mlList'.cursor = mlList.cursor /\ mlList'.shown = mlList.shown
      /\ mlList'.rows = mlList.rows /\ mlList'.always = kept
  <2>1. mlList \in MlListType /\ kept \in SUBSET MlMessages
    BY DEF MlTypes, MlListType
  <2>2. mlList' = [mlList EXCEPT !.always = kept]
    BY Zenon DEF MlChange
  <2> HIDE DEF kept
  <2> QED BY <2>1, <2>2 DEF MlListType
<1>2. MlTypes'
  BY <1>0, <1>1 DEF MlTypes, MlLive, MlOpen
<1>3. MlAbove'
  <2>1. mlList.shown \subseteq MlMessages
    BY DEF MlTypes, MlListType
  <2> QED BY <1>0, <1>1, <2>1 DEF MlAbove, MlShownOnce
<1>4. MlAwaited'
  <2>1. mlList.always \subseteq MlMatching(mlList.view, mlList.unread)
    BY DEF MlAwaited
  <2>0. MlMatching(mlList.view, mlList.unread) \subseteq MlLive
    BY DEF MlMatching, MlUnread, MlStarred, MlOfFolders
  <2>2. kept \subseteq MlLive /\ kept \subseteq MlLive'
    <3> SUFFICES ASSUME NEW m \in kept PROVE m \in MlLive /\ m \in MlLive'
      OBVIOUS
    <3>1. m \in MlLive /\ ~row[m].deleted
      BY <2>0, <2>1
    <3> QED BY <1>0, <3>1 DEF MlLive
  <2>3. kept \subseteq MlMatching(mlList.view, mlList.unread)'
    <3> HIDE DEF MlInv
    <3> SUFFICES ASSUME NEW m \in kept PROVE m \in MlMatching(mlList.view, mlList.unread)'
      OBVIOUS
    <3>1. m \in MlMatching(mlList.view, mlList.unread) /\ m \in MlLive'
      BY <2>1, <2>2
    <3>2. /\ (mlList.unread => ~mlRow'[m].read) /\ (mlList.view = "starred" => mlRow'[m].flagged)
      <4>1. row[m] \in MlRowType /\ mlList.unread \in BOOLEAN
        BY <3>1 DEF MlInv, MlTypes, MlListType, MlLive
      <4> QED BY <1>0, <4>1 DEF MlRowType
    <3> QED BY <1>1, <3>1, <3>2 DEF MlMatching, MlUnread, MlStarred, MlOfFolders
  <2>4. \A m \in kept : mlRow'[m].date = mlRow[m].date
    BY <1>0, <2>2 DEF MlLive
  <2> QED BY <1>0, <1>1, <2>3, <2>4 DEF MlAwaited
<1> QED BY <1>2, <1>3, <1>4

\* What imports, marks, hides and acts on messages is such a change.
LEMMA MlOthersInv ==
    ASSUME MlInv,
           \/ \E m \in MlMessages : \/ \E date \in 1 .. MlMaxDate : MlImport(m, date)
                                    \/ MlMark(m) \/ MlHide(m)
           \/ \E action \in {"read", "flag", "delete"} : MlBulk(action)
    PROVE  MlInv'
<1>0. /\ mlRow \in [MlMessages -> MlRowType]
      /\ \A m \in MlMessages : mlRow[m].in /\ ~mlRow[m].deleted => mlRow[m].date # 0
      /\ MlHidden \in MlRowType /\ MlHidden.in /\ MlHidden.deleted
  BY MlAssumption DEF MlInv, MlTypes, MlLive, MlHidden, MlRowType
<1>1. ASSUME NEW m \in MlMessages, NEW date \in 1 .. MlMaxDate, MlImport(m, date) PROVE MlInv'
  <2> DEFINE r == [MlNoRow EXCEPT !.in = TRUE, !.date = date]
  <2>1. r \in MlRowType /\ r.date # 0
    <3>1. MlNoRow \in MlRowType /\ date \in 0 .. MlMaxDate /\ date # 0
      BY MlAssumption DEF MlNoRow, MlRowType
    <3> QED BY <3>1 DEF MlRowType
  <2>2. ~mlRow[m].in /\ MlChange([mlRow EXCEPT ![m] = r])
    BY <1>1 DEF MlImport
  <2> HIDE DEF r
  <2> DEFINE row == [mlRow EXCEPT ![m] = r]
  <2>3. row \in [MlMessages -> MlRowType] /\ row[m] = r /\ \A n \in MlMessages : n # m
        => row[n] = mlRow[n]
    BY <1>0, <2>1
  <2>4. MlChange(row)
    BY <2>2
  <2> HIDE DEF row
  <2> QED BY <1>0, <2>1, <2>2, <2>3, <2>4, MlChangeInv
<1>2. ASSUME NEW m \in MlMessages, MlMark(m) PROVE MlInv'
  <2>1. PICK r \in MlRowType : /\ r.in = mlRow[m].in /\ r.date = mlRow[m].date
                               /\ r.deleted = mlRow[m].deleted
                               /\ MlChange([mlRow EXCEPT ![m] = r])
    <3> DEFINE read == [mlRow[m] EXCEPT !.read = ~@]
               flagged == [mlRow[m] EXCEPT !.flagged = ~@]
    <3>1. mlRow[m] \in MlRowType
      BY <1>0
    <3>2. /\ read \in MlRowType /\ read.in = mlRow[m].in /\ read.date = mlRow[m].date
          /\ read.deleted = mlRow[m].deleted
          /\ flagged \in MlRowType /\ flagged.in = mlRow[m].in /\ flagged.date = mlRow[m].date
          /\ flagged.deleted = mlRow[m].deleted
      BY <3>1 DEF MlRowType
    <3>3. [mlRow EXCEPT ![m].read = ~@] = [mlRow EXCEPT ![m] = read]
          /\ [mlRow EXCEPT ![m].flagged = ~@] = [mlRow EXCEPT ![m] = flagged]
      OBVIOUS
    <3>4. MlChange([mlRow EXCEPT ![m] = read]) \/ MlChange([mlRow EXCEPT ![m] = flagged])
      BY <1>2, <3>3 DEF MlMark
    <3> HIDE DEF read, flagged
    <3> QED BY <3>2, <3>4
  <2> DEFINE row == [mlRow EXCEPT ![m] = r]
  <2>2. row \in [MlMessages -> MlRowType] /\ row[m] = r /\ \A n \in MlMessages : n # m
        => row[n] = mlRow[n]
    BY <1>0, <2>1
  <2>3. MlChange(row)
    BY <2>1
  <2>4. m \in MlLive
    BY <1>2 DEF MlMark
  <2> HIDE DEF row
  <2>5. \A n \in MlMessages :
             /\ row[n].in /\ ~row[n].deleted => row[n].date # 0
             /\ mlRow[n].in => row[n].in
             /\ mlRow[n].in /\ ~row[n].deleted => ~mlRow[n].deleted /\ row[n].date = mlRow[n].date
    BY <1>0, <2>1, <2>2, <2>4 DEF MlLive
  <2> QED BY <2>2, <2>3, <2>5, MlChangeInv
<1>3. ASSUME NEW m \in MlMessages, MlHide(m) PROVE MlInv'
  <2> DEFINE row == [mlRow EXCEPT ![m] = MlHidden]
  <2>1. row \in [MlMessages -> MlRowType] /\ row[m] = MlHidden
        /\ \A n \in MlMessages : n # m => row[n] = mlRow[n]
    BY <1>0
  <2>2. MlChange(row)
    BY <1>3 DEF MlHide
  <2> HIDE DEF row
  <2>3. \A n \in MlMessages :
             /\ row[n].in /\ ~row[n].deleted => row[n].date # 0
             /\ mlRow[n].in => row[n].in
             /\ mlRow[n].in /\ ~row[n].deleted => ~mlRow[n].deleted /\ row[n].date = mlRow[n].date
    BY <1>0, <2>1
  <2> QED BY <2>1, <2>2, <2>3, MlChangeInv
<1>4. ASSUME NEW action \in {"read", "flag", "delete"}, MlBulk(action) PROVE MlInv'
  <2> DEFINE row == [m \in MlMessages |->
         IF m \notin MlScope THEN mlRow[m]
         ELSE CASE action = "read" -> [mlRow[m] EXCEPT !.read = TRUE]
                [] action = "flag" -> [mlRow[m] EXCEPT !.flagged = TRUE]
                [] action = "delete" -> MlHidden]
  <2>1. ASSUME NEW m \in MlMessages
        PROVE  /\ row[m] \in MlRowType
               /\ row[m].in /\ ~row[m].deleted => row[m].date # 0
               /\ mlRow[m].in => row[m].in
               /\ mlRow[m].in /\ ~row[m].deleted => ~mlRow[m].deleted /\ row[m].date = mlRow[m].date
    <3> DEFINE read == [mlRow[m] EXCEPT !.read = TRUE]
               flagged == [mlRow[m] EXCEPT !.flagged = TRUE]
    <3>1. mlRow[m] \in MlRowType /\ (mlRow[m].in /\ ~mlRow[m].deleted => mlRow[m].date # 0)
      BY <1>0
    <3>2. /\ read \in MlRowType /\ read.in = mlRow[m].in /\ read.date = mlRow[m].date
          /\ read.deleted = mlRow[m].deleted
          /\ flagged \in MlRowType /\ flagged.in = mlRow[m].in /\ flagged.date = mlRow[m].date
          /\ flagged.deleted = mlRow[m].deleted
      BY <3>1 DEF MlRowType
    <3>3. row[m] \in {mlRow[m], read, flagged, MlHidden}
      OBVIOUS
    <3> HIDE DEF read, flagged, row
    <3> QED BY <1>0, <3>1, <3>2, <3>3
  <2>2. MlChange(row)
    BY <1>4 DEF MlBulk
  <2>3. row \in [MlMessages -> MlRowType]
    <3>1. \A m \in MlMessages : row[m] \in MlRowType
      BY <2>1
    <3>2. row = [m \in MlMessages |-> row[m]]
      OBVIOUS
    <3> HIDE DEF row
    <3> QED BY <3>1, <3>2
  <2> HIDE DEF row
  <2> QED BY <2>1, <2>2, <2>3, MlChangeInv
<1> QED BY <1>1, <1>2, <1>3, <1>4

\* Every step of a client and of everyone else keeps the invariant.
LEMMA MlStepInv == ASSUME MlInv, [MlNext]_mlVars PROVE MlInv'
<1>1. ASSUME NEW view \in MlViews, NEW unread \in BOOLEAN, MlOpenList(view, unread) PROVE MlInv'
  <2>1. /\ mlList'.view = view /\ mlList'.unread = unread /\ mlList'.cursor = MlTop
        /\ mlList'.shown = {} /\ mlList'.rows = 0 /\ mlList'.always = MlMatching(view, unread)
        /\ mlRow' = mlRow
    BY <1>1 DEF MlOpenList
  <2>2. MlMatching(view, unread) \subseteq MlMessages
    BY DEF MlMatching, MlUnread, MlStarred, MlOfFolders, MlLive
  <2>3. mlList' \in MlListType
    BY <1>1, <2>2, MlAssumption DEF MlOpenList, MlListType, MlTop
  <2>4. MlTypes'
    BY <2>1, <2>3, MlAssumption DEF MlInv, MlTypes, MlLive, MlOpen
  <2>5. MlAbove'
    BY <2>1, FS_EmptySet DEF MlAbove, MlShownOnce
  <2>6. MlAwaited'
    <3>1. MlMatching(view, unread)' = MlMatching(view, unread)
      BY <2>1 DEF MlMatching, MlUnread, MlStarred, MlOfFolders, MlLive
    <3>2. \A m \in MlMessages : mlRow[m].date < MlTop
      BY MlAssumption DEF MlInv, MlTypes, MlRowType, MlTop
    <3> QED BY <2>1, <2>2, <3>1, <3>2 DEF MlAwaited
  <2> QED BY <2>4, <2>5, <2>6 DEF MlInv
<1>2. CASE MlLoad
  BY <1>2, MlLoadInv
<1>3. CASE MlCloseList
  <2>1. mlList' = MlNoList /\ mlRow' = mlRow
    BY <1>3 DEF MlCloseList
  <2>2. MlTypes'
    BY <2>1, MlAssumption DEF MlInv, MlTypes, MlLive, MlOpen, MlNoList, MlListType, MlTop
  <2>3. MlAbove' /\ MlAwaited'
    BY <2>1, FS_EmptySet DEF MlAbove, MlShownOnce, MlAwaited, MlNoList
  <2> QED BY <2>2, <2>3 DEF MlInv
<1>4. CASE UNCHANGED mlVars
  BY <1>4 DEF mlVars, MlInv, MlTypes, MlAbove, MlShownOnce, MlAwaited, MlLive, MlOpen, MlMatching,
     MlUnread, MlStarred, MlOfFolders
<1> QED BY <1>1, <1>2, <1>3, <1>4, MlOthersInv DEF MlNext

\* For every number of messages, every page size and every view: a list loaded to its end
\* has shown, once, each message that matched it from its opening on, whatever was imported,
\* hidden or marked meanwhile, if no page ended between rows of one date (queries.rs:108,
\* next_cursor and unified_page).
THEOREM ListShown == MlSpec => []MlListShown
<1>1. MlInit => MlInv
  <2> SUFFICES ASSUME MlInit PROVE MlInv
    OBVIOUS
  <2>1. mlRow \in [MlMessages -> MlRowType] /\ \A m \in MlMessages : ~mlRow[m].in
    BY MlAssumption DEF MlInit, MlNoRow, MlRowType
  <2>2. MlTypes
    BY <2>1, MlAssumption DEF MlInit, MlTypes, MlLive, MlOpen, MlNoList, MlListType, MlTop
  <2> QED BY <2>2, FS_EmptySet DEF MlInit, MlInv, MlAbove, MlShownOnce, MlAwaited, MlNoList
<1>2. MlInv /\ [MlNext]_mlVars => MlInv'
  BY MlStepInv
<1>3. MlInv => MlListShown
  <2> SUFFICES ASSUME MlInv, mlList.cursor = MlEnded, "tie" \notin mlHist,
                      NEW m \in mlList.always \ mlList.shown
               PROVE  FALSE
    BY DEF MlListShown, MlWalkComplete, MlInv, MlAbove
  <2>1. mlRow[m].date < 0 /\ mlRow[m].date \in Nat
    BY MlAssumption DEF MlInv, MlAwaited, MlEnded, MlTypes, MlRowType, MlListType
  <2> QED BY <2>1
<1> QED BY <1>1, <1>2, <1>3, PTL DEF MlSpec

-----------------------------------------------------------------------------
(* Threads. *)

\* The ids a thread may have: that of a root, or of a list's subject.
ThIds == {<<"root", m>> : m \in ThMessages} \cup {<<"list", ThListOf[m]>> : m \in ThMessages}
ThThreads == ThIds \cup {ThNone}

\* The types.
ThTypes ==
    /\ thRow \in [ThFolders -> [ThMessages -> ThThreads]]
    /\ thKnown \in [ThMessages -> ThThreads]
    /\ thWalk \in ThFolders \cup {ThNone}

\* Nothing on a message's chain was guessed wrong.
ThSound(m) == ThOneConversation(m) /\ \A a \in ThChain[m] : ~ThGuessedWrong(a)

\* The rows, and the map a walk reads from them, name the thread of the conversation.
ThInv ==
    /\ ThTypes
    /\ \A f \in ThFolders, m \in ThMessages :
         thRow[f][m] # ThNone /\ ThSound(m) => thRow[f][m] = ThOwn(ThRoot[m])
    /\ \A m \in ThMessages :
         thKnown[m] # ThNone /\ ThSound(m) => thKnown[m] = ThOwn(ThRoot[m])

\* What a message answers is among the messages its headers name, which are messages.
LEMMA ThAnsweredType ==
    ASSUME NEW m \in ThMessages
    PROVE  /\ ThAnswered(m) \in Seq(ThMessages)
           /\ Range(ThAnswered(m)) \subseteq ThAncestors[m]
           /\ ThAncestors[m] \subseteq ThMessages /\ m \in ThAncestors[m]
           /\ ThAnswered(m) = <<>> => ThAncestors[m] = {m}
<1>1. /\ ThReferences[m] \in Seq(ThMessages) /\ ThInReplyTo[m] \in ThMessages \cup {ThNone}
      /\ ThNone \notin ThMessages
  BY ThAssumption
<1>2. ThAncestors[m] = ({m} \cup Range(ThReferences[m]) \cup {ThInReplyTo[m]}) \ {ThNone}
  BY DEF ThAncestors
<1>3. Range(ThReferences[m]) \subseteq ThMessages BY <1>1 DEF Range
<1>4. CASE ThReferences[m] # <<>>
  <2>1. ThAnswered(m) = ThReferences[m] BY <1>4 DEF ThAnswered
  <2> QED BY <1>1, <1>2, <1>3, <1>4, <2>1
<1>5. CASE ThReferences[m] = <<>> /\ ThInReplyTo[m] # ThNone
  <2>1. ThAnswered(m) = <<ThInReplyTo[m]>> /\ ThInReplyTo[m] \in ThMessages
    BY <1>1, <1>5 DEF ThAnswered
  <2>2. Range(ThAnswered(m)) = {ThInReplyTo[m]} BY <2>1 DEF Range
  <2>3. ThAnswered(m) \in Seq(ThMessages) /\ ThAnswered(m) # <<>> BY <2>1
  <2> QED BY <1>1, <1>2, <1>3, <2>1, <2>2, <2>3
<1>6. CASE ThReferences[m] = <<>> /\ ThInReplyTo[m] = ThNone
  <2>1. ThAnswered(m) = <<>> BY <1>6 DEF ThAnswered
  <2>2. Range(<<>>) = {} BY DEF Range
  <2>3. <<>> \in Seq(ThMessages) OBVIOUS
  <2>4. Range(ThReferences[m]) = {} BY <1>6, <2>2
  <2>5. ThAncestors[m] = {m} BY <1>1, <1>2, <1>6, <2>4
  <2> QED BY <2>1, <2>2, <2>3, <2>5
<1> QED BY <1>4, <1>5, <1>6

\* A chain starts at its message and holds the chains of what the message answers; a
\* message that answers nothing is its own chain.
LEMMA ThChainOf ==
    ASSUME NEW m \in ThMessages
    PROVE  /\ m \in ThChain[m] /\ ThChain[m] \subseteq ThMessages
           /\ \A a \in Range(ThAnswered(m)) : a \in ThMessages /\ ThChain[a] \subseteq ThChain[m]
           /\ ThAnswered(m) = <<>> => ThChain[m] = {m}
<1>1. ThChain[m] = {n \in ThMessages : \A S \in SUBSET ThMessages :
                      m \in S /\ (\A a \in S : ThAncestors[a] \subseteq S) => n \in S}
  BY DEF ThChain
<1>2. ASSUME NEW a \in Range(ThAnswered(m)) PROVE a \in ThMessages /\ ThChain[a] \subseteq ThChain[m]
  <2>1. a \in ThAncestors[m] /\ a \in ThMessages BY <1>2, ThAnsweredType
  <2>2. ThChain[a] = {n \in ThMessages : \A S \in SUBSET ThMessages :
                        a \in S /\ (\A b \in S : ThAncestors[b] \subseteq S) => n \in S}
    BY <2>1 DEF ThChain
  <2> QED BY <1>1, <2>1, <2>2
<1>3. ASSUME ThAnswered(m) = <<>> PROVE ThChain[m] \subseteq {m}
  <2>1. {m} \in SUBSET ThMessages /\ \A a \in {m} : ThAncestors[a] \subseteq {m}
    BY <1>3, ThAnsweredType
  <2> QED BY <1>1, <2>1
<1> QED BY <1>1, <1>2, <1>3

\* The root of a chain of one conversation, and that of what its messages answer.
LEMMA ThRootOf ==
    ASSUME NEW m \in ThMessages, ThOneConversation(m)
    PROVE  /\ ThAnswered(m) = <<>> => ThRoot[m] = m
           /\ \A a \in Range(ThAnswered(m)) : ThOneConversation(a) /\ ThRoot[a] = ThRoot[m]
<1>1. PICK r \in ThMessages : {q \in ThChain[m] : ThAnswered(q) = <<>>} = {r}
  BY ThChainOf DEF ThOneConversation
<1>2. ThRoot[m] = CHOOSE q \in ThChain[m] : ThAnswered(q) = <<>> BY DEF ThRoot
<1>3. ThRoot[m] = r BY <1>1, <1>2
<1>4. ASSUME ThAnswered(m) = <<>> PROVE ThRoot[m] = m
  BY <1>1, <1>3, <1>4, ThChainOf
<1>5. ASSUME NEW a \in Range(ThAnswered(m)) PROVE ThOneConversation(a) /\ ThRoot[a] = ThRoot[m]
  <2>1. a \in ThMessages /\ ThChain[a] \subseteq ThChain[m] BY <1>5, ThChainOf
  <2>2. ThOneConversation(a) BY <2>1 DEF ThOneConversation
  <2>3. PICK p \in ThMessages : {q \in ThChain[a] : ThAnswered(q) = <<>>} = {p}
    BY <2>1, <2>2, ThChainOf DEF ThOneConversation
  <2>4. ThRoot[a] = CHOOSE q \in ThChain[a] : ThAnswered(q) = <<>> BY <2>1 DEF ThRoot
  <2>5. ThRoot[a] = p BY <2>3, <2>4
  <2>6. p = r BY <1>1, <2>1, <2>3
  <2> QED BY <1>3, <2>2, <2>5, <2>6
<1> QED BY <1>4, <1>5

\* The first reference the walk knows is one it knows (jwz_thread_id).
LEMMA ThMinFound ==
    ASSUME NEW m \in ThMessages, ThFound(m) # {}
    PROVE  Min(ThFound(m)) \in ThFound(m)
<1>1. ThFound(m) \subseteq Nat BY ThAnsweredType DEF ThFound
<1>2. IsWellFoundedOn(MlEarlier, Nat)
  BY NatLessThanWellFounded, Zenon DEF OpToRel, MlEarlier
<1>3. PICK x \in ThFound(m) : \A y \in ThFound(m) : <<y, x>> \notin MlEarlier
  BY <1>1, <1>2, WFMin, Zenon
<1>4. ASSUME NEW y \in ThFound(m) PROVE x <= y
  <2>1. x \in Nat /\ y \in Nat BY <1>1
  <2>2. <<y, x>> \in Nat \X Nat /\ ~(<<y, x>>[1] < <<y, x>>[2])
    BY <1>3, <2>1 DEF MlEarlier
  <2> QED BY <2>1, <2>2
<1>5. \E z \in ThFound(m) : \A y \in ThFound(m) : z <= y BY <1>4
<1> QED BY <1>5, Zenon DEF Min

\* Fewer chains are sound once more messages were threaded blindly.
LEMMA ThSoundBefore ==
    ASSUME thBlind \subseteq thBlind', NEW m \in ThMessages, ThSound(m)' PROVE ThSound(m)
BY DEF ThSound, ThGuessedWrong

\* assign_thread_id takes the conversation's thread from a map that is right, and from
\* the oldest reference when the guess is right.
LEMMA ThAssignedRight ==
    ASSUME ThInv, NEW m \in ThMessages, ThImport(m)
    PROVE  ThAssigned(m) \in ThIds /\ (ThSound(m)' => ThAssigned(m) = ThOwn(ThRoot[m]))
<1>0. ThAnswered(m) \in Seq(ThMessages) BY ThAnsweredType
<1>1. thBlind \subseteq thBlind' BY DEF ThImport
<1>2. CASE ThAnswered(m) = <<>>
  <2>1. ThAssigned(m) = ThOwn(m) BY <1>2 DEF ThAssigned
  <2>2. ThSound(m)' => ThRoot[m] = m BY <1>2, ThRootOf DEF ThSound
  <2> QED BY <2>1, <2>2 DEF ThOwn, ThIds
<1>3. CASE ThAnswered(m) # <<>> /\ ThFound(m) # {}
  <2> DEFINE i == Min(ThFound(m))
  <2> DEFINE a == ThAnswered(m)[i]
  <2>1. i \in DOMAIN ThAnswered(m) /\ thKnown[a] # ThNone BY <1>3, ThMinFound DEF ThFound
  <2>2. a \in Range(ThAnswered(m)) /\ a \in ThMessages BY <2>1, <1>0 DEF Range
  <2>3. ThAssigned(m) = thKnown[a] BY <1>3 DEF ThAssigned, ThJwz
  <2> HIDE DEF a
  <2>4. ThAssigned(m) \in ThIds BY <2>1, <2>2, <2>3 DEF ThInv, ThTypes, ThThreads
  <2>5. ASSUME ThSound(m)' PROVE ThAssigned(m) = ThOwn(ThRoot[m])
    <3>1. ThSound(m) BY <1>1, <2>5, ThSoundBefore
    <3>2. ThSound(a) /\ ThRoot[a] = ThRoot[m]
      BY <3>1, <2>2, ThRootOf, ThChainOf DEF ThSound
    <3> QED BY <3>2, <2>1, <2>2, <2>3 DEF ThInv
  <2> QED BY <2>4, <2>5
<1>4. CASE ThAnswered(m) # <<>> /\ ThFound(m) = {}
  <2>1. ThAssigned(m) = <<"root", Head(ThAnswered(m))>> /\ Head(ThAnswered(m)) \in ThMessages
    BY <1>0, <1>4 DEF ThAssigned, ThJwz, ThOldest
  <2>2. m \in thBlind' BY <1>4 DEF ThImport, ThFound
  <2>3. ThSound(m)' => ~ThGuessedWrong(m)' BY ThChainOf DEF ThSound
  <2> QED BY <1>4, <2>1, <2>2, <2>3 DEF ThGuessedWrong, ThIds
<1> QED BY <1>2, <1>3, <1>4

\* Nothing is stored at first.
LEMMA ThInitInv == ThInit => ThInv
BY DEF ThInit, ThInv, ThTypes, ThThreads

\* A walk's map is read from rows, a row is stored as assign_thread_id says, and what
\* was guessed is never forgotten.
LEMMA ThStep == ThInv /\ [ThNext]_thVars => ThInv'
<1> SUFFICES ASSUME ThInv, [ThNext]_thVars PROVE ThInv' OBVIOUS
<1>0. ThTypes BY DEF ThInv
<1>1. CASE \E f \in ThFolders : ThBegin(f)
  <2>1. PICK f \in ThFolders : ThBegin(f) BY <1>1
  <2>2. PICK of \in [ThMessages -> ThFolders] : thKnown' = [m \in ThMessages |-> thRow[of[m]][m]]
    BY <2>1 DEF ThBegin
  <2>3. UNCHANGED <<thRow, thBlind>> /\ thWalk' = f BY <2>1 DEF ThBegin
  <2>4. \A m \in ThMessages : ThSound(m)' => ThSound(m) BY <2>3, ThSoundBefore
  <2>5. ThTypes' BY <1>0, <2>2, <2>3 DEF ThTypes
  <2>6. \A m \in ThMessages : thKnown'[m] # ThNone /\ ThSound(m)' => thKnown'[m] = ThOwn(ThRoot[m])
    BY <2>2, <2>4 DEF ThInv
  <2> QED BY <2>3, <2>4, <2>5, <2>6 DEF ThInv
<1>2. CASE \E f \in ThFolders : ThPurge(f)
  <2>1. PICK f \in ThFolders : ThPurge(f) BY <1>2
  <2>2. /\ thRow' = [thRow EXCEPT ![f] = [m \in ThMessages |-> ThNone]]
        /\ UNCHANGED <<thWalk, thKnown, thBlind>>
    BY <2>1 DEF ThPurge
  <2>3. \A m \in ThMessages : ThSound(m)' => ThSound(m) BY <2>2, ThSoundBefore
  <2>4. ThTypes' BY <1>0, <2>2 DEF ThTypes, ThThreads
  <2>5. \A g \in ThFolders, m \in ThMessages : thRow'[g][m] = thRow[g][m] \/ thRow'[g][m] = ThNone
    BY <1>0, <2>2 DEF ThTypes
  <2> QED BY <2>2, <2>3, <2>4, <2>5 DEF ThInv
<1>3. CASE \E m \in ThMessages : ThImport(m)
  <2>1. PICK m \in ThMessages : ThImport(m) BY <1>3
  <2>2. /\ thWalk \in ThFolders /\ thRow' = [thRow EXCEPT ![thWalk][m] = ThAssigned(m)]
        /\ UNCHANGED <<thWalk, thKnown>> /\ thBlind \subseteq thBlind'
    BY <2>1, <1>0 DEF ThImport, ThTypes
  <2>3. ThAssigned(m) \in ThIds /\ (ThSound(m)' => ThAssigned(m) = ThOwn(ThRoot[m]))
    BY <2>1, ThAssignedRight
  <2>4. \A n \in ThMessages : ThSound(n)' => ThSound(n) BY <2>2, ThSoundBefore
  <2> DEFINE t == ThAssigned(m)
  <2>5. /\ t \in ThIds /\ (ThSound(m)' => t = ThOwn(ThRoot[m]))
        /\ thRow' = [thRow EXCEPT ![thWalk][m] = t]
    BY <2>2, <2>3
  <2> HIDE DEF t
  <2>6. ThTypes' BY <1>0, <2>2, <2>5 DEF ThTypes, ThThreads
  <2>7. \A g \in ThFolders, n \in ThMessages :
          thRow'[g][n] = thRow[g][n] \/ (n = m /\ thRow'[g][n] = t)
    BY <1>0, <2>2, <2>5 DEF ThTypes
  <2>8. ASSUME NEW g \in ThFolders, NEW n \in ThMessages, thRow'[g][n] # ThNone, ThSound(n)'
        PROVE  thRow'[g][n] = ThOwn(ThRoot[n])
    BY <2>4, <2>5, <2>7, <2>8 DEF ThInv
  <2>9. \A n \in ThMessages : thKnown'[n] # ThNone /\ ThSound(n)' => thKnown'[n] = ThOwn(ThRoot[n])
    BY <2>2, <2>4 DEF ThInv
  <2> QED BY <2>6, <2>8, <2>9 DEF ThInv
<1>4. CASE ThEnd
  <2>1. /\ thKnown' = [m \in ThMessages |-> ThNone] /\ thWalk' = ThNone
        /\ UNCHANGED <<thRow, thBlind>>
    BY <1>4 DEF ThEnd
  <2>2. \A m \in ThMessages : ThSound(m)' => ThSound(m) BY <2>1, ThSoundBefore
  <2>3. ThTypes' BY <1>0, <2>1 DEF ThTypes, ThThreads
  <2> QED BY <2>1, <2>2, <2>3 DEF ThInv
<1>5. CASE UNCHANGED thVars
  <2>1. UNCHANGED <<thRow, thWalk, thKnown, thBlind>> BY <1>5 DEF thVars
  <2>2. \A m \in ThMessages : ThSound(m)' => ThSound(m) BY <2>1, ThSoundBefore
  <2>3. ThTypes' BY <1>0, <2>1 DEF ThTypes
  <2> QED BY <2>1, <2>2, <2>3 DEF ThInv
<1> QED BY <1>1, <1>2, <1>3, <1>4, <1>5 DEF ThNext

\* Opening a message shows its whole conversation: every stored message of it is under
\* the one id the view asks for (existing_threads, assign_thread_id, get_thread).
THEOREM ThreadsWhole == ThSpec => []ThViewWhole
<1>1. ThInv => ThViewWhole
  <2> SUFFICES ASSUME ThInv, NEW f \in ThFolders, NEW m \in ThStored(f), NEW n \in ThMessages,
                      ThIdsOf(n) # {}, ThOwn(ThRoot[m]) = ThOwn(ThRoot[n]),
                      ThOneConversation(m), ThOneConversation(n),
                      \A a \in ThChain[m] \cup ThChain[n] : ~ThGuessedWrong(a)
               PROVE  n \in ThView(thRow[f][m])
    BY DEF ThViewWhole
  <2>1. m \in ThMessages /\ thRow[f][m] # ThNone BY DEF ThStored
  <2>2. PICK g \in ThFolders : thRow[g][n] # ThNone BY DEF ThIdsOf
  <2>3. ThSound(m) /\ ThSound(n) BY DEF ThSound
  <2>4. thRow[f][m] = ThOwn(ThRoot[m]) /\ thRow[g][n] = ThOwn(ThRoot[n])
    BY <2>1, <2>2, <2>3 DEF ThInv
  <2>5. thRow[f][m] \in ThIdsOf(n) BY <2>1, <2>2, <2>4 DEF ThIdsOf
  <2> QED BY <2>5 DEF ThView
<1> QED BY ThInitInv, ThStep, <1>1, PTL DEF ThSpec
=============================================================================
