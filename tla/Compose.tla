------------------------------- MODULE Compose -------------------------------
(***************************************************************************)
(* A draft and its delivery: the editor saves versions of it, sending is   *)
(* accepted at once and carried out in the background, a delivered draft   *)
(* is deleted, and so is one its author discards.  A save writes the body  *)
(* to the blob store and then, in one transaction, the rows.               *)
(***************************************************************************)
EXTENDS Naturals, FiniteSets

CONSTANTS DrSaves,       \* concurrent requests to save the draft
          DrSends,       \* requests to send it
          DrMaxVersion   \* bound: versions the author writes

ASSUME DrAssumption == DrMaxVersion \in Nat

VARIABLES
    drKind,      \* "smtp", or "api": the provider keeps the sent copy itself
    drVersion,   \* versions written so far
    drRow,       \* version in messages and local_drafts; 0: no row
    drBlob,      \* version in the blob store; 0: none
    drCreated,   \* the draft had a row once: its id is never used again
    drLatest,    \* the version the last successful save was about
    drSave,      \* each save: [pc, version]
    drSend,      \* each send: [pc, version, draft]
    drDelete,    \* delete_local_draft at the author's request
    drDelivered, \* versions that reached a recipient
    drHist       \* history: "raced" saves overlapped; "cut" one ended half way;
                 \*   "edited" a save ended after the send was requested;
                 \*   "purged" the folder was; "discarded" by its author

drVars == <<drKind, drVersion, drRow, drBlob, drCreated, drLatest, drSave, drSend,
            drDelete, drDelivered, drHist>>

DrIdle == [pc |-> "idle", version |-> 0]
DrUnsent == [pc |-> "idle", version |-> 0, draft |-> FALSE]

DrInit ==
    /\ drKind \in {"smtp", "api"}
    /\ drVersion = 0 /\ drRow = 0 /\ drBlob = 0 /\ drCreated = FALSE /\ drLatest = 0
    /\ drSave = [s \in DrSaves |-> DrIdle]
    /\ drSend = [d \in DrSends |-> DrUnsent]
    /\ drDelete = "idle"
    /\ drDelivered = {} /\ drHist = {}

-----------------------------------------------------------------------------
(* save_draft.  The editor creates the draft once and then saves under its *)
(* id, whose row must be there when the request begins.                    *)
DrSaveRest == UNCHANGED <<drKind, drCreated, drSend, drDelete, drDelivered>>
DrSaving == {s \in DrSaves : drSave[s] # DrIdle}

DrBeginSave(s) ==
    /\ drSave[s] = DrIdle /\ drVersion < DrMaxVersion
    /\ IF drCreated THEN drRow # 0 ELSE DrSaving = {}
    /\ drVersion' = drVersion + 1
    /\ drSave' = [drSave EXCEPT ![s] = [pc |-> "put", version |-> drVersion + 1]]
    /\ drHist' = IF DrSaving = {} THEN drHist ELSE drHist \cup {"raced"}
    /\ DrSaveRest /\ UNCHANGED <<drRow, drBlob, drLatest>>

DrPutBody(s) ==
    /\ drSave[s].pc = "put"
    /\ drBlob' = drSave[s].version
    /\ drSave' = [drSave EXCEPT ![s].pc = "rows"]
    /\ DrSaveRest /\ UNCHANGED <<drVersion, drRow, drLatest, drHist>>

(* The transaction.  A row that went meanwhile is not updated, and the row *)
(* of message_bodies then lacks its parent: everything is rolled back.     *)
DrHasParentAlways == TRUE
DrHasParent == drCreated => drRow # 0

DrCommit(s) ==
    /\ drSave[s].pc = "rows" /\ DrHasParent
    /\ drRow' = drSave[s].version /\ drCreated' = TRUE /\ drLatest' = drSave[s].version
    /\ drSave' = [drSave EXCEPT ![s] = DrIdle]
    /\ drHist' = IF \E d \in DrSends : drSend[d].pc # "idle" THEN drHist \cup {"edited"} ELSE drHist
    /\ UNCHANGED <<drKind, drVersion, drBlob, drSend, drDelete, drDelivered>>

(* A statement fails, or the request is dropped. *)
DrSaveFails(s) ==
    /\ drSave[s] # DrIdle
    /\ drSave' = [drSave EXCEPT ![s] = DrIdle]
    /\ drHist' = IF drSave[s].pc = "rows" THEN drHist \cup {"cut"} ELSE drHist
    /\ DrSaveRest /\ UNCHANGED <<drVersion, drRow, drBlob, drLatest>>

-----------------------------------------------------------------------------
(* send_email checks that the draft is there and answers 202.  What is     *)
(* sent is the version in the request, whatever was saved.                 *)
DrSendRest == UNCHANGED <<drKind, drVersion, drCreated, drLatest, drSave, drDelete>>
DrSendGoes(d, pc) == drSend' = [drSend EXCEPT ![d].pc = pc]

DrAccept(d) ==
    /\ drSend[d].pc = "idle" /\ drVersion > 0
    /\ \E draft \in BOOLEAN :
         /\ draft => drRow # 0
         /\ drSend' = [drSend EXCEPT ![d] = [pc |-> "deliver", version |-> drVersion, draft |-> draft]]
    /\ DrSendRest /\ UNCHANGED <<drRow, drBlob, drDelivered, drHist>>

(* deliver_email: the token, the message, the connection, the delivery. A  *)
(* copy is then appended to Sent, unless the provider keeps one; that it   *)
(* fails or takes 15 seconds does not matter.                              *)
DrDeliver(d) ==
    /\ drSend[d].pc = "deliver"
    /\ drDelivered' = drDelivered \cup {drSend[d].version}
    /\ DrSendGoes(d, IF drKind = "smtp" THEN "append" ELSE "cleanup")
    /\ DrSendRest /\ UNCHANGED <<drRow, drBlob, drHist>>

DrAppend(d) ==
    /\ drSend[d].pc = "append"
    /\ DrSendGoes(d, "cleanup")
    /\ DrSendRest /\ UNCHANGED <<drRow, drBlob, drDelivered, drHist>>

(* Any step fails, the answer to the delivery among them, or 180 seconds   *)
(* are over: reported as failed, and the draft stays.                      *)
DrAfterFailure(d) == "failed"

DrDeliveryFails(d) ==
    /\ drSend[d].pc \in {"deliver", "append"}
    /\ drDelivered' \in {drDelivered, drDelivered \cup {drSend[d].version}}
    /\ DrSendGoes(d, DrAfterFailure(d))
    /\ DrSendRest /\ UNCHANGED <<drRow, drBlob, drHist>>

(* delete_local_draft: the row, which takes the others along, then the     *)
(* blob.  Its error only leaves a draft that was sent.                     *)
DrCleanRow(d) ==
    /\ drSend[d].pc = "cleanup"
    /\ IF drSend[d].draft /\ drRow # 0 THEN drRow' = 0 /\ DrSendGoes(d, "blob")
       ELSE DrSendGoes(d, "sent") /\ UNCHANGED drRow
    /\ DrSendRest /\ UNCHANGED <<drBlob, drDelivered, drHist>>

DrCleanBlob(d) ==
    /\ drSend[d].pc = "blob"
    /\ drBlob' \in {0, drBlob}
    /\ DrSendGoes(d, "sent")
    /\ DrSendRest /\ UNCHANGED <<drRow, drDelivered, drHist>>

-----------------------------------------------------------------------------
(* delete_draft, delete_message and delete_thread. *)
DrDeleteRest == UNCHANGED <<drKind, drVersion, drCreated, drLatest, drSave, drSend, drDelivered>>

DrDeleteRow ==
    /\ drDelete = "idle" /\ drRow # 0
    /\ drRow' = 0 /\ drDelete' = "blob"
    /\ drHist' = drHist \cup {"discarded"}
    /\ DrDeleteRest /\ UNCHANGED drBlob

DrDeleteBlob ==
    /\ drDelete = "blob"
    /\ drBlob' \in {0, drBlob}
    /\ drDelete' = "idle"
    /\ DrDeleteRest /\ UNCHANGED <<drRow, drHist>>

(* The server renumbers the folder the draft was put in: its rows go. *)
DrPurge ==
    /\ drRow # 0
    /\ drRow' = 0
    /\ drHist' = drHist \cup {"purged"}
    /\ DrDeleteRest /\ UNCHANGED <<drBlob, drDelete>>

(* The server stops: every request and background send is gone. *)
DrRestart ==
    /\ drSave' = [s \in DrSaves |-> DrIdle]
    /\ drSend' = [d \in DrSends |-> IF drSend[d].pc = "idle" THEN DrUnsent
                                    ELSE [drSend[d] EXCEPT !.pc = "gone"]]
    /\ drDelete' = "idle"
    /\ drHist' = IF \E s \in DrSaves : drSave[s].pc = "rows" THEN drHist \cup {"cut"} ELSE drHist
    /\ UNCHANGED <<drKind, drVersion, drRow, drBlob, drCreated, drLatest, drDelivered>>

DrNext ==
    \/ \E s \in DrSaves : DrBeginSave(s) \/ DrPutBody(s) \/ DrCommit(s) \/ DrSaveFails(s)
    \/ \E d \in DrSends :
         \/ DrAccept(d) \/ DrDeliver(d) \/ DrAppend(d) \/ DrDeliveryFails(d)
         \/ DrCleanRow(d) \/ DrCleanBlob(d)
    \/ DrDeleteRow \/ DrDeleteBlob \/ DrPurge \/ DrRestart

DrSpec == DrInit /\ [][DrNext]_drVars

-----------------------------------------------------------------------------
(* A draft that is listed can be opened, however saves, sends, deletions   *)
(* and restarts interleave; and it opens with what its row says unless     *)
(* saves overlapped or one ended half way.                                 *)
DrBodyThere ==
    drRow # 0 => /\ drBlob # 0
                 /\ drHist \cap {"raced", "cut"} = {} /\ DrSaving = {} => drBlob = drRow

(* What was saved last is in the drafts or was delivered, whatever became  *)
(* of the delivery and of the server, unless its author discarded or       *)
(* changed it or the folder was renumbered.                                *)
DrNothingLost ==
    drHist \cap {"edited", "purged", "discarded"} = {} =>
    drLatest = 0 \/ drRow = drLatest \/ \E v \in drDelivered : v >= drLatest

(* A save under way when a draft is sent or deleted does not bring it back.*)
DrStaysDeleted == [][drCreated /\ drRow = 0 => drRow' = 0]_drVars

(* What saving, sending, discarding and a restart keep of a draft, under   *)
(* one name.                                                               *)
DrDraftKept == [](DrBodyThere /\ DrNothingLost) /\ DrStaysDeleted
=============================================================================
