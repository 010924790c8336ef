---------------------------- MODULE MessageBodies ----------------------------
(***************************************************************************)
(* What is stored of a message besides its row: the body and attachments   *)
(* in the blob store, the rows that point to them, and the phishing        *)
(* verdict.  A synchronisation stores them for new messages, opening a     *)
(* message fetches whatever is missing, "not spam" trusts the sender.      *)
(* Nothing excludes one from another; a closed browser tab drops the       *)
(* handler at its next await, a restart drops everything.                  *)
(*                                                                         *)
(* The messages lie in folders of their own, are of one organisation and   *)
(* have one inline image; only their body gives them away as phishing.     *)
(***************************************************************************)
EXTENDS Naturals, FiniteSets

CONSTANTS MbMessages,   \* messages of one account, each in a folder of its own
          MbUids,       \* their uids: those of different folders may be equal
          MbOpens       \* concurrent requests for a message

MbSync == "sync"
MbProcs == MbOpens \cup {MbSync}
MbNone == "none"

ASSUME MbAssumption == MbNone \notin MbMessages /\ MbSync \notin MbOpens

VARIABLES
    mbUid,      \* the uid of each message in its folder
    mbMode,     \* body_sync_mode: "lazy" or "full"
    mbKnown,    \* messages that have a row
    mbBlob,     \* the blob store: whose body and whose image a key holds
    mbBody,     \* messages with a row in message_bodies
    mbImages,   \* rows in attachments, by message
    mbVerdict,  \* phishing_verdict: "none", "clean" or "bad"
    mbTrusted,  \* the organisation is in phishing_trusted_senders
    mbProc,     \* each request, and the synchronisation
    mbTrust,    \* flagged messages "not spam" has still to clear; or idle
    mbHist      \* history: "raced" two of them were at work on one message;
                \*   "cut" one was dropped; "again" a message was imported twice;
                \*   "trustraced" an analysis overlapped with "not spam"

mbVars == <<mbUid, mbMode, mbKnown, mbBlob, mbBody, mbImages, mbVerdict, mbTrusted,
            mbProc, mbTrust, mbHist>>

MbIdle == [pc |-> "idle", msg |-> MbNone, then |-> MbNone, bad |-> FALSE, shown |-> MbNone]
MbNoTrust == [pc |-> "idle", todo |-> {}]

MbInit ==
    /\ mbUid \in [MbMessages -> MbUids] /\ mbMode \in {"lazy", "full"}
    /\ mbKnown = {}
    /\ mbBlob = [k \in MbUids \X {"body", "image"} |-> MbNone]
    /\ mbBody = {} /\ mbImages = [m \in MbMessages |-> 0]
    /\ mbVerdict = [m \in MbMessages |-> MbNone] /\ mbTrusted = FALSE
    /\ mbProc = [p \in MbProcs |-> MbIdle] /\ mbTrust = MbNoTrust
    /\ mbHist = {}

(* blob_key_body and blob_key_attachment: account, date and uid, and every *)
(* caller gives the same date.                                             *)
MbKey(m, part) == <<mbUid[m], part>>

MbAt(p, pc) == mbProc[p].pc = pc
MbMsg(p) == mbProc[p].msg
MbGoes(p, pc) == IF pc = "done" THEN MbIdle ELSE [mbProc[p] EXCEPT !.pc = pc]
MbMoves(p, pc) == mbProc' = [mbProc EXCEPT ![p] = MbGoes(p, pc)]
MbEnds(p) == mbProc' = [mbProc EXCEPT ![p] = MbIdle]
MbBusy(m) == \E p \in MbProcs : mbProc[p].msg = m
MbOverlap(m) == IF MbBusy(m) THEN {"raced"} ELSE {}
MbInput == UNCHANGED <<mbUid, mbMode>>
MbMayBegin == mbHist \subseteq {"cut"}    \* bound: nothing begins after the others

-----------------------------------------------------------------------------
(* The synchronisation imports the row - again, if the cursor was not      *)
(* saved the last time - and in full mode has the body at hand.            *)
MbImport(m) ==
    /\ mbProc[MbSync] = MbIdle /\ MbMayBegin
    /\ m \in mbKnown => "again" \notin mbHist
    /\ LET pc == IF mbMode = "full" THEN "body" ELSE IF m \notin mbKnown THEN "analyse" ELSE "idle"
       IN mbProc' = [mbProc EXCEPT ![MbSync] =
                       IF pc = "idle" THEN MbIdle
                       ELSE [MbIdle EXCEPT !.pc = pc, !.msg = m,
                             !.then = IF m \in mbKnown THEN "done" ELSE "analyse"]]
    /\ mbKnown' = mbKnown \cup {m}
    /\ mbHist' = mbHist \cup MbOverlap(m) \cup (IF m \in mbKnown THEN {"again"} ELSE {})
    /\ MbInput /\ UNCHANGED <<mbBlob, mbBody, mbImages, mbVerdict, mbTrusted, mbTrust>>

(* get_message: a stored body is shown; one that is not there, or cannot   *)
(* be read, is fetched.                                                    *)
MbOpen(o, m) ==
    /\ m \in mbKnown /\ mbProc[o] = MbIdle /\ MbMayBegin
    /\ \/ /\ m \in mbBody /\ mbBlob[MbKey(m, "body")] # MbNone
          /\ mbProc' = [mbProc EXCEPT ![o] = [MbIdle EXCEPT !.pc = "verdict", !.msg = m,
                                                !.shown = mbBlob[MbKey(m, "body")]]]
       \/ mbProc' = [mbProc EXCEPT ![o] = [MbIdle EXCEPT !.pc = "fetch", !.msg = m, !.then = "verdict"]]
    /\ mbHist' = mbHist \cup MbOverlap(m)
    /\ MbInput /\ UNCHANGED <<mbKnown, mbBlob, mbBody, mbImages, mbVerdict, mbTrusted, mbTrust>>

(* reanalyse_message only fetches. *)
MbReanalyse(o, m) ==
    /\ m \in mbKnown /\ mbProc[o] = MbIdle /\ MbMayBegin
    /\ mbProc' = [mbProc EXCEPT ![o] = [MbIdle EXCEPT !.pc = "fetch", !.msg = m, !.then = "done"]]
    /\ mbHist' = mbHist \cup MbOverlap(m)
    /\ MbInput /\ UNCHANGED <<mbKnown, mbBlob, mbBody, mbImages, mbVerdict, mbTrusted, mbTrust>>

MbStores == UNCHANGED <<mbKnown, mbTrusted, mbTrust, mbHist>> /\ MbInput
MbFetches == UNCHANGED <<mbBlob, mbBody, mbImages, mbVerdict>> /\ MbStores

(* The provider answers, or fails: the request goes on without the body.   *)
MbFetch(o) ==
    /\ o # MbSync /\ MbAt(o, "fetch")
    /\ MbMoves(o, "body") \/ MbMoves(o, mbProc[o].then)
    /\ MbFetches

MbPutBody(p) ==
    /\ MbAt(p, "body")
    /\ mbBlob' = [mbBlob EXCEPT ![MbKey(MbMsg(p), "body")] = MbMsg(p)]
    /\ MbMoves(p, "row")
    /\ MbStores /\ UNCHANGED <<mbBody, mbImages, mbVerdict>>

(* A put that fails ends the fetch, but not the synchronisation. *)
MbRowAnyway(p) == "row"
MbAfterFailedPut(p) == IF p = MbSync THEN "image" ELSE mbProc[p].then

MbPutFails(p) ==
    /\ MbAt(p, "body")
    /\ MbMoves(p, MbAfterFailedPut(p))
    /\ MbFetches

MbInsertBody(p) ==
    /\ MbAt(p, "row")
    /\ mbBody' = mbBody \cup {MbMsg(p)}
    /\ MbMoves(p, IF p = MbSync THEN "image" ELSE "clear")
    /\ MbStores /\ UNCHANGED <<mbBlob, mbImages, mbVerdict>>

MbCleared(m) == [mbImages EXCEPT ![m] = 0]

MbClear(o) ==
    /\ MbAt(o, "clear")
    /\ mbImages' = MbCleared(MbMsg(o))
    /\ MbMoves(o, "image")
    /\ MbStores /\ UNCHANGED <<mbBlob, mbBody, mbVerdict>>

MbAnalysed(p) == IF p = MbSync THEN mbProc[p].then ELSE "analyse"

MbPutImage(p) ==
    /\ MbAt(p, "image")
    /\ \/ /\ mbBlob' = [mbBlob EXCEPT ![MbKey(MbMsg(p), "image")] = MbMsg(p)]
          /\ MbMoves(p, "attach")
       \/ MbMoves(p, MbAnalysed(p)) /\ UNCHANGED mbBlob
    /\ MbStores /\ UNCHANGED <<mbBody, mbImages, mbVerdict>>

MbInsertImage(p) ==
    /\ MbAt(p, "attach")
    /\ mbImages' = [mbImages EXCEPT ![MbMsg(p)] = @ + 1]
    /\ MbMoves(p, MbAnalysed(p))
    /\ MbStores /\ UNCHANGED <<mbBlob, mbBody, mbVerdict>>

-----------------------------------------------------------------------------
(* analyse_and_store_batch: the trusted senders are read first; the report *)
(* and the verdict are one transaction.  A lazy import has the headers only.*)
MbHasBody(p) == p # MbSync \/ mbMode = "full"
MbFindsBad(p) == MbHasBody(p) /\ ~mbTrusted

MbAnalyse(p) ==
    /\ MbAt(p, "analyse")
    /\ mbProc' = [mbProc EXCEPT ![p].pc = "store", ![p].bad = MbFindsBad(p)]
    /\ mbHist' = IF mbTrust # MbNoTrust THEN mbHist \cup {"trustraced"} ELSE mbHist
    /\ UNCHANGED <<mbBlob, mbBody, mbImages, mbVerdict, mbKnown, mbTrusted, mbTrust>> /\ MbInput

MbStore(p) ==
    /\ MbAt(p, "store")
    /\ mbVerdict' = [mbVerdict EXCEPT ![MbMsg(p)] = IF mbProc[p].bad THEN "bad" ELSE "clean"]
    /\ LET next == IF p = MbSync THEN "done" ELSE mbProc[p].then IN
         IF next = "verdict"
           THEN mbProc' = [mbProc EXCEPT ![p].pc = next, ![p].bad = FALSE, ![p].shown = MbMsg(p)]
           ELSE mbProc' = [mbProc EXCEPT ![p] = [MbGoes(p, next) EXCEPT !.bad = FALSE]]
    /\ MbStores /\ UNCHANGED <<mbBlob, mbBody, mbImages>>

(* get_message fetches again for a verdict, and for an image the body      *)
(* refers to.                                                              *)
MbWantsVerdict(o) ==
    /\ MbAt(o, "verdict")
    /\ mbProc' = [mbProc EXCEPT ![o].pc = IF mbVerdict[MbMsg(o)] = MbNone THEN "fetch" ELSE "images",
                                ![o].then = "images"]
    /\ MbFetches

MbWantsImages(o) ==
    /\ MbAt(o, "images")
    /\ IF mbProc[o].shown # MbNone /\ mbImages[MbMsg(o)] = 0
         THEN mbProc' = [mbProc EXCEPT ![o].pc = "fetch", ![o].then = "done"]
         ELSE MbEnds(o)
    /\ MbFetches

MbCut(p) ==
    /\ mbProc[p] # MbIdle /\ "cut" \notin mbHist     \* bound: one is dropped
    /\ MbEnds(p)
    /\ mbHist' = mbHist \cup {"cut"}
    /\ UNCHANGED <<mbBlob, mbBody, mbImages, mbVerdict, mbKnown, mbTrusted, mbTrust>> /\ MbInput

-----------------------------------------------------------------------------
(* trust_sender_of: the domain is stored, the flagged messages of the      *)
(* organisation are listed and cleared one by one.                         *)
MbAnalysing == \E p \in MbProcs : MbAt(p, "store")
MbTrustRest == UNCHANGED <<mbBlob, mbBody, mbImages, mbKnown, mbProc>> /\ MbInput

MbTrustSender ==
    /\ mbTrust = MbNoTrust /\ mbKnown # {} /\ ~mbTrusted /\ mbHist = {}
    /\ mbTrusted' = TRUE
    /\ mbTrust' = [pc |-> "list", todo |-> {}]
    /\ mbHist' = IF MbAnalysing THEN mbHist \cup {"trustraced"} ELSE mbHist
    /\ MbTrustRest /\ UNCHANGED mbVerdict

MbListed == {m \in MbMessages : mbVerdict[m] = "bad"}

MbTrustList ==
    /\ mbTrust.pc = "list"
    /\ mbTrust' = [pc |-> "clear", todo |-> MbListed]
    /\ MbTrustRest /\ UNCHANGED <<mbVerdict, mbTrusted, mbHist>>

MbTrustClear ==
    /\ mbTrust.pc = "clear"
    /\ IF mbTrust.todo = {} THEN mbTrust' = MbNoTrust /\ UNCHANGED mbVerdict
       ELSE \E m \in mbTrust.todo :
              /\ mbVerdict' = [mbVerdict EXCEPT ![m] = "clean"]
              /\ mbTrust' = [mbTrust EXCEPT !.todo = @ \ {m}]
    /\ MbTrustRest /\ UNCHANGED <<mbTrusted, mbHist>>

MbNext ==
    \/ \E m \in MbMessages : MbImport(m) \/ \E o \in MbOpens : MbOpen(o, m) \/ MbReanalyse(o, m)
    \/ \E o \in MbOpens : MbFetch(o) \/ MbClear(o) \/ MbWantsVerdict(o) \/ MbWantsImages(o)
    \/ \E p \in MbProcs :
         \/ MbPutBody(p) \/ MbPutFails(p) \/ MbInsertBody(p) \/ MbPutImage(p) \/ MbInsertImage(p)
         \/ MbAnalyse(p) \/ MbStore(p) \/ MbCut(p)
    \/ MbTrustSender \/ MbTrustList \/ MbTrustClear

MbSpec == MbInit /\ [][MbNext]_mbVars

-----------------------------------------------------------------------------
(* A row that points to a blob points to one that is there, and, if no two *)
(* messages of the account share a uid, to the message's own - whatever    *)
(* was dropped, repeated or at work at once.                               *)
MbPointersHold ==
    \A m \in MbMessages :
      /\ m \in mbBody => mbBlob[MbKey(m, "body")] # MbNone
      /\ mbImages[m] > 0 => mbBlob[MbKey(m, "image")] # MbNone
      /\ (\A n \in MbMessages \ {m} : mbUid[n] # mbUid[m]) =>
           \A part \in {"body", "image"} : mbBlob[MbKey(m, part)] \in {MbNone, m}

(* An attachment is listed once, however often its message is fetched, as  *)
(* long as no two fetches of it overlap and it was imported once.          *)
MbImagesOnce ==
    mbHist \cap {"raced", "again"} = {} => \A m \in MbMessages : mbImages[m] <= 1

(* The mail of a sender marked "not spam" is not flagged, unless an        *)
(* analysis overlapped with marking it.                                    *)
MbTrustedIsClean ==
    mbTrusted /\ mbTrust = MbNoTrust /\ "trustraced" \notin mbHist =>
    \A m \in MbMessages : mbVerdict[m] # "bad"

(* A message whose body is stored has been judged by its body: one that    *)
(* nothing interfered with is not left with the verdict on its headers.    *)
MbJudgedByBody ==
    mbHist \cap {"raced", "cut"} = {} /\ ~mbTrusted =>
    \A m \in mbBody : ~MbBusy(m) => mbVerdict[m] = "bad"

(* Bodies, attachments and verdicts fit the messages they are stored for,  *)
(* under one name.                                                         *)
MbContentFits == MbPointersHold /\ MbImagesOnce /\ MbTrustedIsClean /\ MbJudgedByBody
=============================================================================
