------------------------- MODULE AccountCredentials -------------------------
(***************************************************************************)
(* The rows of email_accounts for one mailbox and the encrypted blob of    *)
(* credentials in each: refreshing an OAuth token, connecting and          *)
(* reconnecting through OAuth, adding, editing and deleting an account.    *)
(* Every writer reads the blob, talks to the provider or the mail server,  *)
(* and writes the whole blob back.                                         *)
(***************************************************************************)
EXTENDS Naturals, FiniteSets, FiniteSetsExt

CONSTANTS CrCalls,      \* concurrent handlers and sync tasks
          CrMaxToken    \* bound: refresh tokens the provider issues

ASSUME CrAssumption == CrMaxToken \in Nat

CrIds == {1, 2}
CrPassword == 0         \* "token" of an account that logs in with a password
CrAbsent == [tok |-> CrPassword, reauth |-> FALSE, fresh |-> FALSE, there |-> FALSE]

VARIABLES
    crRow,      \* each row: refresh token, oauth_reauth_required, access token fresh
    crIssued,   \* refresh tokens issued
    crRetired,  \* those replaced by a rotation
    crRevoked,  \* those the provider withdrew
    crCall,     \* each call: [kind, pc, id, blob]
    crHist      \* history: "raced" two calls held the blob of one row; "cut" a
                \*   call ended between the provider's answer and its write;
                \*   "doubled" two adds overlapped, or an OAuth login created a row

crVars == <<crRow, crIssued, crRetired, crRevoked, crCall, crHist>>

CrIdle == [kind |-> "none", pc |-> "idle", id |-> 0, blob |-> CrAbsent]

CrInit ==
    /\ crRow = [i \in CrIds |-> CrAbsent]
    /\ crIssued = 0 /\ crRetired = {} /\ crRevoked = {}
    /\ crCall = [c \in CrCalls |-> CrIdle] /\ crHist = {}

CrThere(i) == crRow[i].there
CrAccepted == (1 .. crIssued) \ (crRetired \cup crRevoked)
CrBusyWith(i) == \E c \in CrCalls : crCall[c].id = i
CrBegins(c, kind, pc, i) ==
    /\ crCall[c] = CrIdle
    /\ crCall' = [crCall EXCEPT ![c] = [kind |-> kind, pc |-> pc, id |-> i,
                                        blob |-> IF i = 0 THEN CrAbsent ELSE crRow[i]]]
CrRace(i) == IF CrBusyWith(i) THEN {"raced"} ELSE {}
CrSets(c, pc, blob) == crCall' = [crCall EXCEPT ![c].pc = pc, ![c].blob = blob]
CrEnds(c) == crCall' = [crCall EXCEPT ![c] = CrIdle]

-----------------------------------------------------------------------------
(* fresh_access_token: a fresh access token is used as it is and an        *)
(* account that needs the user's consent is refused at once.               *)
CrBeginRefresh(c, i) ==
    /\ CrThere(i) /\ crRow[i].tok # CrPassword
    /\ ~crRow[i].fresh /\ ~crRow[i].reauth
    /\ CrBegins(c, "refresh", "ask", i)
    /\ crHist' = crHist \cup CrRace(i)
    /\ UNCHANGED <<crRow, crIssued, crRetired, crRevoked>>

(* The provider's answer: an access token and perhaps a rotated refresh    *)
(* token, invalid_grant, or an error that passes.                          *)
CrAnswered(c) ==
    /\ crCall[c].pc = "ask"
    /\ crCall[c].blob.tok \in CrAccepted
    /\ \/ /\ CrSets(c, "write", [crCall[c].blob EXCEPT !.fresh = TRUE])
          /\ UNCHANGED <<crIssued, crRetired>>
       \/ /\ crIssued < CrMaxToken
          /\ crIssued' = crIssued + 1
          /\ crRetired' = crRetired \cup {crCall[c].blob.tok}
          /\ CrSets(c, "write", [crCall[c].blob EXCEPT !.fresh = TRUE, !.tok = crIssued + 1])
    /\ UNCHANGED <<crRow, crRevoked, crHist>>

CrRefused(c) ==
    /\ crCall[c].pc = "ask"
    /\ crCall[c].blob.tok \notin CrAccepted
    /\ CrSets(c, "write", [crCall[c].blob EXCEPT !.reauth = TRUE])
    /\ UNCHANGED <<crRow, crIssued, crRetired, crRevoked, crHist>>

CrTransient(c) ==
    /\ crCall[c].pc = "ask"
    /\ CrEnds(c)
    /\ UNCHANGED <<crRow, crIssued, crRetired, crRevoked, crHist>>

CrKeepsToken(c, row) == [crCall[c].blob EXCEPT !.tok = row.tok]
CrStored(c, row) == crCall[c].blob

(* The whole blob, by primary key: nothing happens if the row is gone. *)
CrWrite(c) ==
    /\ crCall[c].pc = "write"
    /\ crRow' = [crRow EXCEPT ![crCall[c].id] = IF @.there THEN CrStored(c, @) ELSE @]
    /\ CrEnds(c)
    /\ UNCHANGED <<crIssued, crRetired, crRevoked, crHist>>

(* The task is stopped, the request dropped or the server restarted. *)
CrCut(c) ==
    /\ crCall[c] # CrIdle
    /\ crHist' = IF crCall[c].pc = "write" THEN crHist \cup {"cut"} ELSE crHist
    /\ CrEnds(c)
    /\ UNCHANGED <<crRow, crIssued, crRetired, crRevoked>>

-----------------------------------------------------------------------------
(* oauth_callback: the code is exchanged; a reconnection names its row, a  *)
(* first login inserts one whatever rows there are.                        *)
CrConsent == [tok |-> crIssued + 1, reauth |-> FALSE, fresh |-> TRUE, there |-> TRUE]

CrReconnect(c, i) ==
    /\ CrThere(i) /\ crRow[i].tok # CrPassword
    /\ crIssued < CrMaxToken
    /\ crIssued' = crIssued + 1
    /\ crCall[c] = CrIdle
    /\ crCall' = [crCall EXCEPT ![c] = [kind |-> "reconnect", pc |-> "write", id |-> i, blob |-> CrConsent]]
    /\ crHist' = crHist \cup CrRace(i)
    /\ UNCHANGED <<crRow, crRetired, crRevoked>>

CrFree == {i \in CrIds : ~CrThere(i)}

CrLogin ==
    /\ CrFree # {} /\ crIssued < CrMaxToken
    /\ crIssued' = crIssued + 1
    /\ crRow' = [crRow EXCEPT ![Min(CrFree)] = CrConsent]
    /\ crHist' = crHist \cup (IF CrFree # CrIds \/ \E c \in CrCalls : crCall[c].kind = "add"
                                THEN {"doubled"} ELSE {})
    /\ UNCHANGED <<crRetired, crRevoked, crCall>>

-----------------------------------------------------------------------------
(* add_account: the duplicate check, the IMAP test, the INSERT. *)
CrNoDuplicate == CrFree = CrIds

CrBeginAdd(c) ==
    /\ CrNoDuplicate
    /\ CrBegins(c, "add", "insert", 0)
    /\ crHist' = crHist \cup (IF \E d \in CrCalls : crCall[d].kind = "add" THEN {"doubled"} ELSE {})
    /\ UNCHANGED <<crRow, crIssued, crRetired, crRevoked>>

CrInsert(c) ==
    /\ crCall[c].pc = "insert" /\ CrFree # {}
    /\ crRow' = [crRow EXCEPT ![Min(CrFree)] = [CrAbsent EXCEPT !.there = TRUE]]
    /\ CrEnds(c)
    /\ UNCHANGED <<crIssued, crRetired, crRevoked, crHist>>

(* update_account: even a change of colour writes the blob it read. *)
CrBeginUpdate(c, i) ==
    /\ CrThere(i)
    /\ CrBegins(c, "update", "write", i)
    /\ crHist' = crHist \cup CrRace(i)
    /\ UNCHANGED <<crRow, crIssued, crRetired, crRevoked>>

(* delete_account. *)
CrDelete(i) ==
    /\ CrThere(i)
    /\ crRow' = [crRow EXCEPT ![i] = CrAbsent]
    /\ crHist' = crHist \cup CrRace(i)
    /\ UNCHANGED <<crIssued, crRetired, crRevoked, crCall>>

-----------------------------------------------------------------------------
(* The access token comes within five minutes of its expiry; the provider  *)
(* withdraws a grant.                                                      *)
CrExpire(i) ==
    /\ crRow[i].fresh
    /\ crRow' = [crRow EXCEPT ![i].fresh = FALSE]
    /\ UNCHANGED <<crIssued, crRetired, crRevoked, crCall, crHist>>

CrRevoke ==
    /\ CrAccepted # {}
    /\ crRevoked' = crRevoked \cup CrAccepted
    /\ UNCHANGED <<crRow, crIssued, crRetired, crCall, crHist>>

CrNext ==
    \/ \E c \in CrCalls :
         \/ \E i \in CrIds : CrBeginRefresh(c, i) \/ CrReconnect(c, i) \/ CrBeginUpdate(c, i)
         \/ CrAnswered(c) \/ CrRefused(c) \/ CrTransient(c) \/ CrWrite(c) \/ CrCut(c)
         \/ CrBeginAdd(c) \/ CrInsert(c)
    \/ CrLogin \/ CrRevoke
    \/ \E i \in CrIds : CrDelete(i) \/ CrExpire(i)

CrSpec == CrInit /\ [][CrNext]_crVars

-----------------------------------------------------------------------------
(* A refresh token the provider rotated away is not what an account is     *)
(* left with, unless two writers of its blob overlapped or one was cut     *)
(* short before its write.                                                 *)
CrRotationKept ==
    crHist \cap {"raced", "cut"} = {} =>
    \A i \in CrIds : CrThere(i) /\ ~CrBusyWith(i) => crRow[i].tok \notin crRetired

(* The user is asked to sign in again only if the provider no longer takes *)
(* the account's token, and signing in answers the request.                *)
CrReauthJustified ==
    \A i \in CrIds : crRow[i].reauth => crRow[i].tok \notin CrAccepted

(* One mailbox is added once, however long the test of its connection      *)
(* takes.                                                                  *)
CrOneAccount == "doubled" \notin crHist => Cardinality(CrIds \ CrFree) <= 1

(* What refreshes, reconnects, edits, additions and deletions of accounts  *)
(* keep of their credentials, under one name.                              *)
CrCredentialsKept == CrRotationKept /\ CrReauthJustified /\ CrOneAccount
=============================================================================
