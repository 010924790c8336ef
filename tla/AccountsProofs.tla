--------------------------- MODULE AccountsProofs ----------------------------
(***************************************************************************)
(* What is kept of an account, of a contact edited at its provider, of a   *)
(* login session and of a DAV account, for every number of accounts, calls,*)
(* edits, tabs, tokens, requests and events: the stored refresh token is   *)
(* one the provider takes, the stored contact is the provider's, a session *)
(* ends with logout or expiry alone, and a DAV merge loses nothing.        *)
(***************************************************************************)
EXTENDS AccountCredentials, ContactEdits, AuthSessions, DavSync, FiniteSetTheorems, TLAPS

-----------------------------------------------------------------------------
(* Credentials. *)

\* A row's blob and a call, field by field.
CrBlob == [tok : Nat, reauth : BOOLEAN, fresh : BOOLEAN, there : BOOLEAN]
CrCallType ==
    [kind : {"none", "refresh", "reconnect", "update", "add"},
     pc : {"idle", "ask", "write", "insert"}, id : CrIds \cup {0}, blob : CrBlob]

\* The types, and what a call's place says of its kind, row and blob.
CrTypes ==
    /\ crIssued \in Nat /\ crRetired \subseteq 1 .. crIssued
    /\ crRow \in [CrIds -> CrBlob] /\ crCall \in [CrCalls -> CrCallType]
    /\ \A i \in CrIds : crRow[i].tok <= crIssued /\ (~CrThere(i) => crRow[i] = CrAbsent)
    /\ \A c \in CrCalls :
        /\ crCall[c].blob.tok <= crIssued
        /\ crCall[c].id # 0 <=> crCall[c].pc \in {"ask", "write"}
        /\ crCall[c].id # 0 => crCall[c].blob.there
        /\ crCall[c].kind = "add" <=> crCall[c].pc = "insert"

\* A token was issued for one account: no other row and no call about another row
\* holds it.
CrOwned ==
    /\ \A i, j \in CrIds : i # j => crRow[i].tok # crRow[j].tok \/ crRow[i].tok = CrPassword
    /\ \A c \in CrCalls, j \in CrIds : crCall[c].id \notin {0, j} =>
         crCall[c].blob.tok # crRow[j].tok \/ crRow[j].tok = CrPassword
    /\ \A c, d \in CrCalls : crCall[c].id # 0 /\ crCall[d].id \notin {0, crCall[c].id} =>
         crCall[c].blob.tok # crCall[d].blob.tok \/ crCall[d].blob.tok = CrPassword

\* Without a race a call is the only one about its row, which stays; and what it asks
\* the provider with is the token stored there.
CrAlone ==
    "raced" \notin crHist =>
        \A c \in CrCalls : crCall[c].id # 0 =>
            /\ CrThere(crCall[c].id)
            /\ \A d \in CrCalls : crCall[d].id = crCall[c].id => d = c
            /\ crCall[c].pc = "ask" => crCall[c].blob.tok = crRow[crCall[c].id].tok

\* A token replaced by a rotation is left only in a row about to be written.
CrRotated ==
    crHist \cap {"raced", "cut"} = {} =>
        /\ \A i \in CrIds : (\A c \in CrCalls : crCall[c].pc = "write" => crCall[c].id # i) =>
             crRow[i].tok \notin crRetired
        /\ \A c \in CrCalls : crCall[c].pc = "write" => crCall[c].blob.tok \notin crRetired

\* Whoever says that the user must sign in again, row or call, names a token the
\* provider no longer takes.
CrAsked ==
    /\ \A i \in CrIds : crRow[i].reauth => crRow[i].tok \notin CrAccepted
    /\ \A c \in CrCalls : crCall[c].blob.reauth =>
         crCall[c].pc # "ask" /\ crCall[c].blob.tok \notin CrAccepted

\* While one account is tested before it is added, there is none and no other test.
CrSingle ==
    "doubled" \notin crHist =>
        /\ \A i, j \in CrIds : CrThere(i) /\ CrThere(j) => i = j
        /\ \A c \in CrCalls : crCall[c].kind = "add" =>
            /\ \A i \in CrIds : ~CrThere(i)
            /\ \A d \in CrCalls : crCall[d].kind = "add" => d = c

CrInv == CrTypes /\ CrOwned /\ CrAlone /\ CrRotated /\ CrAsked /\ CrSingle

\* There is no account and no call at first.
LEMMA CrInitInv == CrInit => CrInv
<1> SUFFICES ASSUME CrInit PROVE CrInv
  OBVIOUS
<1>1. \A i \in CrIds : crRow[i] = CrAbsent
  BY DEF CrInit
<1>2. \A c \in CrCalls : crCall[c] = CrIdle
  BY DEF CrInit
<1>3. CrTypes
  <2>1. crRow \in [CrIds -> CrBlob] /\ crCall \in [CrCalls -> CrCallType]
    BY DEF CrInit, CrBlob, CrCallType, CrAbsent, CrIdle, CrPassword
  <2>2. crIssued = 0 /\ crRetired = {}
    BY DEF CrInit
  <2> QED BY <1>1, <1>2, <2>1, <2>2 DEF CrTypes, CrAbsent, CrIdle, CrPassword
<1>4. CrOwned /\ CrAlone /\ CrAsked
  BY <1>1, <1>2 DEF CrOwned, CrAlone, CrAsked, CrAbsent, CrIdle
<1>5. CrRotated /\ CrSingle
  BY <1>1, <1>2 DEF CrInit, CrRotated, CrSingle, CrThere, CrAbsent, CrIdle
<1> QED BY <1>3, <1>4, <1>5 DEF CrInv

\* Login and add_account fill a row that is free.
LEMMA CrMinFree == CrFree # {} => Min(CrFree) \in CrFree
BY DEF CrFree, CrIds, Min

\* A call that goes on to its write with another blob keeps the rest.
LEMMA CrGoesOn ==
    ASSUME crCall \in [CrCalls -> CrCallType], NEW c \in CrCalls, NEW blob \in CrBlob,
           CrSets(c, "write", blob)
    PROVE  /\ crCall' \in [CrCalls -> CrCallType]
           /\ \A d \in CrCalls : d # c => crCall'[d] = crCall[d]
           /\ crCall'[c].kind = crCall[c].kind /\ crCall'[c].id = crCall[c].id
           /\ crCall'[c].pc = "write" /\ crCall'[c].blob = blob
BY DEF CrSets, CrCallType

\* Every step of a call, a login, a revocation and a deletion keeps the invariant.
LEMMA CrStep == ASSUME CrInv, [CrNext]_crVars PROVE CrInv'
<1> USE CrMinFree DEF CrInv
<1>1. ASSUME NEW c \in CrCalls, NEW i \in CrIds, CrBeginRefresh(c, i) PROVE CrInv'
  <2>1. CrTypes'
    BY <1>1 DEF CrBeginRefresh, CrTypes, CrCallType, CrThere, CrBegins, CrIds
  <2>2. CrOwned'
    BY <1>1 DEF CrBeginRefresh, CrOwned, CrBegins
  <2>3. CrAlone'
    BY <1>1 DEF CrBeginRefresh, CrAlone, CrThere, CrBegins, CrRace, CrBusyWith
  <2>4. CrRotated'
    <3> SUFFICES ASSUME crHist \cap {"raced", "cut"} = {} PROVE CrRotated'
      BY <1>1 DEF CrRotated, CrBeginRefresh
    <3>1. \A d \in CrCalls : crCall'[d].pc = "write" => crCall[d] = crCall'[d]
      BY <1>1 DEF CrBeginRefresh, CrBegins, CrTypes
    <3>2. \A d \in CrCalls : crCall[d].pc = "write" => crCall[d] = crCall'[d]
      BY <1>1 DEF CrBeginRefresh, CrBegins, CrTypes, CrIdle
    <3>. QED
     BY <1>1, <3>1, <3>2 DEF CrRotated, CrBeginRefresh
  <2>5. CrAsked'
    BY <1>1 DEF CrBeginRefresh, CrAsked, CrBegins, CrIds, CrAccepted
  <2>6. CrSingle'
    BY <1>1 DEF CrBeginRefresh, CrSingle, CrThere, CrBegins
  <2> QED BY <2>1, <2>2, <2>3, <2>4, <2>5, <2>6
<1>2. ASSUME NEW c \in CrCalls, NEW i \in CrIds, CrReconnect(c, i) PROVE CrInv'
  <2>1. CrTypes'
    BY <1>2 DEF CrReconnect, CrTypes, CrBlob, CrCallType, CrThere, CrIds, CrConsent
  <2>2. CrOwned'
    BY <1>2 DEF CrReconnect, CrOwned, CrTypes, CrConsent
  <2>3. CrAlone'
    BY <1>2 DEF CrReconnect, CrAlone, CrThere, CrRace, CrBusyWith
  <2>4. CrRotated'
    <3> SUFFICES ASSUME crHist \cap {"raced", "cut"} = {} /\ ~CrBusyWith(i) PROVE CrRotated'
      BY <1>2 DEF CrRotated, CrReconnect, CrRace
    <3>1. CrConsent.tok \notin crRetired
      BY DEF CrTypes, CrConsent
    <3>2. \A j \in CrIds : crRow[j].tok \in crRetired =>
             \E d \in CrCalls : d # c /\ crCall[d].pc = "write" /\ crCall[d].id = j
      BY <1>2 DEF CrRotated, CrReconnect, CrIdle
    <3>. QED
     BY <1>2, <3>1, <3>2 DEF CrReconnect, CrRotated
  <2>5. CrAsked'
    BY <1>2 DEF CrReconnect, CrAsked, CrTypes, CrConsent, CrAccepted
  <2>6. CrSingle'
    BY <1>2 DEF CrReconnect, CrSingle, CrThere
  <2> QED BY <2>1, <2>2, <2>3, <2>4, <2>5, <2>6
<1>3. ASSUME NEW c \in CrCalls, NEW i \in CrIds, CrBeginUpdate(c, i) PROVE CrInv'
  <2>1. CrTypes'
    BY <1>3 DEF CrBeginUpdate, CrTypes, CrCallType, CrThere, CrBegins, CrIds
  <2>2. CrOwned'
    BY <1>3 DEF CrBeginUpdate, CrOwned, CrBegins
  <2>3. CrAlone'
    BY <1>3 DEF CrBeginUpdate, CrAlone, CrThere, CrBegins, CrRace, CrBusyWith
  <2>4. CrRotated'
    <3> SUFFICES ASSUME crHist \cap {"raced", "cut"} = {} /\ ~CrBusyWith(i) PROVE CrRotated'
      BY <1>3 DEF CrRotated, CrBeginUpdate, CrRace
    <3>1. crRow[i].tok \notin crRetired
      BY DEF CrRotated, CrBusyWith
    <3>. QED
     BY <1>3, <3>1 DEF CrBeginUpdate, CrRotated, CrBegins, CrBusyWith, CrIdle
  <2>5. CrAsked'
    BY <1>3 DEF CrBeginUpdate, CrAsked, CrBegins, CrIds, CrAccepted
  <2>6. CrSingle'
    BY <1>3 DEF CrBeginUpdate, CrSingle, CrThere, CrBegins
  <2> QED BY <2>1, <2>2, <2>3, <2>4, <2>5, <2>6
<1>4. ASSUME NEW c \in CrCalls, CrAnswered(c) PROVE CrInv'
  <2>0. crCall[c].pc = "ask" /\ crCall[c].blob.tok \in CrAccepted
        /\ UNCHANGED <<crRow, crRevoked, crHist>>
    BY <1>4 DEF CrAnswered
  <2>1. PICK blob \in CrBlob :
            /\ CrSets(c, "write", blob) /\ blob.reauth = crCall[c].blob.reauth
            /\ blob.there = crCall[c].blob.there
            /\ \/ blob.tok = crCall[c].blob.tok /\ UNCHANGED <<crIssued, crRetired>>
               \/ /\ blob.tok = crIssued + 1 /\ crIssued' = crIssued + 1
                  /\ crRetired' = crRetired \cup {crCall[c].blob.tok}
    <3>1. crCall[c].blob \in CrBlob /\ crIssued + 1 \in Nat
      BY DEF CrTypes, CrCallType
    <3>2. /\ [crCall[c].blob EXCEPT !.fresh = TRUE] \in CrBlob
          /\ [crCall[c].blob EXCEPT !.fresh = TRUE].tok = crCall[c].blob.tok
          /\ [crCall[c].blob EXCEPT !.fresh = TRUE].reauth = crCall[c].blob.reauth
          /\ [crCall[c].blob EXCEPT !.fresh = TRUE].there = crCall[c].blob.there
      BY <3>1 DEF CrBlob
    <3>3. /\ [crCall[c].blob EXCEPT !.fresh = TRUE, !.tok = crIssued + 1] \in CrBlob
          /\ [crCall[c].blob EXCEPT !.fresh = TRUE, !.tok = crIssued + 1].tok = crIssued + 1
          /\ [crCall[c].blob EXCEPT !.fresh = TRUE, !.tok = crIssued + 1].reauth
               = crCall[c].blob.reauth
          /\ [crCall[c].blob EXCEPT !.fresh = TRUE, !.tok = crIssued + 1].there
               = crCall[c].blob.there
      BY <3>1 DEF CrBlob
    <3> QED BY <1>4, <3>2, <3>3 DEF CrAnswered
  <2>2. /\ crCall' \in [CrCalls -> CrCallType]
        /\ \A d \in CrCalls : d # c => crCall'[d] = crCall[d]
        /\ crCall'[c].kind = crCall[c].kind /\ crCall'[c].id = crCall[c].id
        /\ crCall'[c].pc = "write" /\ crCall'[c].blob = blob
    BY <2>0, <2>1, CrGoesOn DEF CrTypes
  <2>3. blob.tok \in Nat /\ crIssued \in Nat /\ crCall[c].blob.tok \in Nat
        /\ crCall[c].blob.tok \in 1 .. crIssued /\ crCall[c].blob.tok \notin crRetired
        /\ crIssued <= crIssued' /\ crIssued' \in Nat
    BY <2>0, <2>1 DEF CrTypes, CrBlob, CrCallType, CrAccepted
  <2>4. CrTypes'
    <3>1. crIssued' \in Nat /\ crRetired' \subseteq 1 .. crIssued'
      <4>1. 1 .. crIssued \subseteq 1 .. crIssued' /\ crRetired \subseteq 1 .. crIssued
        BY <2>3 DEF CrTypes
      <4>2. crRetired' \subseteq crRetired \cup {crCall[c].blob.tok}
        BY <2>1
      <4> QED BY <2>3, <4>1, <4>2
    <3>2. \A i \in CrIds : crRow'[i].tok <= crIssued' /\ (~CrThere(i) => crRow[i] = CrAbsent)'
      BY <2>0, <2>3 DEF CrTypes, CrThere, CrBlob
    <3>3. \A d \in CrCalls : crCall'[d].blob.tok <= crIssued'
      <4>1. blob.tok <= crIssued'
        BY <2>1, <2>3 DEF CrTypes
      <4>2. \A d \in CrCalls : crCall[d].blob.tok \in Nat /\ crCall[d].blob.tok <= crIssued
        BY DEF CrTypes, CrBlob, CrCallType
      <4> QED BY <2>2, <2>3, <4>1, <4>2
    <3>4. \A d \in CrCalls : /\ crCall'[d].id # 0 <=> crCall'[d].pc \in {"ask", "write"}
                             /\ crCall'[d].id # 0 => crCall'[d].blob.there
                             /\ crCall'[d].kind = "add" <=> crCall'[d].pc = "insert"
      BY <2>0, <2>1, <2>2 DEF CrTypes
    <3> QED BY <2>0, <2>2, <3>1, <3>2, <3>3, <3>4 DEF CrTypes
  <2>5. CrOwned'
    <3>1. CASE blob.tok = crCall[c].blob.tok
      BY <2>0, <2>2, <3>1 DEF CrOwned
    <3>2. CASE blob.tok = crIssued + 1
      <4>1. (\A i \in CrIds : crRow[i].tok # blob.tok)
            /\ \A d \in CrCalls : crCall[d].blob.tok # blob.tok
        BY <2>3, <3>2 DEF CrTypes, CrBlob, CrCallType
      <4> QED BY <2>0, <2>2, <4>1 DEF CrOwned
    <3> QED BY <2>1, <3>1, <3>2
  <2>6. CrAlone'
    BY <2>0, <2>1, <2>2 DEF CrAlone, CrThere
  <2>7. CrRotated'
    <3> SUFFICES ASSUME crHist \cap {"raced", "cut"} = {} PROVE CrRotated'
      BY <2>0 DEF CrRotated
    <3>1. blob.tok \notin crRetired'
      BY <2>1, <2>3 DEF CrTypes
    <3>2. \A i \in CrIds : i # crCall[c].id => crRow[i].tok # crCall[c].blob.tok
      BY <2>0, <2>3 DEF CrOwned, CrTypes, CrPassword
    <3>3. \A d \in CrCalls : d # c /\ crCall[d].pc = "write"
          => crCall[d].blob.tok # crCall[c].blob.tok
      BY <2>0, <2>3 DEF CrOwned, CrAlone, CrTypes, CrPassword
    <3> QED BY <2>0, <2>1, <2>2, <3>1, <3>2, <3>3 DEF CrRotated
  <2>8. CrAsked'
    <3>1. \A t \in 0 .. crIssued : t \notin CrAccepted => t \notin CrAccepted'
      BY <2>0, <2>1, <2>3 DEF CrAccepted
    <3> QED BY <2>0, <2>1, <2>2, <3>1 DEF CrAsked, CrTypes, CrBlob, CrCallType
  <2>9. CrSingle'
    BY <2>0, <2>1, <2>2 DEF CrSingle, CrThere
  <2> QED BY <2>4, <2>5, <2>6, <2>7, <2>8, <2>9
<1>5. ASSUME NEW c \in CrCalls, CrRefused(c) PROVE CrInv'
  <2> DEFINE blob == [crCall[c].blob EXCEPT !.reauth = TRUE]
  <2>0. CrSets(c, "write", blob) /\ crCall[c].pc = "ask" /\ crCall[c].blob.tok \notin CrAccepted
        /\ UNCHANGED <<crRow, crIssued, crRetired, crRevoked, crHist>>
    BY <1>5 DEF CrRefused
  <2>1. blob \in CrBlob /\ blob.tok = crCall[c].blob.tok
        /\ blob.there = crCall[c].blob.there
    <3>1. crCall[c].blob \in CrBlob
      BY DEF CrTypes, CrCallType
    <3> QED BY <3>1 DEF CrBlob
  <2>2. /\ crCall' \in [CrCalls -> CrCallType]
        /\ \A d \in CrCalls : d # c => crCall'[d] = crCall[d]
        /\ crCall'[c].kind = crCall[c].kind /\ crCall'[c].id = crCall[c].id
        /\ crCall'[c].pc = "write" /\ crCall'[c].blob = blob
    BY <2>0, <2>1, CrGoesOn DEF CrTypes
  <2> HIDE DEF blob
  <2>3. CrTypes'
    BY <2>0, <2>1, <2>2 DEF CrTypes, CrThere
  <2>4. CrOwned'
    BY <2>0, <2>1, <2>2 DEF CrOwned
  <2>5. CrAlone'
    BY <2>0, <2>1, <2>2 DEF CrAlone, CrThere
  <2>6. CrRotated'
    <3> SUFFICES ASSUME crHist \cap {"raced", "cut"} = {} PROVE CrRotated'
      BY <2>0 DEF CrRotated
    <3>1. crCall[c].blob.tok \notin crRetired
      <4>1. crCall[c].id \in CrIds /\ \A d \in CrCalls : crCall[d].id = crCall[c].id => d = c
        BY <2>0 DEF CrAlone, CrTypes, CrCallType
      <4>2. \A d \in CrCalls : crCall[d].pc = "write" => crCall[d].id # crCall[c].id
        BY <2>0, <4>1
      <4>3. crRow[crCall[c].id].tok \notin crRetired
        BY <4>1, <4>2 DEF CrRotated
      <4>4. crCall[c].blob.tok = crRow[crCall[c].id].tok
        BY <2>0 DEF CrAlone, CrTypes
      <4> QED BY <4>3, <4>4
    <3> QED BY <2>0, <2>1, <2>2, <3>1 DEF CrRotated
  <2>7. CrAsked'
    BY <2>0, <2>1, <2>2 DEF CrAsked, CrAccepted
  <2>8. CrSingle'
    BY <2>0, <2>1, <2>2 DEF CrSingle, CrThere
  <2> QED BY <2>3, <2>4, <2>5, <2>6, <2>7, <2>8
<1>6. ASSUME NEW c \in CrCalls, CrTransient(c) PROVE CrInv'
  <2>1. CrTypes'
    BY <1>6 DEF CrTransient, CrTypes, CrBlob, CrCallType, CrThere, CrEnds, CrPassword,
       CrAbsent, CrIdle
  <2>2. CrOwned'
    BY <1>6 DEF CrTransient, CrOwned, CrEnds, CrIdle
  <2>3. CrAlone'
    BY <1>6 DEF CrTransient, CrAlone, CrThere, CrEnds, CrIdle
  <2>4. CrRotated'
    BY <1>6 DEF CrTransient, CrRotated, CrEnds, CrIdle, CrStored
  <2>5. CrAsked'
    BY <1>6 DEF CrTransient, CrAsked, CrEnds, CrAbsent, CrIdle, CrAccepted
  <2>6. CrSingle'
    BY <1>6 DEF CrTransient, CrSingle, CrThere, CrEnds, CrIdle
  <2> QED BY <2>1, <2>2, <2>3, <2>4, <2>5, <2>6
<1>7. ASSUME NEW c \in CrCalls, CrWrite(c) PROVE CrInv'
  <2>0. /\ crRow' \in [CrIds -> CrBlob] /\ crCall' \in [CrCalls -> CrCallType]
        /\ \A d \in CrCalls : crCall'[d] = IF d = c THEN CrIdle ELSE crCall[d]
        /\ \A i \in CrIds :
             crRow'[i] = IF i = crCall[c].id /\ CrThere(i) THEN crCall[c].blob ELSE crRow[i]
        /\ UNCHANGED <<crIssued, crRetired, crRevoked, crHist>>
    BY <1>7 DEF CrWrite, CrTypes, CrBlob, CrCallType, CrEnds, CrIdle, CrAbsent, CrStored,
       CrThere, CrPassword
  <2>1. CrTypes'
    <3>0. crCall[c].blob.there
      BY <1>7 DEF CrWrite, CrTypes
    <3>1. \A j \in CrIds : crRow'[j].tok <= crIssued' /\ (~CrThere(j) => crRow[j] = CrAbsent)'
      BY <3>0, <1>7, <2>0 DEF CrWrite, CrTypes, CrThere, CrAbsent
    <3>2. \A d \in CrCalls : /\ crCall'[d].blob.tok <= crIssued'
                             /\ crCall'[d].id # 0 <=> crCall'[d].pc \in {"ask", "write"}
                             /\ crCall'[d].id # 0 => crCall'[d].blob.there
                             /\ crCall'[d].kind = "add" <=> crCall'[d].pc = "insert"
      BY <1>7, <2>0 DEF CrTypes, CrIdle, CrAbsent, CrPassword
    <3> QED BY <1>7, <2>0, <3>1, <3>2 DEF CrWrite, CrTypes
  <2>2. CrOwned'
    BY <1>7 DEF CrWrite, CrOwned, CrTypes, CrBlob, CrCallType, CrThere, CrBegins, CrRace,
       CrBusyWith, CrSets, CrEnds, CrIds, CrPassword, CrAbsent, CrIdle, CrConsent, CrFree,
       CrNoDuplicate, CrStored, CrAccepted
  <2>3. CrAlone'
    BY <1>7 DEF CrWrite, CrAlone, CrTypes, CrThere, CrEnds, CrIdle
  <2>4. CrRotated'
    BY <1>7 DEF CrWrite, CrRotated, CrAlone, CrTypes, CrThere, CrEnds, CrAbsent, CrIdle,
       CrFree, CrNoDuplicate, CrStored
  <2>5. CrAsked'
    BY <1>7 DEF CrWrite, CrAsked, CrTypes, CrBlob, CrCallType, CrThere, CrBegins, CrBusyWith,
       CrSets, CrEnds, CrIds, CrAbsent, CrIdle, CrFree, CrStored, CrAccepted
  <2>6. CrSingle'
    BY <1>7 DEF CrWrite, CrSingle, CrCallType, CrThere, CrBegins, CrBusyWith, CrSets, CrEnds,
       CrIds, CrPassword, CrAbsent, CrIdle, CrConsent, CrFree, CrNoDuplicate, CrStored,
       CrAccepted
  <2> QED BY <2>1, <2>2, <2>3, <2>4, <2>5, <2>6
<1>8. ASSUME NEW c \in CrCalls, CrCut(c) PROVE CrInv'
  <2>1. CrTypes'
    BY <1>8 DEF CrCut, CrTypes, CrBlob, CrCallType, CrThere, CrEnds, CrPassword, CrAbsent,
       CrIdle
  <2>2. CrOwned'
    BY <1>8 DEF CrCut, CrOwned, CrEnds, CrIdle
  <2>3. CrAlone'
    BY <1>8 DEF CrCut, CrAlone, CrThere, CrEnds, CrIdle
  <2>4. CrRotated'
    BY <1>8 DEF CrCut, CrRotated, CrAlone, CrOwned, CrTypes, CrBlob, CrCallType, CrThere,
       CrBegins, CrRace, CrBusyWith, CrSets, CrEnds, CrIds, CrPassword, CrAbsent, CrIdle,
       CrConsent, CrFree, CrNoDuplicate, CrStored, CrAccepted
  <2>5. CrAsked'
    BY <1>8 DEF CrCut, CrAsked, CrEnds, CrAbsent, CrIdle, CrAccepted
  <2>6. CrSingle'
    BY <1>8 DEF CrCut, CrSingle, CrThere, CrEnds, CrIdle
  <2> QED BY <2>1, <2>2, <2>3, <2>4, <2>5, <2>6
<1>9. ASSUME NEW c \in CrCalls, CrBeginAdd(c) PROVE CrInv'
  <2>1. CrTypes'
    BY <1>9 DEF CrBeginAdd, CrTypes, CrBlob, CrCallType, CrThere, CrBegins, CrPassword,
       CrAbsent
  <2>2. CrOwned'
    BY <1>9 DEF CrBeginAdd, CrOwned, CrBegins
  <2>3. CrAlone'
    BY <1>9 DEF CrBeginAdd, CrAlone, CrThere, CrBegins
  <2>4. CrRotated'
    BY <1>9 DEF CrBeginAdd, CrRotated, CrBegins, CrIds, CrIdle
  <2>5. CrAsked'
    BY <1>9 DEF CrBeginAdd, CrAsked, CrBegins, CrAbsent, CrAccepted
  <2>6. CrSingle'
    BY <1>9 DEF CrBeginAdd, CrSingle, CrThere, CrBegins, CrFree, CrNoDuplicate
  <2> QED BY <2>1, <2>2, <2>3, <2>4, <2>5, <2>6
<1>10. ASSUME NEW c \in CrCalls, CrInsert(c) PROVE CrInv'
  <2>1. CrTypes'
    BY <1>10 DEF CrInsert, CrTypes, CrBlob, CrCallType, CrThere, CrEnds, CrPassword, CrAbsent,
       CrIdle, CrConsent, CrFree, CrNoDuplicate, CrStored, CrAccepted
  <2>2. CrOwned'
    BY <1>10 DEF CrInsert, CrOwned, CrEnds, CrAbsent, CrIdle
  <2>3. CrAlone'
    BY <1>10 DEF CrInsert, CrAlone, CrThere, CrEnds, CrIdle, CrFree
  <2>4. CrRotated'
    BY <1>10 DEF CrInsert, CrRotated, CrTypes, CrCallType, CrEnds, CrPassword, CrAbsent,
       CrIdle, CrAccepted
  <2>5. CrAsked'
    BY <1>10 DEF CrInsert, CrAsked, CrEnds, CrAbsent, CrIdle, CrAccepted
  <2>6. CrSingle'
    BY <1>10 DEF CrInsert, CrSingle, CrTypes, CrThere, CrEnds, CrIdle
  <2> QED BY <2>1, <2>2, <2>3, <2>4, <2>5, <2>6
<1>11. ASSUME CrLogin PROVE CrInv'
  <2>1. CrTypes'
    BY <1>11 DEF CrLogin, CrTypes, CrBlob, CrCallType, CrThere, CrConsent, CrFree
  <2>2. CrOwned'
    BY <1>11 DEF CrLogin, CrOwned, CrTypes, CrConsent
  <2>3. CrAlone'
    BY <1>11 DEF CrLogin, CrAlone, CrThere, CrFree
  <2>4. CrRotated'
    BY <1>11 DEF CrLogin, CrRotated, CrTypes, CrConsent
  <2>5. CrAsked'
    BY <1>11 DEF CrLogin, CrAsked, CrTypes, CrConsent, CrAccepted
  <2>6. CrSingle'
    BY <1>11 DEF CrLogin, CrSingle, CrThere, CrFree
  <2> QED BY <2>1, <2>2, <2>3, <2>4, <2>5, <2>6
<1>12. ASSUME CrRevoke PROVE CrInv'
  <2>1. CrTypes'
    BY <1>12 DEF CrRevoke, CrTypes, CrThere
  <2>2. CrOwned'
    BY <1>12 DEF CrRevoke, CrOwned
  <2>3. CrAlone'
    BY <1>12 DEF CrRevoke, CrAlone, CrThere
  <2>4. CrRotated'
    BY <1>12 DEF CrRevoke, CrRotated
  <2>5. CrAsked'
    BY <1>12 DEF CrRevoke, CrAsked, CrAccepted
  <2>6. CrSingle'
    BY <1>12 DEF CrRevoke, CrSingle, CrThere
  <2> QED BY <2>1, <2>2, <2>3, <2>4, <2>5, <2>6
<1>13. ASSUME NEW i \in CrIds, CrDelete(i) PROVE CrInv'
  <2>1. CrTypes'
    BY <1>13 DEF CrDelete, CrTypes, CrBlob, CrThere, CrPassword, CrAbsent
  <2>2. CrOwned'
    BY <1>13 DEF CrDelete, CrOwned, CrAbsent
  <2>3. CrAlone'
    BY <1>13 DEF CrDelete, CrAlone, CrThere, CrRace, CrBusyWith
  <2>4. CrRotated'
    BY <1>13 DEF CrDelete, CrRotated, CrTypes, CrPassword, CrAbsent
  <2>5. CrAsked'
    BY <1>13 DEF CrDelete, CrAsked, CrAbsent, CrAccepted
  <2>6. CrSingle'
    BY <1>13 DEF CrDelete, CrSingle, CrThere
  <2> QED BY <2>1, <2>2, <2>3, <2>4, <2>5, <2>6
<1>14. ASSUME NEW i \in CrIds, CrExpire(i) PROVE CrInv'
  <2>0. crRow' \in [CrIds -> CrBlob] /\ \A j \in CrIds : crRow'[j].tok = crRow[j].tok
        /\ crRow'[j].there = crRow[j].there /\ (j # i => crRow'[j] = crRow[j])
    BY <1>14 DEF CrExpire, CrTypes, CrBlob
  <2>1. CrTypes'
    <3>0. CrThere(i)
      BY <1>14 DEF CrExpire, CrTypes, CrThere, CrAbsent
    <3>1. \A j \in CrIds : crRow'[j].tok <= crIssued' /\ (~CrThere(j) => crRow[j] = CrAbsent)'
      BY <3>0, <1>14, <2>0 DEF CrExpire, CrTypes, CrThere, CrAbsent
    <3>2. \A d \in CrCalls : /\ crCall'[d].blob.tok <= crIssued'
                             /\ crCall'[d].id # 0 <=> crCall'[d].pc \in {"ask", "write"}
                             /\ crCall'[d].id # 0 => crCall'[d].blob.there
                             /\ crCall'[d].kind = "add" <=> crCall'[d].pc = "insert"
      BY <1>14, <2>0 DEF CrExpire, CrTypes
    <3> QED BY <1>14, <2>0, <3>1, <3>2 DEF CrExpire, CrTypes
  <2>2. CrOwned'
    BY <1>14 DEF CrExpire, CrOwned
  <2>3. CrAlone'
    BY <1>14 DEF CrExpire, CrAlone, CrThere
  <2>4. CrRotated'
    BY <1>14 DEF CrExpire, CrRotated, CrNoDuplicate
  <2>5. CrAsked'
    BY <1>14 DEF CrExpire, CrAsked, CrAccepted
  <2>6. CrSingle'
    BY <1>14 DEF CrExpire, CrSingle, CrThere
  <2> QED BY <2>1, <2>2, <2>3, <2>4, <2>5, <2>6
<1>15. CASE UNCHANGED crVars
  BY <1>15 DEF crVars, CrTypes, CrOwned, CrAlone, CrRotated, CrAsked, CrSingle, CrThere,
     CrAccepted
<1> QED BY <1>1, <1>2, <1>3, <1>4, <1>5, <1>6, <1>7, <1>8, <1>9, <1>10, <1>11, <1>12, <1>13, <1>14,
    <1>15 DEF CrNext

\* However refreshes, reconnects, edits, additions and deletions interleave: an account is
\* left with a token that was rotated away only if two writers of its blob overlapped or one
\* was cut short; the user is asked to sign in again only when the provider no longer takes
\* the token; and a mailbox is added once unless two tests of it overlapped
\* (fresh_access_token, oauth_callback, update_account, add_account).
THEOREM CredentialsKept == CrSpec => []CrCredentialsKept
<1>1. CrInv => CrCredentialsKept
  <2> SUFFICES ASSUME CrInv PROVE CrCredentialsKept
    OBVIOUS
  <2>1. CrRotationKept
    BY DEF CrInv, CrRotated, CrRotationKept, CrBusyWith
  <2>2. CrReauthJustified
    BY DEF CrInv, CrAsked, CrReauthJustified
  <2>3. CrOneAccount
    <3>1. ASSUME "doubled" \notin crHist
          PROVE  CrIds \ CrFree = {} \/ \E i \in CrIds : CrIds \ CrFree = {i}
      BY <3>1 DEF CrInv, CrSingle, CrFree
    <3> QED
      <4> SUFFICES ASSUME "doubled" \notin crHist PROVE Cardinality(CrIds \ CrFree) <= 1
        BY DEF CrOneAccount
      <4> QED BY <3>1, FS_EmptySet, FS_Singleton
  <2> QED BY <2>1, <2>2, <2>3 DEF CrCredentialsKept
<1> QED BY <1>1, CrInitInv, CrStep, PTL DEF CrSpec

-----------------------------------------------------------------------------
(* Contacts edited at the provider. *)

\* A contact as the server has it, a row, and a request, field by field.
CeServerType == [alive : BOOLEAN, version : Nat, extras : SUBSET CeExtras, photo : Nat]
CeRowType == [alive : {TRUE}, version : Nat, basis : Nat, extras : SUBSET CeExtras, photo : Nat,
              photoVersion : Nat \cup {-1}, key : BOOLEAN]
CeCallType == [pc : {"idle", "send", "persist"}, op : {"none", "create", "update", "delete"},
               seen : CeRowType \cup {CeNone}, version : Nat, basis : Nat]
CePageType == [alive : {TRUE}, server : CeServerType]
CePhotoType == [pc : {"idle", "put", "update"}, bytes : Nat, version : {0, -1}]

CeTypes ==
    /\ ceKind \in {"carddav", "google", "graph"} /\ ceServer \in CeServerType
    /\ ceRow \in CeRowType \cup {CeNone} /\ ceBlob \in Nat
    /\ ceCall \in [CeEdits -> CeCallType] /\ ceCursor \in Nat
    /\ cePage \in CePageType \cup {CeNone} /\ cePhoto \in CePhotoType

\* What a request edits, and the photo of the row it will store.
CeSends(e) == ceCall[e].pc = "send" /\ ceCall[e].op \in {"update", "delete"}
CeStores(e) == ceCall[e].pc = "persist" /\ ceCall[e].op \in {"create", "update"}
CePhotoSent(e) == IF ceCall[e].op = "create" THEN 0 ELSE ceCall[e].seen.photo

\* Content of server version b with photo p, stored or about to be under version v: the
\* version tells which content it is, and current content has the current photo; what is
\* as new as the page that is under way has the page's photo.
CeFits(v, b, p) ==
    /\ b \in 1 .. ceServer.version /\ v \in {0, b} /\ ("blind" \notin ceHist => v # 0)
    /\ b = ceServer.version => ceServer.alive
    /\ "lost" \notin ceHist =>
        /\ b = ceServer.version => p = ceServer.photo
        /\ cePage.alive /\ b >= cePage.server.version => p = cePage.server.photo
        /\ p # 0 => ceServer.photo # 0 /\ (cePage.alive => cePage.server.photo # 0)

CeCallFits(e) ==
    /\ ceCall[e].pc # "idle" => ceCall[e].op # "none"
    /\ CeSends(e) => /\ ceCall[e].seen.alive
                     /\ CeFits(ceCall[e].seen.version, ceCall[e].seen.basis, ceCall[e].seen.photo)
    /\ CeStores(e) => /\ ceCall[e].op = "update" => ceCall[e].seen.alive
                      /\ CeFits(ceCall[e].version, ceCall[e].basis, CePhotoSent(e))
    /\ ceCall[e].pc = "persist" /\ ceCall[e].op = "delete" =>
        /\ ceCall[e].basis <= ceServer.version
        /\ ceCall[e].basis = ceServer.version => ~ceServer.alive

CeRowFits == CeHasRow => CeFits(ceRow.version, ceRow.basis, ceRow.photo)

CeContents ==
    /\ "lost" \in ceHist => "blind" \in ceHist
    /\ CeRowFits /\ \A e \in CeEdits : CeCallFits(e)

\* Where the sync is, and that its row is the server's when it is past every change.
CeSynced ==
    /\ ceServer.version = 0 => ~ceServer.alive /\ ceServer.photo = 0
    /\ ceCursor <= ceServer.version /\ (CeHasRow => ceRow.photoVersion <= ceCursor)
    /\ cePage.alive =>
        /\ ceCursor < cePage.server.version /\ cePage.server.version <= ceServer.version
        /\ cePage.server.version = ceServer.version => cePage.server = ceServer
        /\ "lost" \notin ceHist /\ cePage.server.photo # 0 => ceServer.photo # 0
    /\ "late" \notin ceHist =>
        /\ CeHasRow => ceRow.basis >= ceCursor
        /\ ceCursor = ceServer.version =>
            (CeHasRow <=> ceServer.alive) /\ (CeHasRow => ceRow.basis = ceServer.version)

\* Content as new as the cursor has one photo: only a sync brings another.
CeFresh(e) ==
    \/ ceCall[e].pc = "send" /\ ceCall[e].op = "update" /\ ceCall[e].seen.basis >= ceCursor
    \/ CeStores(e) /\ ceCall[e].basis >= ceCursor

CeOnePhoto ==
    ceHist \cap {"late", "lost"} = {} =>
        \E photo \in Nat : /\ CeHasRow => ceRow.photo = photo
                           /\ \A e \in CeEdits : CeFresh(e) => CePhotoSent(e) = photo

\* The cached photo is the row's, and so is the one being cached.
CeCached ==
    /\ "crossed" \notin ceHist /\ cePhoto.pc # "idle" =>
        /\ CeHasRow /\ ~ceRow.key /\ cePhoto.bytes = ceRow.photo /\ cePhoto.bytes # 0
        /\ cePhoto.pc = "update" => ceBlob = cePhoto.bytes
    /\ ceHist \cap {"crossed", "late", "lost"} = {} /\ CeHasRow /\ ceRow.key =>
        ceBlob = ceRow.photo /\ ceBlob # 0

CeInv == CeTypes /\ CeContents /\ CeSynced /\ CeOnePhoto /\ CeCached

\* A step after which content that fitted still fits.
CeKeepsFits == \A v, b, p \in Nat : CeFits(v, b, p) => CeFits(v, b, p)'

\* A change of the contact is a version nobody has; it keeps a photo that is there.
LEMMA CeServerMoves ==
    ASSUME CeTypes, CeSynced, ceServer' \in CeServerType, ceServer'.version = ceServer.version + 1,
           "lost" \notin ceHist' /\ ceServer.photo # 0 => ceServer'.photo # 0,
           UNCHANGED cePage, ceHist \subseteq ceHist'
    PROVE  CeKeepsFits
<1>1. ceServer.version \in Nat /\ ceServer'.version \in Nat /\ cePage' = cePage
  BY DEF CeTypes, CeServerType
<1> SUFFICES ASSUME NEW v \in Nat, NEW b \in Nat, NEW p \in Nat,
                    CeFits(v, b, p) PROVE CeFits(v, b, p)'
  BY DEF CeKeepsFits
<1>2. b \in 1 .. ceServer'.version /\ b # ceServer'.version
  BY <1>1 DEF CeFits
<1> QED BY <1>1, <1>2 DEF CeFits

\* So does every step that leaves the contact and the page alone.
LEMMA CeServerStays ==
    ASSUME UNCHANGED ceServer, cePage' = cePage \/ ~cePage'.alive, ceHist \subseteq ceHist'
    PROVE  CeKeepsFits
BY DEF CeKeepsFits, CeFits

\* The calls of a step fit if those that changed do.
LEMMA CeContentsFrame ==
    ASSUME CeTypes, CeTypes', CeContents, CeKeepsFits,
           ceServer' = ceServer \/ ceServer'.version > ceServer.version,
           "lost" \in ceHist' => "blind" \in ceHist', CeRowFits',
           \A e \in CeEdits : ceCall'[e] = ceCall[e] \/ ceCall'[e] = CeQuiet \/ CeCallFits(e)'
    PROVE  CeContents'
<1> SUFFICES ASSUME NEW e \in CeEdits PROVE CeCallFits(e)'
  BY DEF CeContents
<1>1. CASE ceCall'[e] = CeQuiet
  BY <1>1 DEF CeCallFits, CeQuiet, CeSends, CeStores
<1>2. CASE ceCall'[e] = ceCall[e]
  <2> DEFINE c == ceCall[e]
  <2>1. /\ c \in CeCallType /\ CeCallFits(e) /\ ceServer.version \in Nat
             /\ ceServer'.version \in Nat
        /\ CePhotoSent(e)' = CePhotoSent(e) /\ (CeSends(e)' <=> CeSends(e))
             /\ (CeStores(e)' <=> CeStores(e))
    BY <1>2 DEF CeTypes, CeContents, CeServerType, CePhotoSent, CeSends, CeStores
  <2>r. c.seen \in CeRowType \cup {CeNone} /\ (c.seen.alive => c.seen \in CeRowType)
    BY <2>1 DEF CeCallType, CeNone
  <2>2. CASE CeSends(e)
    <3>1. c.seen \in CeRowType /\ CeFits(c.seen.version, c.seen.basis, c.seen.photo)
      BY <2>1, <2>r, <2>2 DEF CeCallFits
    <3>2. PICK v \in Nat, b \in Nat, p \in Nat : c.seen.version = v /\ c.seen.basis = b
          /\ c.seen.photo = p
      BY <3>1 DEF CeRowType
    <3>3. CeFits(v, b, p) /\ CeFits(v, b, p)'
      BY <3>1, <3>2 DEF CeKeepsFits
    <3>4. CeFits(ceCall[e].seen.version, ceCall[e].seen.basis, ceCall[e].seen.photo)'
      BY <1>2, <3>2, <3>3 DEF CeFits
    <3> QED BY <1>2, <2>1, <2>2, <3>4 DEF CeCallFits, CeSends, CeStores
  <2>3. CASE CeStores(e)
    <3>1. CePhotoSent(e) \in Nat /\ CeFits(c.version, c.basis, CePhotoSent(e))
      BY <2>1, <2>r, <2>3 DEF CeCallFits, CeRowType, CePhotoSent, CeStores
    <3>2. PICK v \in Nat, b \in Nat, p \in Nat : c.version = v /\ c.basis = b /\ CePhotoSent(e) = p
      BY <2>1, <3>1 DEF CeCallType
    <3>3. CeFits(v, b, p) /\ CeFits(v, b, p)'
      BY <3>1, <3>2 DEF CeKeepsFits
    <3>4. CeFits(ceCall[e].version, ceCall[e].basis, CePhotoSent(e))'
      BY <1>2, <2>1, <3>2, <3>3 DEF CeFits
    <3> QED BY <1>2, <2>1, <2>3, <3>4 DEF CeCallFits, CeSends, CeStores
  <2>4. CASE ~CeSends(e) /\ ~CeStores(e)
    BY <1>2, <2>1, <2>4 DEF CeCallFits, CeCallType
  <2> QED BY <2>2, <2>3, <2>4
<1> QED BY <1>1, <1>2

\* The row fits as before when its versions and its photo stay.
LEMMA CeRowStays ==
    ASSUME CeTypes, CeRowFits, CeKeepsFits, ceRow'.alive = ceRow.alive,
           ceRow'.version = ceRow.version,
           ceRow'.basis = ceRow.basis, ceRow'.photo = ceRow.photo
    PROVE  CeRowFits'
<1> SUFFICES ASSUME CeHasRow PROVE CeFits(ceRow.version, ceRow.basis, ceRow.photo)'
  BY DEF CeRowFits, CeHasRow
<1>1. ceRow \in CeRowType /\ CeFits(ceRow.version, ceRow.basis, ceRow.photo)
  BY DEF CeTypes, CeRowFits, CeHasRow, CeNone
<1>2. PICK v \in Nat, b \in Nat, p \in Nat : ceRow.version = v /\ ceRow.basis = b /\ ceRow.photo = p
  BY <1>1 DEF CeRowType
<1>3. CeFits(v, b, p) /\ CeFits(v, b, p)'
  BY <1>1, <1>2 DEF CeKeepsFits
<1> QED BY <1>2, <1>3 DEF CeFits

\* A call that is replaced by another.
LEMMA CeCallMoves ==
    ASSUME CeTypes, NEW e \in CeEdits, NEW c \in CeCallType, ceCall' = [ceCall EXCEPT ![e] = c]
    PROVE  /\ ceCall' \in [CeEdits -> CeCallType] /\ ceCall'[e] = c
           /\ \A f \in CeEdits : f # e => ceCall'[f] = ceCall[f]
BY DEF CeTypes

\* What a request that begins holds.
LEMMA CeBegins ==
    ASSUME CeTypes, NEW e \in CeEdits, CeCreate(e) \/ CeUpdate(e) \/ CeDelete(e)
    PROVE  \E c \in CeCallType :
             /\ ceCall' = [ceCall EXCEPT ![e] = c] /\ c.pc = "send"
             /\ \/ c.op = "create" /\ c.seen = CeNone /\ ceServer.version = 0
                \/ c.op \in {"update", "delete"} /\ c.seen = ceRow /\ CeHasRow
<1>0. CeNone \in CeRowType \cup {CeNone} /\ ceRow \in CeRowType \cup {CeNone}
  BY DEF CeTypes
<1>1. CASE CeCreate(e)
  <2> DEFINE c == [CeQuiet EXCEPT !.pc = "send", !.op = "create"]
  <2>1. c \in CeCallType /\ c.pc = "send" /\ c.op = "create" /\ c.seen = CeNone
    BY <1>0 DEF CeQuiet, CeCallType
  <2> QED BY <1>1, <2>1 DEF CeCreate
<1>2. CASE CeUpdate(e)
  <2> DEFINE c == [CeQuiet EXCEPT !.pc = "send", !.op = "update", !.seen = ceRow]
  <2>1. c \in CeCallType /\ c.pc = "send" /\ c.op = "update" /\ c.seen = ceRow
    BY <1>0 DEF CeQuiet, CeCallType
  <2> QED BY <1>2, <2>1 DEF CeUpdate
<1>3. CASE CeDelete(e)
  <2> DEFINE c == [CeQuiet EXCEPT !.pc = "send", !.op = "delete", !.seen = ceRow]
  <2>1. c \in CeCallType /\ c.pc = "send" /\ c.op = "delete" /\ c.seen = ceRow
    BY <1>0 DEF CeQuiet, CeCallType
  <2> QED BY <1>3, <2>1 DEF CeDelete
<1> QED BY <1>1, <1>2, <1>3

\* A write that the provider lets pass is the next version; one that was computed from
\* older content passes only without a version, as after an answer without one.
LEMMA CeSendWriteEffect ==
    ASSUME CeTypes, CeContents, CeSynced, NEW e \in CeEdits, CeSendWrite(e)
    PROVE  /\ ceCall[e].pc = "send" /\ ceCall[e].op \in {"create", "update"}
           /\ ceCall[e].op = "create" => ceServer.version = 0
           /\ ceServer' \in CeServerType /\ ceServer'.version = ceServer.version + 1
                /\ ceServer'.alive
           /\ \E c \in CeCallType :
                /\ ceCall' = [ceCall EXCEPT ![e] = c]
                /\ c.pc = "persist" /\ c.op = ceCall[e].op /\ c.seen = ceCall[e].seen
                /\ c.basis = ceServer'.version /\ c.version \in {0, c.basis}
                /\ c.version = 0 => "blind" \in ceHist'
           /\ ceHist \subseteq ceHist' /\ ceHist' \subseteq ceHist \cup {"blind", "lost"}
           /\ "lost" \in ceHist' => "blind" \in ceHist'
           /\ "lost" \notin ceHist' =>
                /\ ceCall[e].op = "update" => ceCall[e].seen.basis = ceServer.version
                /\ ceServer'.photo = CePhotoSent(e) /\ ceServer'.photo = ceServer.photo
<1> DEFINE c == ceCall[e]  s == c.seen
<1>1. /\ c \in CeCallType /\ c.pc = "send" /\ c.op \in {"create", "update"}
      /\ CePasses(e) /\ ceServer \in CeServerType /\ ceServer.version \in Nat
  BY DEF CeSendWrite, CeTypes, CeContents, CeCallFits, CeCallType, CeServerType
<1>2. c.op = "create" => ceServer.version = 0
  BY <1>1 DEF CePasses
<1>3. c.op = "update" => /\ s \in CeRowType /\ CeFits(s.version, s.basis, s.photo)
                         /\ s.version = 0 \/ (ceServer.alive /\ s.version = ceServer.version)
  <2>1. c.op = "update" => s.alive /\ CeFits(s.version, s.basis, s.photo)
    BY <1>1 DEF CeContents, CeCallFits, CeSends
  <2>2. s \in CeRowType \cup {CeNone} /\ ~CeNone.alive
    BY <1>1 DEF CeCallType, CeNone
  <2>3. c.op = "update" => s.version = 0 \/ (ceServer.alive /\ s.version = ceServer.version)
    BY <1>1 DEF CePasses, CeMatches, CeGooglePasses, CeGraphPasses, CeVersionOf, CeTypes
  <2> QED BY <2>1, <2>2, <2>3
<1>4. /\ ceServer' \in CeServerType /\ ceServer'.version = ceServer.version + 1 /\ ceServer'.alive
      /\ c.op = "create" => ceServer'.photo = 0
      /\ c.op = "update" => ceServer'.photo \in {s.photo, ceServer.photo}
  <2>1. CASE c.op = "create"
    BY <1>1, <2>1 DEF CeSendWrite, CeServerType, CeNext1, CeExtras
  <2>2. CASE c.op = "update"
    <3>1. ceServer' = CeWritten(s)
      BY <2>2 DEF CeSendWrite
    <3>2. CeToCardDav(s).extras \in SUBSET CeExtras /\ CeToCardDav(s).photo = s.photo
      BY <1>3, <2>2 DEF CeToCardDav, CeRowType
    <3>3. CeToGoogle(s).extras \in SUBSET CeExtras /\ CeToGoogle(s).photo = ceServer.photo
      BY <1>1, <1>3, <2>2 DEF CeToGoogle, CeRowType, CeServerType
    <3>4. CeToGraph(s).extras \in SUBSET CeExtras /\ CeToGraph(s).photo = ceServer.photo
      BY <1>1, <1>3, <2>2 DEF CeToGraph, CeRowType, CeServerType
    <3>5. \E w \in {CeToCardDav(s), CeToGoogle(s), CeToGraph(s)} :
            ceServer' = [alive |-> TRUE, version |-> CeNext1, extras |-> w.extras,
                         photo |-> w.photo]
      BY <3>1 DEF CeWritten, CeTypes
    <3>6. s.photo \in Nat /\ ceServer.photo \in Nat /\ CeNext1 = ceServer.version + 1
      BY <1>1, <1>3, <2>2 DEF CeRowType, CeServerType, CeNext1
    <3> QED BY <1>1, <2>2, <3>2, <3>3, <3>4, <3>5, <3>6 DEF CeServerType
  <2> QED BY <1>1, <2>1, <2>2
<1>5. PICK version \in CeAnswers :
        /\ CeAnswered(e, version)
        /\ ceHist' = ceHist \cup (IF version = 0 THEN {"blind"} ELSE {})
                \cup (IF c.op = "update" /\ s.basis # ceServer.version THEN {"lost"} ELSE {})
  BY DEF CeSendWrite
<1>6. \E d \in CeCallType :
        /\ ceCall' = [ceCall EXCEPT ![e] = d] /\ d.pc = "persist" /\ d.op = c.op /\ d.seen = s
        /\ d.basis = ceServer'.version /\ d.version \in {0, d.basis}
        /\ d.version = 0 => "blind" \in ceHist'
  <2> DEFINE d == [c EXCEPT !.pc = "persist", !.version = version, !.basis = CeNext1]
  <2>1. version \in {0, CeNext1} /\ CeNext1 = ceServer.version + 1
        /\ CeNext1 \in Nat /\ version \in Nat
    BY <1>1, <1>5 DEF CeAnswers, CeNext1
  <2>2. /\ d \in CeCallType /\ d.pc = "persist" /\ d.op = c.op /\ d.seen = s /\ d.basis = CeNext1
        /\ d.version = version
    BY <1>1, <2>1 DEF CeCallType
  <2>3. ceCall' = [ceCall EXCEPT ![e] = d]
    BY <1>5 DEF CeAnswered, CeTypes
  <2> QED BY <1>4, <1>5, <2>1, <2>2, <2>3
<1>7. c.op = "update" /\ s.basis # ceServer.version => "blind" \in ceHist
  BY <1>1, <1>3 DEF CeFits
<1>8. "lost" \in ceHist' => "blind" \in ceHist'
  BY <1>5, <1>7 DEF CeContents
<1>9. ASSUME "lost" \notin ceHist'
      PROVE  /\ c.op = "update" => s.basis = ceServer.version
             /\ ceServer'.photo = CePhotoSent(e) /\ ceServer'.photo = ceServer.photo
  <2>1. c.op = "update" => s.basis = ceServer.version
    BY <1>5, <1>9
  <2>2. c.op = "update" => s.photo = ceServer.photo
    BY <1>3, <1>5, <1>9, <2>1 DEF CeFits
  <2>3. c.op = "create" => ceServer.photo = 0
    BY <1>2 DEF CeSynced
  <2> QED BY <1>1, <1>4, <2>1, <2>2, <2>3 DEF CePhotoSent
<1>10. ceHist \subseteq ceHist' /\ ceHist' \subseteq ceHist \cup {"blind", "lost"}
  BY <1>5
<1> QED BY <1>1, <1>2, <1>4, <1>6, <1>8, <1>9, <1>10

\* A deletion at the provider is a version, too, unless the contact was gone already.
LEMMA CeSendDeleteEffect ==
    ASSUME CeTypes, CeContents, CeSynced, NEW e \in CeEdits, CeSendDelete(e)
    PROVE  /\ ceServer' \in CeServerType /\ ceServer'.photo = ceServer.photo /\ ~ceServer'.alive
           /\ ceServer' = ceServer \/ ceServer'.version = ceServer.version + 1
           /\ \E c \in CeCallType :
                /\ ceCall' = [ceCall EXCEPT ![e] = c]
                /\ c.pc = "persist" /\ c.op = "delete" /\ c.basis = ceServer'.version
<1> DEFINE c == ceCall[e]
<1>1. c \in CeCallType /\ c.pc = "send" /\ c.op = "delete" /\ ceServer \in CeServerType
      /\ CeNext1 \in Nat
  BY DEF CeSendDelete, CeTypes, CeServerType, CeNext1
<1>2. CASE ceServer.alive
  <2> DEFINE s == [ceServer EXCEPT !.alive = FALSE, !.version = CeNext1]
             d == [c EXCEPT !.pc = "persist", !.version = 0, !.basis = CeNext1]
  <2>1. s \in CeServerType /\ s.photo = ceServer.photo /\ ~s.alive
        /\ s.version = ceServer.version + 1
    BY <1>1 DEF CeServerType, CeNext1
  <2>2. d \in CeCallType /\ d.pc = "persist" /\ d.op = "delete" /\ d.basis = CeNext1
    BY <1>1 DEF CeCallType
  <2>3. ceServer' = s /\ ceCall' = [ceCall EXCEPT ![e] = d]
    BY <1>2 DEF CeSendDelete, CeAnswered, CeTypes
  <2> QED BY <2>1, <2>2, <2>3 DEF CeNext1
<1>3. CASE ~ceServer.alive
  <2> DEFINE d == [c EXCEPT !.pc = "persist", !.basis = ceServer.version]
  <2>1. d \in CeCallType /\ d.pc = "persist" /\ d.op = "delete" /\ d.basis = ceServer.version
    BY <1>1 DEF CeCallType, CeServerType
  <2>2. ceServer' = ceServer /\ ceCall' = [ceCall EXCEPT ![e] = d]
    BY <1>3 DEF CeSendDelete, CeTypes
  <2> QED BY <1>1, <1>3, <2>1, <2>2
<1> QED BY <1>2, <1>3

\* What is stored keeps the cached photo only under the photo version it was cached for.
LEMMA CeStoredRowEffect ==
    ASSUME CeTypes, NEW v \in Nat, NEW b \in Nat, NEW x \in SUBSET CeExtras, NEW p \in Nat,
           NEW pv \in Nat
    PROVE  LET r == CeStoredRow(v, b, x, p, pv)
           IN  /\ r \in CeRowType /\ r.version = v /\ r.basis = b /\ r.photo = p
               /\ r.photoVersion = pv
               /\ r.key => CeHasRow /\ ceRow.key /\ ceRow.photoVersion = pv
<1>1. (CeHasRow /\ CeSameVersion(pv) /\ ceRow.key) \in BOOLEAN
  <2>1. CASE CeHasRow
    <3>1. ceRow \in CeRowType
      BY <2>1 DEF CeTypes, CeHasRow, CeNone
    <3> QED BY <2>1, <3>1 DEF CeSameVersion, CeRowType
  <2> QED BY <2>1
<1> QED BY <1>1 DEF CeStoredRow, CeRowType, CeSameVersion

\* Storing what was sent: the row takes the version, the content and the photo of the
\* request, or goes with a deletion (create_remote_first, update_remote_first,
\* delete_remote_first).
LEMMA CePersistEffect ==
    ASSUME CeTypes, CeContents, NEW e \in CeEdits, CePersist(e)
    PROVE  /\ ceCall[e].pc = "persist" /\ ceCall[e].op \in {"create", "update", "delete"}
           /\ ceCall' = [ceCall EXCEPT ![e] = CeQuiet]
           /\ ceCall[e].op = "delete" => ceRow' = CeNone
           /\ ceCall[e].op # "delete" =>
                /\ ceRow' \in CeRowType /\ ceRow'.version = ceCall[e].version
                /\ ceRow'.basis = ceCall[e].basis /\ ceRow'.photo = CePhotoSent(e)
                /\ ceRow'.photoVersion = 0
                /\ ceRow'.key => CeHasRow /\ ceRow.key /\ ceRow.photoVersion = 0
           /\ ceHist \subseteq ceHist' /\ ceHist' \subseteq ceHist \cup {"late", "crossed"}
           /\ "late" \notin ceHist' => ceCursor <= ceCall[e].basis
           /\ cePhoto.pc # "idle" => "crossed" \in ceHist'
<1> DEFINE c == ceCall[e]
<1>1. c \in CeCallType /\ c.pc = "persist" /\ c.op \in {"create", "update", "delete"}
  BY DEF CePersist, CeTypes, CeContents, CeCallFits, CeCallType
<1>2. c.op = "update" => c.seen \in CeRowType
  BY <1>1 DEF CeContents, CeCallFits, CeStores, CeCallType, CeNone
<1>3. c.op = "create" => ceRow' = CeStoredRow(c.version, c.basis, {}, 0, 0)
  BY DEF CePersist
<1>4. c.op = "update" =>
        ceRow' = CeStoredRow(c.version, c.basis, c.seen.extras \ {"group"}, c.seen.photo, 0)
  BY DEF CePersist
<1>5. c.op = "delete" => ceRow' = CeNone
  BY DEF CePersist
<1>6. c.version \in Nat /\ c.basis \in Nat /\ {} \in SUBSET CeExtras
      /\ (c.op = "update" => c.seen.photo \in Nat /\ c.seen.extras \ {"group"} \in SUBSET CeExtras)
  BY <1>1, <1>2 DEF CeCallType, CeRowType
<1>7. c.op # "delete" =>
        /\ ceRow' \in CeRowType /\ ceRow'.version = c.version /\ ceRow'.basis = c.basis
        /\ ceRow'.photo = CePhotoSent(e) /\ ceRow'.photoVersion = 0
        /\ ceRow'.key => CeHasRow /\ ceRow.key /\ ceRow.photoVersion = 0
  <2>1. CASE c.op = "create"
    BY <1>3, <1>6, <2>1, CeStoredRowEffect DEF CePhotoSent
  <2>2. CASE c.op = "update"
    BY <1>4, <1>6, <2>2, CeStoredRowEffect DEF CePhotoSent
  <2> QED BY <1>1, <2>1, <2>2
<1>8. /\ ceHist \subseteq ceHist' /\ ceHist' \subseteq ceHist \cup {"late", "crossed"}
      /\ "late" \notin ceHist' => ceCursor <= c.basis
      /\ cePhoto.pc # "idle" => "crossed" \in ceHist'
      /\ ceCall' = [ceCall EXCEPT ![e] = CeQuiet]
  BY <1>1 DEF CePersist, CeTypes, CeCallType
<1> QED BY <1>1, <1>5, <1>7, <1>8

\* A page becomes the row; the photo stays cached only if neither has one.
LEMMA CeApplyEffect ==
    ASSUME CeTypes, CeSynced, CeApply
    PROVE  LET s == cePage.server IN
           /\ cePage \in CePageType /\ s \in CeServerType
           /\ ceCursor' = s.version /\ cePage' = CeNone
           /\ ~s.alive => ceRow' = CeNone
           /\ s.alive =>
                /\ ceRow' \in CeRowType /\ ceRow'.version = s.version /\ ceRow'.basis = s.version
                /\ ceRow'.photo = s.photo /\ ceRow'.photoVersion <= s.version
                /\ ceRow'.key => CeHasRow /\ ceRow.key /\ s.photo = 0
           /\ ceHist \subseteq ceHist' /\ ceHist' \subseteq ceHist \cup {"crossed"}
           /\ cePhoto.pc # "idle" => "crossed" \in ceHist'
<1> DEFINE s == cePage.server  pv == CePhotoVersion(s)
<1>1. cePage \in CePageType /\ s \in CeServerType /\ s.version \in Nat /\ s.photo \in Nat
      /\ ceCursor \in Nat /\ ceCursor < s.version
  <2>1. cePage \in CePageType
    BY DEF CeApply, CeTypes, CeNone
  <2> QED BY <2>1 DEF CePageType, CeServerType, CeTypes, CeSynced
<1>2. pv \in Nat /\ (pv = s.version \/ (pv = 0 /\ s.photo = 0))
  BY <1>1 DEF CePhotoVersion
<1>3. CeShown(s) \in SUBSET CeExtras
  BY <1>1 DEF CeShown, CeTypes, CeOfCardDav, CeOfGoogle, CeOfGraph, CeServerType
<1>4. s.alive => ceRow' = CeStoredRow(s.version, s.version, CeShown(s), s.photo, pv)
  BY DEF CeApply
<1>5. ASSUME s.alive
      PROVE  /\ ceRow' \in CeRowType /\ ceRow'.version = s.version /\ ceRow'.basis = s.version
             /\ ceRow'.photo = s.photo /\ ceRow'.photoVersion = pv
             /\ ceRow'.key => CeHasRow /\ ceRow.key /\ ceRow.photoVersion = pv
  BY <1>1, <1>2, <1>3, <1>4, <1>5, CeStoredRowEffect
<1>6. s.alive /\ ceRow'.key => s.photo = 0
  <2>1. CeHasRow => ceRow.photoVersion <= ceCursor /\ ceRow.photoVersion \in Int
    <3>1. CeHasRow => ceRow \in CeRowType
      BY DEF CeTypes, CeHasRow, CeNone
    <3> QED BY <3>1 DEF CeSynced, CeRowType
  <2> QED BY <1>1, <1>2, <1>5, <2>1
<1>7. /\ ceCursor' = s.version /\ cePage' = CeNone /\ (~s.alive => ceRow' = CeNone)
      /\ ceHist \subseteq ceHist' /\ ceHist' \subseteq ceHist \cup {"crossed"}
      /\ cePhoto.pc # "idle" => "crossed" \in ceHist'
  BY DEF CeApply, CeCursorOf
<1> QED BY <1>1, <1>2, <1>5, <1>6, <1>7

\* get_photo's update notes the blob, and the photo's version if it has one.
LEMMA CeKeyPhotoEffect ==
    ASSUME CeTypes, CeKeyPhoto
    PROVE  /\ ~CeHasRow => ceRow' = ceRow
           /\ CeHasRow =>
                /\ ceRow \in CeRowType /\ ceRow' \in CeRowType /\ ceRow'.version = ceRow.version
                /\ ceRow'.basis = ceRow.basis /\ ceRow'.photo = ceRow.photo
                /\ ceRow'.photoVersion \in {-1, ceRow.photoVersion}
<1>1. CASE ~CeHasRow
  BY <1>1 DEF CeKeyPhoto
<1>2. CASE CeHasRow
  <2> DEFINE pv == IF cePhoto.version = 0 THEN ceRow.photoVersion ELSE cePhoto.version
             r == [ceRow EXCEPT !.key = TRUE, !.photoVersion = pv]
  <2>1. ceRow \in CeRowType /\ cePhoto.version \in {0, -1}
    BY <1>2 DEF CeTypes, CeHasRow, CeNone, CePhotoType
  <2>2. pv \in {-1, ceRow.photoVersion} /\ pv \in Nat \cup {-1}
    BY <2>1 DEF CeRowType
  <2> HIDE DEF pv
  <2>3. /\ r \in CeRowType /\ r.version = ceRow.version /\ r.basis = ceRow.basis
        /\ r.photo = ceRow.photo /\ r.photoVersion = pv
    BY <2>1, <2>2 DEF CeRowType
  <2>4. ceRow' = r
    BY <1>2 DEF CeKeyPhoto, pv
  <2> QED BY <1>2, <2>1, <2>2, <2>3, <2>4
<1> QED BY <1>1, <1>2

\* Every step keeps the types.
LEMMA CeTypesKept == ASSUME CeInv, [CeNext]_ceVars PROVE CeTypes'
<1> USE DEF CeInv
<1>q. CeQuiet \in CeCallType /\ CeNone \in CeRowType \cup {CeNone} /\ CeNoPhoto \in CePhotoType
  BY DEF CeQuiet, CeCallType, CeNoPhoto, CePhotoType
<1>1. CASE CeOther
  <2>1. ceServer \in CeServerType /\ CeNext1 \in Nat
    BY DEF CeTypes, CeServerType, CeNext1
  <2>2. ceServer' \in CeServerType
    <3>1. ASSUME NEW photo \in {ceServer.photo, CeNext1},
                 ceServer' = [alive |-> TRUE, version |-> CeNext1, extras |-> CeExtras,
                              photo |-> photo]
          PROVE  ceServer' \in CeServerType
      BY <2>1, <3>1 DEF CeServerType
    <3>2. ASSUME ceServer' = [ceServer EXCEPT !.alive = FALSE, !.version = CeNext1]
          PROVE  ceServer' \in CeServerType
      BY <2>1, <3>2 DEF CeServerType
    <3> QED BY <1>1, <3>1, <3>2 DEF CeOther
  <2> QED BY <1>1, <2>2 DEF CeOther, CeTypes
<1>2. ASSUME NEW e \in CeEdits, CeCreate(e) \/ CeUpdate(e) \/ CeDelete(e) PROVE CeTypes'
  BY <1>2, CeBegins, CeCallMoves DEF CeTypes, CeCreate, CeUpdate, CeDelete, CeEditRest
<1>3. ASSUME NEW e \in CeEdits, CeSendWrite(e) PROVE CeTypes'
  <2>1. ceServer' \in CeServerType /\ ceCall' \in [CeEdits -> CeCallType]
    BY <1>3, CeSendWriteEffect, CeCallMoves
  <2> QED BY <1>3, <2>1 DEF CeTypes, CeSendWrite, CeEditRest
<1>4. ASSUME NEW e \in CeEdits, CeSendDelete(e) PROVE CeTypes'
  <2>1. ceServer' \in CeServerType /\ ceCall' \in [CeEdits -> CeCallType]
    BY <1>4, CeSendDeleteEffect, CeCallMoves
  <2> QED BY <1>4, <2>1 DEF CeTypes, CeSendDelete, CeEditRest
<1>5. ASSUME NEW e \in CeEdits, CeRefused(e) \/ CeAnswerLost(e) PROVE CeTypes'
  <2>1. ceCall' \in [CeEdits -> CeCallType]
    BY <1>q, <1>5, CeCallMoves DEF CeRefused, CeAnswerLost
  <2> QED BY <1>5, <2>1 DEF CeTypes, CeRefused, CeAnswerLost, CeEditRest
<1>6. ASSUME NEW e \in CeEdits, CePersist(e) PROVE CeTypes'
  <2>1. ceRow' \in CeRowType \cup {CeNone} /\ ceCall' \in [CeEdits -> CeCallType]
    BY <1>q, <1>6, CePersistEffect, CeCallMoves
  <2> QED BY <1>6, <2>1 DEF CeTypes, CePersist, CeEditRest
<1>7. CASE CeFetch
  <2>1. cePage' \in CePageType
    BY <1>7 DEF CeFetch, CePageType, CeTypes
  <2> QED BY <1>7, <2>1 DEF CeFetch, CeTypes
<1>8. CASE CeApply
  <2>1. ceRow' \in CeRowType \cup {CeNone} /\ ceCursor' \in Nat /\ cePage' = CeNone
    BY <1>8, CeApplyEffect DEF CeServerType
  <2> QED BY <1>8, <2>1 DEF CeApply, CeTypes
<1>9. CASE CeGetPhoto
  <2>1. ceRow \in CeRowType /\ ceServer \in CeServerType
    BY <1>9 DEF CeGetPhoto, CeHasRow, CeTypes, CeNone
  <2>2. ceRow.photo \in Nat /\ ceServer.photo \in Nat
    BY <2>1 DEF CeRowType, CeServerType
  <2>3. cePhoto' \in CePhotoType
    BY <1>9, <2>2 DEF CeGetPhoto, CePhotoOfGraph, CePhotoOfUrl, CePhotoOfVcard, CeFetched,
       CePhotoType
  <2> QED BY <1>9, <2>3 DEF CeGetPhoto, CePhotoRest, CeTypes
<1>10. CASE CePutPhoto
  <2>1. cePhoto' \in CePhotoType /\ ceBlob' \in Nat
    BY <1>10 DEF CePutPhoto, CeTypes, CePhotoType
  <2> QED BY <1>10, <2>1 DEF CePutPhoto, CePhotoRest, CeTypes
<1>11. CASE CeKeyPhoto
  <2>1. ceRow' \in CeRowType \cup {CeNone}
    BY <1>11, CeKeyPhotoEffect DEF CeTypes
  <2> QED BY <1>q, <1>11, <2>1 DEF CeKeyPhoto, CePhotoRest, CeTypes
<1>12. CASE UNCHANGED ceVars
  BY <1>12 DEF ceVars, CeTypes
<1> QED BY <1>1, <1>2, <1>3, <1>4, <1>5, <1>6, <1>7, <1>8, <1>9, <1>10, <1>11, <1>12 DEF CeNext

\* Every step keeps the rest of the invariant.
LEMMA CeStep == ASSUME CeInv, [CeNext]_ceVars PROVE CeInv'
<1> USE DEF CeInv
<1>0. CeTypes'
  BY CeTypesKept
<1>r. /\ CeHasRow => ceRow \in CeRowType /\ ceRow.basis \in Nat /\ ceRow.photo \in Nat
      /\ ceServer.version \in Nat /\ ceServer.photo \in Nat /\ ceCursor \in Nat
      /\ cePage.alive => cePage.server \in CeServerType /\ cePage.server.version \in Nat
      /\ ~CeNone.alive /\ CeQuiet.pc = "idle"
  <2>1. CeHasRow => ceRow \in CeRowType
    BY DEF CeTypes, CeHasRow, CeNone
  <2>2. cePage.alive => cePage \in CePageType
    BY DEF CeTypes, CeNone
  <2>3. ~CeNone.alive /\ CeQuiet.pc = "idle"
    BY DEF CeNone, CeQuiet
  <2> QED BY <2>1, <2>2, <2>3 DEF CeTypes, CeRowType, CeServerType, CePageType
<1>c. \A e \in CeEdits : ceCall[e] \in CeCallType /\ ceCall[e].basis \in Nat
  BY DEF CeTypes, CeCallType
<1>1. CASE CeOther
  <2>1. /\ ceServer' \in CeServerType /\ ceServer'.version = ceServer.version + 1
        /\ ceServer.photo # 0 => ceServer'.photo # 0
        /\ UNCHANGED <<ceRow, ceBlob, ceCall, ceCursor, cePage, cePhoto, ceHist>>
    <3>0. ceServer \in CeServerType /\ CeNext1 = ceServer.version + 1 /\ CeNext1 # 0
      BY <1>r DEF CeTypes, CeNext1
    <3>1. ASSUME NEW photo \in {ceServer.photo, CeNext1},
                 ceServer' = [alive |-> TRUE, version |-> CeNext1, extras |-> CeExtras,
                              photo |-> photo]
          PROVE  /\ ceServer'.version = ceServer.version + 1
                 /\ ceServer.photo # 0 => ceServer'.photo # 0
      BY <3>0, <3>1
    <3>2. ASSUME ceServer' = [ceServer EXCEPT !.alive = FALSE, !.version = CeNext1]
          PROVE  ceServer'.version = ceServer.version + 1 /\ ceServer'.photo = ceServer.photo
      BY <3>0, <3>2 DEF CeServerType
    <3>3. UNCHANGED <<ceRow, ceBlob, ceCall, ceCursor, cePage, cePhoto, ceHist>>
      BY <1>1 DEF CeOther
    <3> QED BY <1>0, <1>1, <3>1, <3>2, <3>3 DEF CeOther, CeTypes
  <2>2. CeKeepsFits
    BY <2>1, CeServerMoves
  <2>3. CeContents'
    <3>1. CeRowFits'
      BY <2>1, <2>2, CeRowStays DEF CeContents
    <3> QED BY <1>0, <1>r, <2>1, <2>2, <3>1, CeContentsFrame DEF CeContents
  <2>4. CeSynced'
    BY <1>r, <2>1 DEF CeSynced, CeHasRow
  <2>5. CeOnePhoto' /\ CeCached'
    BY <2>1 DEF CeOnePhoto, CeFresh, CeStores, CePhotoSent, CeHasRow, CeCached
  <2> QED BY <1>0, <2>3, <2>4, <2>5
<1>2. ASSUME NEW e \in CeEdits, CeCreate(e) \/ CeUpdate(e) \/ CeDelete(e) PROVE CeInv'
  <2>1. PICK c \in CeCallType :
           /\ ceCall' = [ceCall EXCEPT ![e] = c] /\ c.pc = "send"
           /\ \/ c.op = "create" /\ c.seen = CeNone /\ ceServer.version = 0
              \/ c.op \in {"update", "delete"} /\ c.seen = ceRow /\ CeHasRow
    BY <1>2, CeBegins
  <2>2. /\ ceCall'[e] = c /\ \A f \in CeEdits : f # e => ceCall'[f] = ceCall[f]
        /\ UNCHANGED <<ceServer, ceRow, ceBlob, ceCursor, cePage, cePhoto, ceHist>>
    BY <1>2, <2>1, CeCallMoves DEF CeCreate, CeUpdate, CeDelete, CeEditRest
  <2>3. CeKeepsFits /\ CeRowFits'
    BY <2>2, CeServerStays, CeRowStays DEF CeContents
  <2>4. CeContents'
    <3>1. CeCallFits(e)'
      <4>1. CASE c.op = "create"
        BY <2>1, <2>2, <4>1 DEF CeCallFits, CeSends, CeStores
      <4>2. CASE c.op \in {"update", "delete"}
        <5>1. CeFits(ceRow.version, ceRow.basis, ceRow.photo)'
          BY <2>1, <2>2, <2>3, <4>2 DEF CeRowFits, CeHasRow
        <5>2. ceCall'[e].seen = ceRow' /\ ceCall'[e].seen.alive
          BY <2>1, <2>2, <4>2 DEF CeHasRow
        <5>3. CeFits(ceCall[e].seen.version, ceCall[e].seen.basis, ceCall[e].seen.photo)'
          BY <5>1, <5>2 DEF CeFits
        <5> QED BY <2>1, <2>2, <4>2, <5>2, <5>3 DEF CeCallFits, CeSends, CeStores
      <4> QED BY <2>1, <4>1, <4>2
    <3> QED BY <1>0, <2>2, <2>3, <3>1, CeContentsFrame DEF CeContents
  <2>5. CeSynced'
    BY <2>2 DEF CeSynced, CeHasRow
  <2>6. CeOnePhoto'
    <3> SUFFICES ASSUME ceHist \cap {"late", "lost"} = {} PROVE CeOnePhoto'
      BY <2>2 DEF CeOnePhoto
    <3>1. PICK photo \in Nat : /\ CeHasRow => ceRow.photo = photo
                               /\ \A f \in CeEdits : CeFresh(f) => CePhotoSent(f) = photo
      BY DEF CeOnePhoto
    <3>2. CeHasRow' => ceRow'.photo = photo
      BY <2>2, <3>1 DEF CeHasRow
    <3>3. ASSUME NEW f \in CeEdits, CeFresh(f)' PROVE CePhotoSent(f)' = photo
      <4>1. CASE f = e
        BY <2>1, <2>2, <3>1, <3>3, <4>1 DEF CeFresh, CeStores, CePhotoSent
      <4>2. CASE f # e
        BY <2>2, <3>1, <3>3, <4>2 DEF CeFresh, CeStores, CePhotoSent
      <4> QED BY <4>1, <4>2
    <3> QED BY <3>2, <3>3 DEF CeOnePhoto
  <2>7. CeCached'
    BY <2>2 DEF CeCached, CeHasRow
  <2> QED BY <1>0, <2>4, <2>5, <2>6, <2>7
<1>3. ASSUME NEW e \in CeEdits, CeSendWrite(e) PROVE CeInv'
  <2>1. /\ ceCall[e].pc = "send" /\ ceCall[e].op \in {"create", "update"}
        /\ ceCall[e].op = "create" => ceServer.version = 0
        /\ ceServer' \in CeServerType /\ ceServer'.version = ceServer.version + 1 /\ ceServer'.alive
        /\ ceHist \subseteq ceHist' /\ ceHist' \subseteq ceHist \cup {"blind", "lost"}
        /\ "lost" \in ceHist' => "blind" \in ceHist'
        /\ "lost" \notin ceHist' =>
             /\ ceCall[e].op = "update" => ceCall[e].seen.basis = ceServer.version
             /\ ceServer'.photo = CePhotoSent(e) /\ ceServer'.photo = ceServer.photo
    BY <1>3, CeSendWriteEffect
  <2>c. PICK c \in CeCallType :
           /\ ceCall' = [ceCall EXCEPT ![e] = c]
           /\ c.pc = "persist" /\ c.op = ceCall[e].op /\ c.seen = ceCall[e].seen
           /\ c.basis = ceServer'.version /\ c.version \in {0, c.basis}
           /\ c.version = 0 => "blind" \in ceHist'
    BY <1>3, CeSendWriteEffect
  <2>2. /\ ceCall'[e] = c /\ \A f \in CeEdits : f # e => ceCall'[f] = ceCall[f]
        /\ UNCHANGED <<ceRow, ceBlob, ceCursor, cePage, cePhoto>>
    BY <1>3, <2>c, CeCallMoves DEF CeSendWrite, CeEditRest
  <2>3. CeKeepsFits
    BY <2>1, <2>2, CeServerMoves
  <2>4. CeRowFits'
    BY <2>2, <2>3, CeRowStays DEF CeContents
  <2>5. CePhotoSent(e)' = CePhotoSent(e)
        /\ (ceCall[e].op = "update" => ceCall[e].seen \in CeRowType)
    <3>1. ceCall[e].op = "update" => ceCall[e].seen.alive
      BY <2>1 DEF CeContents, CeCallFits, CeSends
    <3> QED BY <1>c, <2>1, <2>c, <2>2, <3>1 DEF CePhotoSent, CeCallType, CeNone
  <2>6. CeContents'
    <3>1. CeFits(ceCall[e].version, ceCall[e].basis, CePhotoSent(e))'
      <4>1. ASSUME "lost" \notin ceHist', cePage'.alive, ceServer'.version >= cePage'.server.version
            PROVE  ceServer'.photo = cePage'.server.photo
        BY <1>r, <2>1, <2>2, <4>1 DEF CeSynced, CeContents, CeCallFits, CeSends, CeFits
      <4>2. ASSUME "lost" \notin ceHist', cePage'.alive, ceServer'.photo # 0
            PROVE  cePage'.server.photo # 0
        BY <1>r, <2>1, <2>2, <4>1, <4>2 DEF CeSynced
      <4> QED BY <1>r, <2>1, <2>c, <2>2, <2>5, <4>1, <4>2 DEF CeFits
    <3>2. CeCallFits(e)'
      <4>1. ceCall'[e].op = "update" => ceCall'[e].seen.alive
        BY <2>1, <2>c, <2>2 DEF CeContents, CeCallFits, CeSends
      <4> QED BY <2>1, <2>c, <2>2, <3>1, <4>1 DEF CeCallFits, CeSends, CeStores
    <3> QED BY <1>0, <1>r, <2>1, <2>2, <2>3, <2>4, <3>2, CeContentsFrame
  <2>7. CeSynced'
    BY <1>r, <2>1, <2>2 DEF CeSynced, CeHasRow
  <2>8. CeOnePhoto'
    <3> SUFFICES ASSUME ceHist' \cap {"late", "lost"} = {} PROVE CeOnePhoto'
      BY DEF CeOnePhoto
    <3>1. ceHist \cap {"late", "lost"} = {}
      BY <2>1
    <3>2. CASE ceCall[e].op = "create"
      <4>1. ~CeHasRow /\ \A f \in CeEdits : f # e => ~CeFresh(f)
        <5>1. ceServer.version = 0 /\ ~CeHasRow
          BY <1>r, <2>1, <3>2 DEF CeContents, CeRowFits, CeFits
        <5>2. ASSUME NEW f \in CeEdits PROVE ~CeFresh(f)
          BY <5>1 DEF CeFresh, CeContents, CeCallFits, CeFits, CeSends
        <5> QED BY <5>1, <5>2
      <4>2. CePhotoSent(e)' = 0
        BY <2>5, <3>2 DEF CePhotoSent
      <4>3. ASSUME NEW f \in CeEdits, f # e PROVE ~CeFresh(f)'
        BY <2>2, <4>1, <4>3 DEF CeFresh, CeStores
      <4> QED BY <2>2, <4>1, <4>2, <4>3 DEF CeOnePhoto, CeHasRow
    <3>3. CASE ceCall[e].op = "update"
      <4>1. PICK photo \in Nat : /\ CeHasRow => ceRow.photo = photo
                                 /\ \A f \in CeEdits : CeFresh(f) => CePhotoSent(f) = photo
        BY <3>1 DEF CeOnePhoto
      <4>2. CeFresh(e)
        BY <1>r, <2>1, <3>3 DEF CeFresh, CeSynced
      <4>3. CeHasRow' => ceRow'.photo = photo
        BY <2>2, <4>1 DEF CeHasRow
      <4>4. ASSUME NEW f \in CeEdits, CeFresh(f)' PROVE CePhotoSent(f)' = photo
        BY <2>2, <2>5, <4>1, <4>2, <4>4 DEF CeFresh, CeStores, CePhotoSent
      <4> QED BY <4>3, <4>4 DEF CeOnePhoto
    <3> QED BY <2>1, <3>2, <3>3
  <2>9. CeCached'
    BY <2>1, <2>2 DEF CeCached, CeHasRow
  <2> QED BY <1>0, <2>6, <2>7, <2>8, <2>9
<1>4. ASSUME NEW e \in CeEdits, CeSendDelete(e) PROVE CeInv'
  <2>1. /\ ceServer' \in CeServerType /\ ceServer'.photo = ceServer.photo /\ ~ceServer'.alive
        /\ ceServer' = ceServer \/ ceServer'.version = ceServer.version + 1
    BY <1>4, CeSendDeleteEffect
  <2>c. PICK c \in CeCallType :
           /\ ceCall' = [ceCall EXCEPT ![e] = c]
           /\ c.pc = "persist" /\ c.op = "delete" /\ c.basis = ceServer'.version
    BY <1>4, CeSendDeleteEffect
  <2>2. /\ ceCall'[e] = c /\ \A f \in CeEdits : f # e => ceCall'[f] = ceCall[f]
        /\ UNCHANGED <<ceRow, ceBlob, ceCursor, cePage, cePhoto, ceHist>>
    BY <1>4, <2>c, CeCallMoves DEF CeSendDelete, CeEditRest
  <2>3. CeKeepsFits
    BY <2>1, <2>2, CeServerMoves, CeServerStays
  <2>4. CeRowFits'
    BY <2>2, <2>3, CeRowStays DEF CeContents
  <2>5. CeContents'
    <3>1. CeCallFits(e)'
      BY <1>r, <2>1, <2>c, <2>2 DEF CeCallFits, CeSends, CeStores, CeServerType
    <3> QED BY <1>0, <1>r, <2>1, <2>2, <2>3, <2>4, <3>1, CeContentsFrame DEF CeContents
  <2>6. CeSynced'
    BY <1>r, <2>1, <2>2 DEF CeSynced, CeHasRow
  <2>7. CeOnePhoto'
    <3>1. ASSUME NEW f \in CeEdits
          PROVE  (CeFresh(f)' => CeFresh(f) /\ CePhotoSent(f)' = CePhotoSent(f))
      BY <2>c, <2>2 DEF CeFresh, CeStores, CePhotoSent
    <3> QED BY <2>2, <3>1 DEF CeOnePhoto, CeHasRow
  <2>8. CeCached'
    BY <2>2 DEF CeCached, CeHasRow
  <2> QED BY <1>0, <2>5, <2>6, <2>7, <2>8
<1>5. ASSUME NEW e \in CeEdits, CeRefused(e) \/ CeAnswerLost(e) PROVE CeInv'
  <2>2. /\ ceCall'[e] = CeQuiet /\ \A f \in CeEdits : f # e => ceCall'[f] = ceCall[f]
        /\ UNCHANGED <<ceServer, ceRow, ceBlob, ceCursor, cePage, cePhoto, ceHist>>
    BY <1>5 DEF CeRefused, CeAnswerLost, CeEditRest, CeTypes
  <2>3. CeKeepsFits
    BY <2>2, CeServerStays
  <2>4. CeRowFits'
    BY <2>2, <2>3, CeRowStays DEF CeContents
  <2>5. CeContents'
    BY <1>0, <2>2, <2>3, <2>4, CeContentsFrame DEF CeContents
  <2>6. CeSynced' /\ CeCached'
    BY <2>2 DEF CeSynced, CeHasRow, CeCached
  <2>7. CeOnePhoto'
    <3>1. ASSUME NEW f \in CeEdits
          PROVE  (CeFresh(f)' => CeFresh(f) /\ CePhotoSent(f)' = CePhotoSent(f))
      BY <1>r, <2>2 DEF CeFresh, CeStores, CePhotoSent
    <3> QED BY <2>2, <3>1 DEF CeOnePhoto, CeHasRow
  <2> QED BY <1>0, <2>5, <2>6, <2>7
<1>6. ASSUME NEW e \in CeEdits, CePersist(e) PROVE CeInv'
  <2>1. /\ ceCall[e].pc = "persist" /\ ceCall[e].op \in {"create", "update", "delete"}
        /\ ceCall' = [ceCall EXCEPT ![e] = CeQuiet]
        /\ ceCall[e].op = "delete" => ceRow' = CeNone
        /\ ceCall[e].op # "delete" =>
             /\ ceRow' \in CeRowType /\ ceRow'.version = ceCall[e].version
             /\ ceRow'.basis = ceCall[e].basis /\ ceRow'.photo = CePhotoSent(e)
             /\ ceRow'.photoVersion = 0
             /\ ceRow'.key => CeHasRow /\ ceRow.key /\ ceRow.photoVersion = 0
        /\ ceHist \subseteq ceHist' /\ ceHist' \subseteq ceHist \cup {"late", "crossed"}
        /\ "late" \notin ceHist' => ceCursor <= ceCall[e].basis
        /\ cePhoto.pc # "idle" => "crossed" \in ceHist'
    BY <1>6, CePersistEffect
  <2>2. /\ ceCall'[e] = CeQuiet /\ \A f \in CeEdits : f # e => ceCall'[f] = ceCall[f]
        /\ UNCHANGED <<ceServer, ceBlob, ceCursor, cePage, cePhoto>>
        /\ CeHasRow' <=> ceCall[e].op # "delete"
    <3>1. UNCHANGED <<ceServer, ceBlob, ceCursor, cePage, cePhoto>>
      BY <1>6 DEF CePersist, CeEditRest
    <3> QED BY <1>r, <2>1, <3>1 DEF CeTypes, CeHasRow, CeRowType
  <2>3. CeKeepsFits
    BY <2>1, <2>2, CeServerStays
  <2>4. CeRowFits'
    <3> SUFFICES ASSUME ceCall[e].op # "delete"
                 PROVE  CeFits(ceRow.version, ceRow.basis, ceRow.photo)'
      BY <2>2 DEF CeRowFits
    <3>1. CeFits(ceCall[e].version, ceCall[e].basis, CePhotoSent(e))
      BY <2>1 DEF CeContents, CeCallFits, CeStores
    <3> QED BY <2>1, <2>2, <3>1 DEF CeFits
  <2>5. CeContents'
    BY <1>0, <2>1, <2>2, <2>3, <2>4, CeContentsFrame DEF CeContents
  <2>6. CeSynced'
    <3>1. CeHasRow' => ceRow'.photoVersion <= ceCursor
      BY <1>r, <2>1, <2>2
    <3>2. ASSUME "late" \notin ceHist', CeHasRow' PROVE ceRow'.basis >= ceCursor
      BY <1>r, <1>c, <2>1, <2>2, <3>2
    <3>3. ASSUME "late" \notin ceHist', ceCursor = ceServer.version
          PROVE  (CeHasRow' <=> ceServer.alive) /\ (CeHasRow' => ceRow'.basis = ceServer.version)
      <4>1. ceCall[e].basis <= ceServer.version /\ ceCall[e].basis >= ceServer.version
        BY <1>r, <1>c, <2>1, <3>3 DEF CeContents, CeCallFits, CeStores, CeFits
      <4>2. ceCall[e].basis = ceServer.version
        BY <1>r, <1>c, <4>1
      <4>3. ceCall[e].op # "delete" <=> ceServer.alive
        BY <2>1, <4>2 DEF CeContents, CeCallFits, CeStores, CeFits
      <4> QED BY <2>1, <2>2, <4>2, <4>3
    <3>4. "lost" \in ceHist' <=> "lost" \in ceHist
      BY <2>1
    <3> QED BY <2>2, <3>1, <3>2, <3>3, <3>4 DEF CeSynced
  <2>7. CeOnePhoto'
    <3> SUFFICES ASSUME ceHist' \cap {"late", "lost"} = {} PROVE CeOnePhoto'
      BY DEF CeOnePhoto
    <3>1. PICK photo \in Nat : /\ CeHasRow => ceRow.photo = photo
                               /\ \A f \in CeEdits : CeFresh(f) => CePhotoSent(f) = photo
      BY <2>1 DEF CeOnePhoto
    <3>2. CeHasRow' => ceRow'.photo = photo
      BY <1>r, <1>c, <2>1, <2>2, <3>1 DEF CeFresh, CeStores
    <3>3. ASSUME NEW f \in CeEdits, CeFresh(f)' PROVE CePhotoSent(f)' = photo
      BY <1>r, <2>2, <3>1, <3>3 DEF CeFresh, CeStores, CePhotoSent
    <3> QED BY <3>2, <3>3 DEF CeOnePhoto
  <2>8. CeCached'
    <3>1. "crossed" \notin ceHist' => cePhoto.pc = "idle"
      BY <2>1
    <3>2. ASSUME ceHist' \cap {"crossed", "late", "lost"} = {}, CeHasRow', ceRow'.key
          PROVE  ceBlob = ceRow'.photo /\ ceBlob # 0
      <4>1. ceHist \cap {"crossed", "late", "lost"} = {} /\ ceHist \cap {"late", "lost"} = {}
        BY <2>1, <3>2
      <4>2. CeHasRow /\ ceRow.key /\ CeFresh(e)
        BY <1>r, <1>c, <2>1, <2>2, <3>2 DEF CeFresh, CeStores
      <4>3. ceRow.photo = CePhotoSent(e)
        BY <4>1, <4>2 DEF CeOnePhoto
      <4> QED BY <2>1, <2>2, <3>2, <4>1, <4>2, <4>3 DEF CeCached
    <3> QED BY <2>2, <3>1, <3>2 DEF CeCached
  <2> QED BY <1>0, <2>5, <2>6, <2>7, <2>8
<1>7. CASE CeFetch
  <2>1. /\ cePage' = [alive |-> TRUE, server |-> ceServer] /\ ceServer.version > ceCursor
        /\ UNCHANGED <<ceServer, ceRow, ceBlob, ceCall, ceCursor, cePhoto, ceHist>>
    BY <1>7 DEF CeFetch
  <2>2. cePage'.alive /\ cePage'.server = ceServer
    BY <2>1
  <2>3. CeKeepsFits
    BY <1>r, <2>1, <2>2 DEF CeKeepsFits, CeFits
  <2>4. CeRowFits'
    BY <2>1, <2>3, CeRowStays DEF CeContents
  <2>5. CeContents'
    BY <1>0, <2>1, <2>3, <2>4, CeContentsFrame DEF CeContents
  <2>6. CeSynced' /\ CeOnePhoto' /\ CeCached'
    BY <1>r, <2>1, <2>2 DEF CeSynced, CeHasRow, CeCached, CeOnePhoto, CeFresh, CeStores,
       CePhotoSent
  <2> QED BY <1>0, <2>5, <2>6
<1>8. CASE CeApply
  <2> DEFINE s == cePage.server
  <2>1. /\ cePage \in CePageType /\ s \in CeServerType
        /\ ceCursor' = s.version /\ cePage' = CeNone
        /\ ~s.alive => ceRow' = CeNone
        /\ s.alive =>
             /\ ceRow' \in CeRowType /\ ceRow'.version = s.version /\ ceRow'.basis = s.version
             /\ ceRow'.photo = s.photo /\ ceRow'.photoVersion <= s.version
             /\ ceRow'.key => CeHasRow /\ ceRow.key /\ s.photo = 0
        /\ ceHist \subseteq ceHist' /\ ceHist' \subseteq ceHist \cup {"crossed"}
        /\ cePhoto.pc # "idle" => "crossed" \in ceHist'
    BY <1>8, CeApplyEffect
  <2>2. /\ UNCHANGED <<ceServer, ceBlob, ceCall, cePhoto>> /\ ~cePage'.alive /\ cePage.alive
        /\ CeHasRow' <=> s.alive
        /\ s.version \in Nat /\ s.photo \in Nat /\ ceCursor < s.version
             /\ s.version <= ceServer.version
        /\ s.version = ceServer.version => s = ceServer
    <3>1. UNCHANGED <<ceServer, ceBlob, ceCall, cePhoto>> /\ cePage.alive
      BY <1>8 DEF CeApply
    <3>2. CeHasRow' <=> s.alive
      BY <1>r, <2>1 DEF CeHasRow, CeRowType, CeServerType
    <3> QED BY <1>r, <2>1, <3>1, <3>2 DEF CeSynced, CeServerType
  <2>3. CeKeepsFits
    BY <2>1, <2>2, CeServerStays
  <2>4. CeRowFits'
    <3> SUFFICES ASSUME s.alive PROVE CeFits(ceRow.version, ceRow.basis, ceRow.photo)'
      BY <2>2 DEF CeRowFits
    <3>1. s.version \in 1 .. ceServer.version /\ s.version # 0
      BY <1>r, <2>2
    <3>2. "lost" \notin ceHist' /\ s.photo # 0 => ceServer.photo # 0
      BY <2>1, <2>2 DEF CeSynced
    <3> QED BY <2>1, <2>2, <3>1, <3>2 DEF CeFits
  <2>5. CeContents'
    BY <1>0, <2>1, <2>2, <2>3, <2>4, CeContentsFrame DEF CeContents
  <2>6. CeSynced'
    BY <1>r, <2>1, <2>2 DEF CeSynced
  <2>7. CeOnePhoto'
    <3> SUFFICES ASSUME ceHist' \cap {"late", "lost"} = {} PROVE CeOnePhoto'
      BY DEF CeOnePhoto
    <3>1. CeHasRow' => ceRow'.photo = s.photo
      BY <2>1, <2>2
    <3>2. ASSUME NEW f \in CeEdits, CeFresh(f)' PROVE CePhotoSent(f)' = s.photo
      <4>1. CASE CeStores(f)
        BY <2>1, <2>2, <3>2, <4>1 DEF CeFresh, CeStores, CePhotoSent, CeContents, CeCallFits,
           CeFits
      <4>2. CASE CeSends(f) /\ ceCall[f].op = "update"
        BY <2>1, <2>2, <3>2, <4>2 DEF CeFresh, CeStores, CePhotoSent, CeContents, CeCallFits,
           CeFits
      <4> QED BY <2>2, <3>2, <4>1, <4>2 DEF CeFresh, CeStores, CeSends
    <3> QED BY <2>2, <3>1, <3>2 DEF CeOnePhoto
  <2>8. CeCached'
    <3>1. "crossed" \notin ceHist' => cePhoto.pc = "idle"
      BY <2>1
    <3>2. ASSUME ceHist' \cap {"crossed", "late", "lost"} = {}, CeHasRow', ceRow'.key PROVE FALSE
      <4>1. CeHasRow /\ ceRow.key /\ s.photo = 0 /\ ceHist \cap {"crossed", "late", "lost"} = {}
        BY <2>1, <2>2, <3>2
      <4>2. ceRow.photo # 0
        BY <4>1 DEF CeCached
      <4> QED BY <2>2, <4>1, <4>2 DEF CeContents, CeRowFits, CeFits
    <3> QED BY <2>2, <3>1, <3>2 DEF CeCached
  <2> QED BY <1>0, <2>5, <2>6, <2>7, <2>8
<1>9. ASSUME CeGetPhoto \/ CePutPhoto \/ CeKeyPhoto PROVE CeInv'
  <2>1. /\ UNCHANGED <<ceServer, ceCall, ceCursor, cePage>>
        /\ ceHist \subseteq ceHist' /\ ceHist' \subseteq ceHist \cup {"crossed"}
    BY <1>9 DEF CeGetPhoto, CePutPhoto, CeKeyPhoto, CePhotoRest, CePhotoOfGraph, CePhotoOfUrl,
       CePhotoOfVcard, CeFetched
  <2>2. CeHasRow' <=> CeHasRow
    BY <1>r, <1>9, CeKeyPhotoEffect DEF CeGetPhoto, CePutPhoto, CeHasRow, CeRowType
  <2>3. CeHasRow => /\ ceRow'.alive /\ ceRow.alive /\ ceRow'.version = ceRow.version
                    /\ ceRow'.basis = ceRow.basis
                    /\ ceRow'.photo = ceRow.photo
                         /\ ceRow'.photoVersion \in {-1, ceRow.photoVersion}
    BY <1>9, <2>2, CeKeyPhotoEffect DEF CeGetPhoto, CePutPhoto, CeHasRow
  <2>4. CeKeepsFits
    BY <2>1, CeServerStays
  <2>5. CeRowFits'
    BY <2>2, <2>3, <2>4, CeRowStays DEF CeContents, CeRowFits
  <2>6. CeContents'
    BY <1>0, <2>1, <2>4, <2>5, CeContentsFrame DEF CeContents
  <2>7. CeSynced'
    BY <1>r, <2>1, <2>2, <2>3 DEF CeSynced
  <2>8. CeOnePhoto'
    BY <2>1, <2>2, <2>3 DEF CeOnePhoto, CeFresh, CeStores, CePhotoSent
  <2>9. CeCached'
    <3>1. CASE CeGetPhoto
      <4>1. /\ cePhoto'.pc = "put" /\ cePhoto'.bytes # 0 /\ CeHasRow /\ ~ceRow.key
                 /\ UNCHANGED ceRow
            /\ "crossed" \notin ceHist' => cePhoto'.bytes = ceRow.photo
        BY <3>1 DEF CeGetPhoto, CePhotoOfGraph, CePhotoOfUrl, CePhotoOfVcard, CeFetched
      <4> QED BY <2>2, <4>1 DEF CeCached
    <3>2. CASE CePutPhoto
      <4>1. /\ cePhoto.pc = "put" /\ cePhoto'.pc = "update" /\ cePhoto'.bytes = cePhoto.bytes
            /\ ceBlob' = cePhoto.bytes /\ UNCHANGED <<ceRow, ceHist>>
        BY <3>2 DEF CePutPhoto, CeTypes, CePhotoType
      <4> QED BY <2>2, <4>1 DEF CeCached
    <3>3. CASE CeKeyPhoto
      <4>1. cePhoto.pc = "update" /\ cePhoto'.pc = "idle" /\ UNCHANGED <<ceBlob, ceHist>>
        BY <3>3 DEF CeKeyPhoto, CeNoPhoto
      <4> QED BY <2>2, <2>3, <4>1 DEF CeCached
    <3> QED BY <1>9, <3>1, <3>2, <3>3
  <2> QED BY <1>0, <2>6, <2>7, <2>8, <2>9
<1>10. CASE UNCHANGED ceVars
  BY <1>0, <1>10 DEF ceVars, CeContents, CeRowFits, CeCallFits, CeFits, CeSends, CeStores,
     CePhotoSent, CeSynced, CeOnePhoto, CeFresh, CeCached, CeHasRow
<1> QED BY <1>1, <1>2, <1>3, <1>4, <1>5, <1>6, <1>7, <1>8, <1>9, <1>10 DEF CeNext

\* Nothing is stored, sent or cached at first.
LEMMA CeInitInv == CeInit => CeInv
<1> SUFFICES ASSUME CeInit PROVE CeInv
  OBVIOUS
<1>1. /\ ceServer \in CeServerType /\ ceServer.version = 0 /\ ~ceServer.alive /\ ceServer.photo = 0
      /\ ceRow = CeNone /\ ~CeHasRow /\ ceBlob = 0 /\ ceCursor = 0 /\ cePage = CeNone
           /\ ~cePage.alive
      /\ cePhoto = CeNoPhoto /\ ceHist = {} /\ ceKind \in {"carddav", "google", "graph"}
  BY DEF CeInit, CeServerType, CeNone, CeHasRow
<1>2. CeQuiet \in CeCallType /\ CeQuiet.pc = "idle" /\ CeNoPhoto \in CePhotoType
      /\ CeNoPhoto.pc = "idle"
  BY DEF CeQuiet, CeCallType, CeNoPhoto, CePhotoType
<1>3. ceCall \in [CeEdits -> CeCallType] /\ \A e \in CeEdits : ceCall[e] = CeQuiet
  BY <1>2 DEF CeInit
<1>4. CeTypes
  BY <1>1, <1>2, <1>3 DEF CeTypes
<1>5. CeContents
  BY <1>1, <1>2, <1>3 DEF CeContents, CeRowFits, CeCallFits, CeSends, CeStores
<1>6. CeSynced /\ CeCached
  BY <1>1, <1>2 DEF CeSynced, CeCached
<1>7. CeOnePhoto
  BY <1>1, <1>2, <1>3 DEF CeOnePhoto, CeFresh, CeStores
<1> QED BY <1>4, <1>5, <1>6, <1>7 DEF CeInv

\* What versions, cursors and photo versions keep of a contact: a change is overwritten
\* unseen only after an answer without a version; a row under the current version has its
\* content; past every change the row is the server's, unless an edit stored late; and the
\* cached photo of such a row is the provider's (update_contact, upsert_contact, get_photo).
THEOREM ContactKept == CeSpec => []CeContactKept
<1>1. CeInv => CeContactKept
  <2> SUFFICES ASSUME CeInv PROVE CeContactKept
    OBVIOUS
  <2>1. CeLostNeedsBlind /\ CeVersionTells
    BY DEF CeInv, CeContents, CeLostNeedsBlind, CeVersionTells, CeRowFits, CeFits
  <2>2. CeStaleNeedsLate
    BY DEF CeInv, CeSynced, CeStaleNeedsLate
  <2>3. CePhotoCurrent
    BY DEF CeInv, CeContents, CeRowFits, CeFits, CeCached, CePhotoCurrent
  <2> QED BY <2>1, <2>2, <2>3 DEF CeContactKept
<1> QED BY <1>1, CeInitInv, CeStep, PTL DEF CeSpec

-----------------------------------------------------------------------------
(* Login sessions. *)

\* A row of refresh_tokens, and a tab's request.
AuRowType == [revoked : BOOLEAN, replaced : Nat, expires : Nat]
AuTabType == [pc : {"idle", "mark", "issue", "answer"}, tok : Nat]

\* The types; a token replaced at some time has been revoked, not in the future.
AuTypes ==
    /\ auNow \in 0 .. AuMaxNow /\ auUsed \in 0 .. AuMaxTokens /\ auCookie \in 0 .. auUsed
    /\ auRow \in [AuTokens -> AuRowType] /\ auTab \in [AuTabs -> AuTabType]
    /\ auLost \in BOOLEAN
    /\ \A k \in AuTokens : auRow[k].replaced # AuNever => auRow[k].revoked
         /\ auRow[k].replaced <= auNow
    /\ \A t \in AuTabs : /\ auTab[t].pc = "idle" => auTab[t] = AuIdle
                         /\ auTab[t].pc # "idle" => auTab[t].tok \in 1 .. auUsed

\* A token that logged out unused was revoked without a time of replacement, and no
\* request rotates it.
AuSentOut ==
    /\ \A k \in auOut : k \in AuTokens /\ auRow[k].revoked /\ auRow[k].replaced = AuNever
    /\ auOut \subseteq 1 .. auUsed
    /\ AuLogoutEnds

\* While no answer was lost, a token in an answer is nowhere else and good, and only a
\* request that has not been answered yet leaves a replaced token in the cookie.
AuFresh ==
    ~auLost =>
        /\ \A t \in AuTabs : auTab[t].pc = "answer" =>
             /\ ~auRow[auTab[t].tok].revoked /\ auTab[t].tok # auCookie
             /\ \A u \in AuTabs : u # t => auTab[u].tok # auTab[t].tok
        /\ auCookie # AuNone /\ auRow[auCookie].revoked =>
             AuInFlight # {} /\ auRow[auCookie].replaced # AuNever

AuInv == AuTypes /\ AuSentOut /\ AuFresh

\* A token may be refused at the end of the day on which it expires, not before.
LEMMA AuSameDay ==
    ASSUME NEW now \in Nat, NEW expires \in Nat, expires \div AuDay >= now \div AuDay
    PROVE  now < expires + AuDay
<1>1. AuDay \in Nat /\ AuDay > 0
  BY AuAssumption
<1> QED BY <1>1

\* No token was issued at first.
LEMMA AuInitInv == AuInit => AuInv
<1> SUFFICES ASSUME AuInit PROVE AuInv
  OBVIOUS
<1>1. /\ auRow \in [AuTokens -> AuRowType]
      /\ \A k \in AuTokens : ~auRow[k].revoked /\ auRow[k].replaced = AuNever
  BY AuAssumption DEF AuInit, AuIssued, AuRowType, AuNever
<1>2. /\ auTab \in [AuTabs -> AuTabType]
      /\ \A t \in AuTabs : auTab[t] = AuIdle /\ auTab[t].pc = "idle"
  BY DEF AuInit, AuIdle, AuTabType, AuNone
<1>3. /\ auNow = 0 /\ auUsed = 0 /\ auCookie = AuNone /\ auOut = {} /\ auLost = FALSE
  BY DEF AuInit
<1>4. AuTypes
  <2>1. auNow \in 0 .. AuMaxNow /\ auUsed \in 0 .. AuMaxTokens /\ auCookie \in 0 .. auUsed
    BY AuAssumption, <1>3 DEF AuNone
  <2> QED BY <1>1, <1>2, <1>3, <2>1 DEF AuTypes
<1>5. AuSentOut /\ AuFresh
  BY <1>2, <1>3 DEF AuSentOut, AuLogoutEnds, AuFresh
<1> QED BY <1>4, <1>5 DEF AuInv

\* What issuing a token for a tab does to rows and tabs.
LEMMA AuInserted ==
    ASSUME AuTypes, NEW t \in AuTabs, AuInsert(t)
    PROVE  /\ auUsed' = auUsed + 1 /\ auUsed' \in 1 .. AuMaxTokens
           /\ auRow' \in [AuTokens -> AuRowType]
           /\ \A k \in AuTokens : k # auUsed' => auRow'[k] = auRow[k]
           /\ ~auRow'[auUsed'].revoked /\ auRow'[auUsed'].replaced = AuNever
           /\ auTab' \in [AuTabs -> AuTabType]
           /\ \A u \in AuTabs : u # t => auTab'[u] = auTab[u]
           /\ auTab'[t].pc = "answer" /\ auTab'[t].tok = auUsed'
<1>1. auUsed + 1 \in AuTokens /\ AuIssued(auNow + AuTtl) \in AuRowType
  BY AuAssumption DEF AuInsert, AuTypes, AuTokens, AuIssued, AuRowType, AuNever
<1>2. [pc |-> "answer", tok |-> auUsed + 1] \in AuTabType
  BY DEF AuTypes, AuTabType
<1> QED BY <1>1, <1>2 DEF AuInsert, AuGoes, AuTypes, AuTokens, AuIssued

\* What moving a tab does to the tabs.
LEMMA AuGone ==
    ASSUME AuTypes, NEW t \in AuTabs, NEW pc \in {"idle", "mark", "issue", "answer"},
           NEW tok \in Nat, AuGoes(t, pc, tok)
    PROVE  /\ auTab' \in [AuTabs -> AuTabType]
           /\ \A u \in AuTabs : u # t => auTab'[u] = auTab[u]
           /\ auTab'[t].pc = pc /\ auTab'[t].tok = tok
           /\ pc = "idle" /\ tok = AuNone => auTab'[t] = AuIdle
BY DEF AuGoes, AuTypes, AuTabType, AuIdle, AuNone

\* Every step of a tab, a logout, a restored cookie and the clock keeps the invariant.
LEMMA AuStep == ASSUME AuInv, [AuNext]_auVars PROVE AuInv'
<1> USE AuAssumption DEF AuInv
<1>t. \A t \in AuTabs : auTab[t] # AuIdle <=> auTab[t].pc # "idle"
  BY DEF AuTypes, AuIdle
<1>1. ASSUME NEW t \in AuTabs, AuInsert(t), UNCHANGED <<auNow, auCookie, auOut, auLeft, auLost>>,
             auTab[t].pc \in {"idle", "issue"}
      PROVE  AuInv'
  <2> USE <1>1, AuInserted
  <2>1. AuTypes'
    BY DEF AuTypes, AuTokens, AuIdle, AuNever
  <2>2. AuSentOut'
    BY DEF AuSentOut, AuTypes, AuTokens, AuLogoutEnds
  <2>3. AuFresh'
    <3> SUFFICES ASSUME ~auLost PROVE AuFresh'
      BY DEF AuFresh
    <3>1. auCookie # auUsed' /\ (auCookie # AuNone => auCookie \in AuTokens)
      BY DEF AuTypes, AuTokens, AuNone
    <3>2. t \in AuInFlight'
      BY DEF AuInFlight, AuIdle
    <3>3. auCookie # AuNone => auRow'[auCookie] = auRow[auCookie]
      BY <3>1
    <3>4. \A u \in AuTabs : u # t => auTab[u].tok # auUsed'
          /\ (auTab[u].pc = "answer" => auTab[u].tok \in AuTokens)
      BY DEF AuTypes, AuTokens, AuIdle, AuNone
    <3> QED BY <3>1, <3>2, <3>3, <3>4 DEF AuFresh, AuTypes, AuTokens, AuNone
  <2> QED BY <2>1, <2>2, <2>3
<1>2. ASSUME NEW t \in AuTabs, AuLogin(t) PROVE AuInv'
  BY <1>2, <1>1 DEF AuLogin, AuIdle
<1>3. ASSUME NEW t \in AuTabs, AuIssue(t) PROVE AuInv'
  BY <1>3, <1>1 DEF AuIssue
<1>4. ASSUME NEW t \in AuTabs, AuPresent(t) PROVE AuInv'
  <2>0. auCookie \in 1 .. auUsed /\ auCookie \in AuTokens /\ auCookie \in Nat
    BY <1>4 DEF AuPresent, AuTypes, AuNone, AuTokens
  <2>1. PICK pc \in {"mark", "issue"} : /\ AuGoes(t, pc, auCookie)
           /\ (pc = "mark" => ~auRow[auCookie].revoked)
                /\ (pc = "issue" => auRow[auCookie].replaced = auNow)
    BY <1>4 DEF AuPresent, AuInGrace
  <2>2. /\ auTab' \in [AuTabs -> AuTabType]
        /\ \A u \in AuTabs : u # t => auTab'[u] = auTab[u]
        /\ auTab'[t].pc = pc /\ auTab'[t].tok = auCookie
    BY <2>0, <2>1, AuGone
  <2>3. UNCHANGED <<auNow, auRow, auUsed, auCookie, auOut, auLeft, auLost>>
    BY <1>4 DEF AuPresent
  <2>4. AuTypes'
    BY <2>0, <2>2, <2>3 DEF AuTypes, AuIdle, AuNever
  <2>5. auCookie \notin auOut
    BY <2>1, AuAssumption DEF AuSentOut, AuTypes, AuNever
  <2>6. AuSentOut'
    BY <2>2, <2>3, <2>5 DEF AuSentOut, AuLogoutEnds
  <2>7. AuFresh'
    <3>1. t \in AuInFlight'
      BY <2>2 DEF AuInFlight, AuIdle
    <3> QED BY <2>2, <2>3, <3>1 DEF AuFresh, AuNever
  <2> QED BY <2>4, <2>6, <2>7
<1>5. ASSUME NEW t \in AuTabs, AuMark(t) PROVE AuInv'
  <2> DEFINE k == auTab[t].tok
  <2>0. k \in 1 .. auUsed /\ k \in AuTokens /\ k \in Nat /\ auTab[t].pc = "mark"
    BY <1>5 DEF AuMark, AuTypes, AuTokens
  <2>1. /\ auTab' \in [AuTabs -> AuTabType]
        /\ \A u \in AuTabs : u # t => auTab'[u] = auTab[u]
        /\ auTab'[t].pc = "issue" /\ auTab'[t].tok = k
    BY <1>5, <2>0, AuGone DEF AuMark
  <2>2. UNCHANGED <<auNow, auUsed, auCookie, auOut, auLeft, auLost>>
    BY <1>5 DEF AuMark
  <2>3. /\ auRow' \in [AuTokens -> AuRowType] /\ \A j \in AuTokens : j # k => auRow'[j] = auRow[j]
        /\ auRow'[k].revoked /\ auRow'[k].replaced = auNow
    <3> DEFINE r == [auRow[k] EXCEPT !.revoked = TRUE, !.replaced = auNow]
    <3>0. auRow[k] \in AuRowType /\ auNow \in Nat
      BY <2>0 DEF AuTypes
    <3>1. r \in AuRowType /\ r.revoked /\ r.replaced = auNow
      BY <3>0 DEF AuRowType
    <3>2. auRow' = [auRow EXCEPT ![k] = r]
      BY <1>5 DEF AuMark, AuTypes, AuRowType
    <3> HIDE DEF r
    <3> QED BY <2>0, <3>1, <3>2 DEF AuTypes
  <2>4. AuTypes'
    BY <2>0, <2>1, <2>2, <2>3 DEF AuTypes, AuIdle, AuNever
  <2>5. AuSentOut'
    BY <2>0, <2>1, <2>2, <2>3 DEF AuSentOut, AuLogoutEnds
  <2>6. AuFresh'
    <3> SUFFICES ASSUME ~auLost PROVE AuFresh'
      BY <2>2 DEF AuFresh
    <3>1. t \in AuInFlight'
      BY <2>1 DEF AuInFlight, AuIdle
    <3>2. \A u \in AuTabs : auTab[u].pc = "answer" => u # t /\ auTab[u].tok # k
          /\ auTab[u].tok \in AuTokens
      BY <2>0 DEF AuFresh, AuTypes, AuTokens
    <3>3. auNow # AuNever
      BY AuAssumption DEF AuTypes, AuNever
    <3>4. auCookie # AuNone => auCookie \in AuTokens
      BY DEF AuTypes, AuTokens, AuNone
    <3> QED BY <2>0, <2>1, <2>2, <2>3, <3>1, <3>2, <3>3, <3>4 DEF AuFresh, AuNever
  <2> QED BY <2>4, <2>5, <2>6
<1>6. ASSUME NEW t \in AuTabs, AuAnswer(t) PROVE AuInv'
  <2>0. auTab[t].pc = "answer" /\ auCookie' = auTab[t].tok /\ auTab[t].tok \in 1 .. auUsed
    BY <1>6 DEF AuAnswer, AuTypes
  <2>1. /\ auTab' \in [AuTabs -> AuTabType]
        /\ \A u \in AuTabs : u # t => auTab'[u] = auTab[u]
        /\ auTab'[t] = AuIdle /\ auTab'[t].pc = "idle"
    BY <1>6, AuGone DEF AuAnswer, AuNone
  <2>2. UNCHANGED <<auNow, auRow, auUsed, auOut, auLeft, auLost>>
    BY <1>6 DEF AuAnswer
  <2>3. AuTypes'
    BY <2>0, <2>1, <2>2 DEF AuTypes, AuIdle, AuNever
  <2>4. AuSentOut'
    BY <2>1, <2>2 DEF AuSentOut, AuLogoutEnds
  <2>5. AuFresh'
    <3> SUFFICES ASSUME ~auLost PROVE AuFresh'
      BY <2>2 DEF AuFresh
    <3>1. ~auRow'[auCookie'].revoked
      BY <2>0, <2>2 DEF AuFresh
    <3>2. ASSUME NEW u \in AuTabs, auTab'[u].pc = "answer"
          PROVE  /\ ~auRow'[auTab'[u].tok].revoked /\ auTab'[u].tok # auCookie'
                 /\ \A v \in AuTabs : v # u => auTab'[v].tok # auTab'[u].tok
      <4>1. u # t /\ auTab'[u] = auTab[u] /\ auTab[u].tok \in 1 .. auUsed
        BY <2>1, <3>2 DEF AuTypes
      <4>2. auTab'[t].tok = 0
        BY <2>1 DEF AuIdle, AuNone
      <4> QED BY <2>0, <2>1, <2>2, <3>2, <4>1, <4>2 DEF AuFresh
    <3> QED BY <3>1, <3>2 DEF AuFresh
  <2> QED BY <2>3, <2>4, <2>5
<1>7. ASSUME NEW t \in AuTabs, AuDropped(t) PROVE AuInv'
  <2>1. /\ auTab' \in [AuTabs -> AuTabType]
        /\ \A u \in AuTabs : u # t => auTab'[u] = auTab[u]
        /\ auTab'[t] = AuIdle /\ auTab'[t].pc = "idle"
    BY <1>7, AuGone DEF AuDropped, AuNone
  <2>2. UNCHANGED <<auNow, auRow, auUsed, auCookie, auOut, auLeft>> /\ auLost'
    BY <1>7 DEF AuDropped
  <2>3. AuTypes'
    BY <2>1, <2>2 DEF AuTypes, AuIdle, AuNever
  <2>4. AuSentOut'
    BY <2>1, <2>2 DEF AuSentOut, AuLogoutEnds
  <2> QED BY <2>2, <2>3, <2>4 DEF AuFresh
<1>8. ASSUME NEW carried \in BOOLEAN, AuLogout(carried) PROVE AuInv'
  <2> DEFINE unused == AuInFlight = {} /\ auRow[auCookie].replaced = AuNever
  <2>0. /\ auCookie \in AuTokens /\ auCookie \in 1 .. auUsed /\ auCookie' = AuNone
        /\ UNCHANGED <<auNow, auUsed, auTab>>
        /\ auLost' = (auLost \/ AuInFlight # {})
        /\ auOut' = IF carried /\ unused THEN auOut \cup {auCookie} ELSE auOut
    BY <1>8 DEF AuLogout, AuTypes, AuTokens, AuNone
  <2>1. /\ auRow' \in [AuTokens -> AuRowType] /\ \A j \in AuTokens : j # auCookie
             => auRow'[j] = auRow[j]
        /\ auRow'[auCookie].replaced = auRow[auCookie].replaced
        /\ auRow[auCookie].revoked \/ carried => auRow'[auCookie].revoked
    <3> DEFINE r == [auRow[auCookie] EXCEPT !.revoked = TRUE]
    <3>1. r \in AuRowType /\ r.revoked /\ r.replaced = auRow[auCookie].replaced
      BY <2>0 DEF AuTypes, AuRowType
    <3>2. auRow' = IF carried THEN [auRow EXCEPT ![auCookie] = r] ELSE auRow
      BY <1>8 DEF AuLogout, AuRevoked
    <3> HIDE DEF r
    <3> QED BY <2>0, <3>1, <3>2 DEF AuTypes
  <2>2. AuTypes'
    BY <2>0, <2>1 DEF AuTypes, AuIdle, AuNever, AuNone
  <2>3. AuSentOut'
    <3>1. CASE carried /\ unused
      <4>1. \A u \in AuTabs : auTab[u].pc = "idle"
        BY <3>1, <1>t DEF AuInFlight
      <4>2. auOut' = auOut \cup {auCookie}
        BY <2>0, <3>1
      <4> QED BY <2>0, <2>1, <3>1, <4>1, <4>2 DEF AuSentOut, AuLogoutEnds, AuNever
    <3>2. CASE ~(carried /\ unused)
      BY <2>0, <2>1, <3>2 DEF AuSentOut, AuLogoutEnds, AuNever
    <3> QED BY <3>1, <3>2
  <2>4. AuFresh'
    <3> SUFFICES ASSUME ~auLost' PROVE AuFresh'
      BY DEF AuFresh
    <3>1. \A u \in AuTabs : auTab'[u].pc = "idle"
      BY <2>0, <1>t DEF AuInFlight, AuTypes
    <3> QED BY <2>0, <3>1 DEF AuFresh
  <2> QED BY <2>2, <2>3, <2>4
<1>9. ASSUME NEW k \in AuTokens, AuRestore(k) PROVE AuInv'
  <2>1. AuTypes'
    BY <1>9 DEF AuRestore, AuTypes, AuTokens, AuIdle, AuNever
  <2>2. AuSentOut'
    BY <1>9 DEF AuRestore, AuSentOut, AuLogoutEnds, AuNever
  <2> QED BY <1>9, <2>1, <2>2 DEF AuRestore, AuFresh
<1>10. CASE AuTick
  <2>1. AuTypes'
    BY <1>10, AuAssumption DEF AuTick, AuTypes, AuIdle, AuNever, AuRowType, AuTokens
  <2>2. AuSentOut' /\ AuFresh'
    BY <1>10 DEF AuTick, AuSentOut, AuLogoutEnds, AuFresh, AuInFlight, AuNever
  <2> QED BY <2>1, <2>2
<1>11. CASE UNCHANGED auVars
  BY <1>11 DEF auVars, AuTypes, AuSentOut, AuLogoutEnds, AuFresh, AuInFlight, AuNever
<1> QED
  BY <1>2, <1>3, <1>4, <1>5, <1>6, <1>7, <1>8, <1>9, <1>10, <1>11 DEF AuNext

\* What the invariant says of refused cookies and of logouts.
LEMMA AuInvKeeps == AuInv => AuTabsStayIn /\ AuLogoutEnds
<1> SUFFICES ASSUME AuInv PROVE AuTabsStayIn
  BY DEF AuInv, AuSentOut
<1> SUFFICES ASSUME ~auLost, AuRefused, AuUnexpired(auCookie)
             PROVE  AuInFlight # {} /\ auRow[auCookie].replaced < auNow
  BY DEF AuTabsStayIn
<1>1. /\ auCookie # AuNone /\ auCookie \in AuTokens /\ auRow[auCookie].revoked
      /\ auRow[auCookie].replaced # auNow
  BY AuAssumption DEF AuInv, AuTypes, AuRefused, AuInGrace, AuNone, AuTokens
<1> QED BY <1>1 DEF AuInv, AuTypes, AuFresh, AuRowType

\* Whatever tabs refresh at once: for every number of tabs and tokens, while no answer
\* was lost a refresh is refused only after expiry, a logout or the grace; a token that
\* logged out unused is exchanged never again; and no token outlives the last day of its
\* session (auth.rs:156, refresh; auth.rs:204, logout).
THEOREM SessionsEnd == AuSpec => AuSessionsEnd
<1>1. AuInv /\ [AuNext]_auVars => AuInv'
  BY AuStep
<1>2. AuInv /\ [AuNext]_auVars
      => [\A t \in AuTabs : AuPresent(t) => auNow < auRow[auCookie].expires + AuDay]_auVars
  <2> SUFFICES ASSUME AuInv, NEW t \in AuTabs, AuPresent(t)
               PROVE  auNow < auRow[auCookie].expires + AuDay
    OBVIOUS
  <2>1. auCookie \in AuTokens /\ auNow \in Nat /\ auRow[auCookie].expires \in Nat
    BY AuAssumption DEF AuInv, AuTypes, AuPresent, AuTokens, AuNone, AuRowType
  <2>2. auRow[auCookie].expires \div AuDay >= auNow \div AuDay
    BY DEF AuPresent, AuUnexpired
  <2> QED BY <2>1, <2>2, AuSameDay
<1> QED BY <1>1, <1>2, AuInitInv, AuInvKeeps, PTL DEF AuSpec, AuSessionsEnd, AuExpires

-----------------------------------------------------------------------------
(* DAV accounts: copies of rows (DvCopies) are what a merge works on, so   *)
(* that an edit is safe whoever overlaps; without an overlap DvUnraced says*)
(* what a current tag tells of the listing in hand (DvFreshOf), of the rows*)
(* merged so far (DvMergedOf) and of those to come (DvAwaitedOf).          *)
\* Calendars, events as pulled, rows and requests, field by field.
DvIds == DvCalendarIds \cup {Min(DvCalendarIds \ I) : I \in SUBSET DvCalendarIds}
DvCalType == [id : DvIds, guess : BOOLEAN, ctag : Nat]
DvEventType == [uid : DvUids, at : Nat]
DvRowType ==
    [id : Nat, cal : DvIds, uid : DvUids, at : Nat, href : BOOLEAN, dirty : BOOLEAN,
     deleted : BOOLEAN, mine : BOOLEAN]
DvBefore == {"idle", "contacts", "clear", "cards", "calendars", "discover", "next"}
DvMerging == {"down", "up", "deleted", "pushed"}
DvSyncType ==
    [pc : DvBefore \cup {"pull", "merge"} \cup DvMerging, book : SUBSET DvCards,
     cals : SUBSET DvCalType, tag : Nat, down : SUBSET DvEventType, there : SUBSET DvUids,
     local : SUBSET DvRowType, at : Nat]

\* The types; no tag is newer than the collection's.
DvTypes ==
    /\ dvServer \in [DvUids -> [live : BOOLEAN, at : Nat]] /\ dvTag \in Nat \ {0}
    /\ dvRange \subseteq DvUids /\ dvCals \subseteq DvCalType /\ dvRows \subseteq DvRowType
    /\ dvLast \in Nat /\ dvSync \in [DvSyncs -> DvSyncType] /\ dvEdited \subseteq DvUids
    /\ dvHist \subseteq {"raced", "cut"}
    /\ \A c \in dvCals : c.ctag <= dvTag
    /\ \A s \in DvSyncs : dvSync[s].tag <= dvTag

\* What a place says of the fields.
DvPlaceOf(s) ==
    /\ dvSync[s].pc = "idle" => dvSync[s] = DvIdle
    /\ dvSync[s].pc \in {"pull", "merge"} \cup DvMerging => dvSync[s].cals # {}
    /\ dvSync[s].pc \notin DvMerging => dvSync[s].local = {}
    /\ dvSync[s].pc \notin {"merge", "down"} => dvSync[s].down = {}
    /\ dvSync[s].pc = "deleted" => dvSync[s].local # {} /\ DvNextRow(s).deleted
    /\ dvSync[s].pc = "pushed" =>
         dvSync[s].local # {} /\ DvNextRow(s).dirty /\ ~DvNextRow(s).deleted

DvPlaces == \A s \in DvSyncs : DvPlaceOf(s)

\* Rows have ids of their own.  A copy of a row still names its event, and is the row
\* while that is dirty, whoever else is merging; and an edit waits in such a row until
\* it has been pushed.
DvCopyOf(s) ==
    \A l \in dvSync[s].local :
      /\ l.id <= dvLast
      /\ \A r \in dvRows : l.id = r.id =>
           l.uid = r.uid /\ l.cal = r.cal /\ l.deleted = r.deleted /\ (r.dirty => l = r)

DvCopies ==
    /\ \A r \in dvRows : r.id <= dvLast /\ (r.mine => ~r.deleted) /\ (r.deleted => r.href)
    /\ \A r, q \in dvRows : r.id = q.id => r = q
    /\ \A s \in DvSyncs :
         DvCopyOf(s)
             /\ (dvSync[s].pc = "pushed" /\ DvNextRow(s).mine => DvNextRow(s).uid \notin dvEdited)

\* Without an overlap there is one request and one calendar, which is that of the rows.
DvAlone ==
    /\ \A s, t \in DvSyncs : dvSync[s].pc # "idle" /\ dvSync[t].pc # "idle" => s = t
    /\ \A c, d \in dvCals : c = d
    /\ \A r \in dvRows : \E c \in dvCals : c.id = r.cal
    /\ \A s \in DvSyncs : dvSync[s].cals \subseteq dvCals
         /\ (dvSync[s].pc = "discover" => dvCals = {})

\* The contacts are those fetched, but for what a request is about to insert.
DvBookOf(s) ==
    /\ dvSync[s].pc = "clear" => dvFetched = dvSync[s].book
    /\ dvSync[s].pc = "cards" => dvFetched = dvContacts \cup dvSync[s].book
    /\ dvSync[s].pc \notin {"clear", "cards"} => dvContacts = dvFetched

DvBooks ==
    IF \E s \in DvSyncs : dvSync[s].pc # "idle"
      THEN \A s \in DvSyncs : dvSync[s].pc # "idle" => DvBookOf(s)
      ELSE dvContacts = dvFetched

\* Nobody knows a tag that the last change has made old: while a stored ctag, or the one
\* a request will store, is the collection's, what was pulled is what the server has.
DvCurrent(s) == dvSync[s].tag = dvTag \/ \E c \in dvCals : c.ctag = dvTag
DvSeen(u) == dvServer[u].live /\ u \in dvRange
DvFreshOf(s) ==
    dvSync[s].pc \in {"merge"} \cup DvMerging /\ DvCurrent(s) =>
      /\ \A u \in DvUids : u \in dvSync[s].there <=> DvSeen(u)
      /\ \A e \in dvSync[s].down : DvSeen(e.uid) /\ e.at = dvServer[e.uid].at
      /\ dvSync[s].pc = "deleted" => ~DvSeen(DvNextRow(s).uid)
      /\ dvSync[s].pc # "pushed"

\* An event as it has to be in the calendar.
DvStored(c, u) ==
    \E r \in dvRows : r.cal = c.id /\ r.uid = u /\ (r.at = dvServer[u].at \/ r.dirty \/ r.deleted)
DvVouched == \A c \in dvCals, u \in DvUids : c.ctag = dvTag /\ DvSeen(u) => DvStored(c, u)

\* A merge whose tag is current has stored what it no longer has to take over.
DvMergedOf(s) ==
    dvSync[s].pc \in DvMerging /\ dvSync[s].tag = dvTag =>
      \A u \in DvUids : DvSeen(u) =>
        (\E e \in dvSync[s].down : e.uid = u) \/ DvStored(DvCalendar(s), u)
DvPulledOf(s) ==
    dvSync[s].pc = "merge" => \A u \in dvSync[s].there : \E e \in dvSync[s].down : e.uid = u

\* What was pulled has one entry per event; an event still to be taken over has a row
\* only if that was copied, unchanged.
DvAwaitedOf(s) ==
    /\ \A d, e \in dvSync[s].down : d.uid = e.uid => d = e
    /\ \A l \in dvSync[s].local : l.dirty \/ l.deleted => l \in dvRows
    /\ dvSync[s].pc \in DvMerging => \A e \in dvSync[s].down :
         /\ \A r \in dvRows : r.uid = e.uid => r \in dvSync[s].local
         /\ \A l \in dvSync[s].local : l.uid = e.uid => l \in dvRows

\* A row without ETag that is to be pushed is of an event the server does not have.
DvUnknown ==
    \A r \in dvRows : r.at = DvNull /\ (r.dirty \/ r.deleted) =>
      \/ ~dvServer[r.uid].live /\ dvServer[r.uid].at = DvNull
      \/ \E s \in DvSyncs : dvSync[s].pc = "pushed" /\ DvNextRow(s).id = r.id

\* An event has one row.
DvSingle == \A q, r \in dvRows : q.uid = r.uid => q = r

\* What holds as long as requests have not overlapped.
DvUnraced ==
    /\ DvAlone /\ DvSingle /\ DvVouched
    /\ \A s \in DvSyncs : DvFreshOf(s) /\ DvMergedOf(s) /\ DvPulledOf(s) /\ DvAwaitedOf(s)

\* The inductive invariant.
DvInv ==
    /\ DvTypes /\ DvPlaces /\ DvCopies /\ DvEditsKept
    /\ "raced" \notin dvHist => DvUnraced
    /\ "raced" \notin dvHist /\ "cut" \notin dvHist => DvBooks /\ DvUnknown

-----------------------------------------------------------------------------
\* A request that did not move has the same calendar and the same row in hand.
LEMMA DvFrame ==
    ASSUME NEW s, NEW t
    PROVE  /\ dvSync'[t] = dvSync[t] => DvNextRow(t)' = DvNextRow(t)
                /\ DvCalendar(t)' = DvCalendar(t)
           /\ dvSync'[t].local = dvSync[t].local => DvNextRow(t)' = DvNextRow(t)
           /\ dvSync'[t].cals = dvSync[t].cals => DvCalendar(t)' = DvCalendar(t)
<1>1. ASSUME dvSync'[t].local = dvSync[t].local PROVE DvNextRow(t)' = DvNextRow(t)
  BY <1>1 DEF DvNextRow
<1>2. ASSUME dvSync'[t].cals = dvSync[t].cals PROVE DvCalendar(t)' = DvCalendar(t)
  BY <1>2 DEF DvCalendar
<1> QED BY <1>1, <1>2

\* The calendar and the row in hand are among those left.
LEMMA DvChosen ==
    ASSUME NEW s
    PROVE  /\ dvSync[s].cals # {} => DvCalendar(s) \in dvSync[s].cals
           /\ dvSync[s].local # {} => DvNextRow(s) \in dvSync[s].local
BY DEF DvCalendar, DvNextRow

\* A request not begun.
LEMMA DvIdleType == DvIdle \in DvSyncType
BY DEF DvIdle, DvSyncType, DvBefore, DvNull

\* A request after a calendar.
DvLeft(s) == [DvIdle EXCEPT !.pc = "next", !.cals = dvSync[s].cals \ {DvCalendar(s)}]
\* A request that leaves a calendar.
LEMMA DvLeavesOf ==
    ASSUME DvTypes, NEW s \in DvSyncs
    PROVE  /\ DvLeaves(s) = [dvSync EXCEPT ![s] = DvLeft(s)] /\ DvLeft(s) \in DvSyncType
           /\ DvLeft(s).pc = "next" /\ DvLeft(s).cals \subseteq dvSync[s].cals
           /\ DvLeft(s).local = {} /\ DvLeft(s).down = {} /\ DvLeft(s).tag = 0
<1>1. dvSync[s].cals \in SUBSET DvCalType BY DEF DvTypes, DvSyncType
<1> QED BY <1>1 DEF DvLeaves, DvLeft, DvIdle, DvSyncType, DvBefore, DvNull

\* A step outside a merge: nothing but the request and the contacts changes.
DvAway(s) ==
    /\ UNCHANGED <<dvServer, dvTag, dvRange, dvCals, dvRows, dvLast, dvEdited>>
    /\ dvSync' = [dvSync EXCEPT ![s] = dvSync'[s]]
    /\ dvSync'[s] \in DvSyncType
    /\ dvSync'[s].pc \in DvBefore \cup {"pull"}
    /\ dvSync'[s].pc = "idle" => dvSync'[s] = DvIdle
    /\ dvSync'[s].pc = "pull" => dvSync'[s].cals # {}
    /\ dvSync'[s].local = {} /\ dvSync'[s].down = {} /\ dvSync'[s].tag <= dvTag
    /\ dvSync'[s].cals \subseteq dvSync[s].cals \/ dvSync'[s].cals \subseteq dvCals
    /\ dvSync'[s].pc = "discover" => dvSync[s].pc = "discover" \/ dvCals = {}
    /\ dvHist \subseteq dvHist' /\ dvHist' \subseteq {"raced", "cut"}
    /\ \/ dvSync[s].pc # "idle" \/ "raced" \in dvHist'
       \/ \A t \in DvSyncs : dvSync[t].pc = "idle"
    /\ dvSync[s].pc = "pushed" => "cut" \in dvHist'

\* The steps that are of this kind.
DvGoesAway(s) ==
    \/ DvBegin(s) \/ DvFetchContacts(s) \/ DvClearContacts(s) \/ DvInsertContact(s)
    \/ DvListCalendars(s) \/ DvReadCtag(s) \/ DvMergeFails(s) \/ DvEnds(s)
    \/ DvPull(s) /\ dvSync'[s].pc # "merge"

\* What the steps outside a merge do to the request.
LEMMA DvAwayActions == ASSUME DvTypes, DvPlaces, NEW s \in DvSyncs, DvGoesAway(s) PROVE DvAway(s)
<1> DEFINE y == dvSync[s]
<1>0. y \in DvSyncType /\ y.tag <= dvTag /\ DvPlaceOf(s) /\ dvTag \in Nat \ {0}
      /\ dvSync \in [DvSyncs -> DvSyncType] /\ dvHist \subseteq {"raced", "cut"}
           /\ dvCals \subseteq DvCalType
  BY DEF DvTypes, DvPlaces
<1> USE DEF DvGoes, DvLocal, DvSame
<1>1. CASE DvBegin(s)
  <2>1. dvSync'[s] = [DvIdle EXCEPT !.pc = "contacts"]
        /\ dvSync' = [dvSync EXCEPT ![s] = dvSync'[s]]
    BY <1>1, <1>0 DEF DvBegin
  <2>2. dvSync[s].pc = "idle" BY <1>1 DEF DvBegin, DvIdle
  <2>3. "raced" \in dvHist' \/ \A t \in DvSyncs : dvSync[t].pc = "idle"
    BY <1>1 DEF DvBegin, DvIdle
  <2> QED BY <1>1, <1>0, <2>1, <2>2, <2>3 DEF DvBegin, DvAway, DvIdle, DvSyncType, DvBefore, DvNull
<1>2. CASE DvFetchContacts(s)
  <2>1. PICK book \in SUBSET DvCards, pc \in {"calendars", "clear"} :
          dvSync'[s] = [y EXCEPT !.pc = pc, !.book = book]
              /\ dvSync' = [dvSync EXCEPT ![s] = dvSync'[s]]
    <3>1. CASE DvGoes(s, "calendars")
      <4>1. y.book \in SUBSET DvCards BY <1>0 DEF DvSyncType
      <4>2. dvSync'[s] = [y EXCEPT !.pc = "calendars", !.book = y.book] BY <3>1, <1>0 DEF DvSyncType
      <4> QED BY <3>1, <1>0, <4>1, <4>2
    <3>2. CASE \E book \in SUBSET DvCards : dvSync' = [dvSync EXCEPT ![s].pc = "clear", ![s].book = book]
      BY <3>2, <1>0
    <3> QED BY <1>2, <3>1, <3>2 DEF DvFetchContacts
  <2> QED BY <1>2, <1>0, <2>1 DEF DvFetchContacts, DvAway, DvSyncType, DvBefore, DvPlaceOf,
      DvMerging
<1>3. CASE DvClearContacts(s)
  <2>1. dvSync'[s] = [y EXCEPT !.pc = "cards"] /\ dvSync' = [dvSync EXCEPT ![s] = dvSync'[s]]
    BY <1>3, <1>0 DEF DvClearContacts
  <2> QED BY <1>3, <1>0, <2>1 DEF DvClearContacts, DvAway, DvSyncType, DvBefore, DvPlaceOf,
      DvMerging
<1>4. CASE DvInsertContact(s)
  <2>1. PICK c : dvSync'[s] = [y EXCEPT !.book = @ \ {c}]
        /\ dvSync' = [dvSync EXCEPT ![s] = dvSync'[s]]
    BY <1>4, <1>0 DEF DvInsertContact
  <2> QED BY <1>4, <1>0, <2>1 DEF DvInsertContact, DvAway, DvSyncType, DvBefore, DvPlaceOf,
      DvMerging
<1>5. CASE DvListCalendars(s)
  <2>1. PICK pc \in {"discover", "next"} : dvSync'[s] = [y EXCEPT !.pc = pc, !.cals = dvCals]
            /\ dvSync' = [dvSync EXCEPT ![s] = dvSync'[s]] /\ (pc = "discover" => dvCals = {})
    <3>1. dvSync' = [dvSync EXCEPT ![s].pc = IF dvCals = {} THEN "discover" ELSE "next", ![s].cals = dvCals]
      BY <1>5 DEF DvListCalendars
    <3> QED BY <3>1, <1>0
  <2> QED BY <1>5, <1>0, <2>1 DEF DvListCalendars, DvAway, DvSyncType, DvBefore, DvPlaceOf,
      DvMerging
<1>6. CASE dvSync' = DvLeaves(s) /\ DvLocal /\ UNCHANGED <<dvCals, dvRows, dvLast, dvEdited>>
           /\ dvHist \subseteq dvHist' /\ dvHist' \subseteq {"raced", "cut"} /\ y.pc # "idle"
           /\ (y.pc = "pushed" => "cut" \in dvHist')
  BY <1>6, <1>0, DvLeavesOf DEF DvAway, DvBefore
<1>7. CASE DvReadCtag(s)
  <2>1. PICK tag \in {DvNull} \cup (IF DvCalendar(s).guess THEN {} ELSE {dvTag}) :
         dvSync' = IF tag # DvNull /\ tag = DvCalendar(s).ctag THEN DvLeaves(s)
                   ELSE [dvSync EXCEPT ![s].pc = "pull", ![s].tag = tag]
    BY <1>7 DEF DvReadCtag
  <2>2. CASE dvSync' = DvLeaves(s) BY <2>2, <1>6, <1>7, <1>0 DEF DvReadCtag
  <2>3. CASE dvSync' = [dvSync EXCEPT ![s].pc = "pull", ![s].tag = tag]
    <3>1. dvSync'[s] = [y EXCEPT !.pc = "pull", !.tag = tag]
          /\ dvSync' = [dvSync EXCEPT ![s] = dvSync'[s]]
      BY <2>3, <1>0
    <3>2. tag \in Nat /\ tag <= dvTag BY <1>0 DEF DvNull
    <3> QED BY <1>7, <1>0, <3>1, <3>2 DEF DvReadCtag, DvAway, DvSyncType, DvBefore, DvPlaceOf,
        DvMerging
  <2> QED BY <2>1, <2>2, <2>3
<1>8. CASE DvMergeFails(s)
  BY <1>8, <1>6, <1>0 DEF DvMergeFails
<1>9. CASE DvEnds(s)
  <2>1. dvSync[s].pc # "idle" BY <1>9, <1>0 DEF DvEnds, DvPlaceOf
  <2>2. dvSync'[s] = DvIdle /\ dvSync' = [dvSync EXCEPT ![s] = dvSync'[s]] BY <1>9, <1>0 DEF DvEnds
  <2> QED BY <1>9, <1>0, <2>1, <2>2, DvIdleType DEF DvEnds, DvAway, DvIdle, DvBefore, DvNull
<1>10. CASE DvPull(s) /\ dvSync'[s].pc # "merge"
  <2>1. dvSync' = DvLeaves(s)
    <3> DEFINE found == {[uid |-> u, at |-> dvServer[u].at] : u \in {v \in dvRange : dvServer[v].live}}
    <3> DEFINE there == {e.uid : e \in found}
    <3>1. CASE dvSync' = [dvSync EXCEPT ![s].pc = "merge", ![s].down = found, ![s].there = there]
      <4> HIDE DEF found, there
      <4>1. dvSync'[s].pc = "merge" BY <3>1, <1>0 DEF DvSyncType
      <4> QED BY <4>1, <1>10
    <3> QED BY <3>1, <1>10 DEF DvPull
  <2> QED BY <2>1, <1>10, <1>6, <1>0 DEF DvPull
<1> QED BY <1>1, <1>2, <1>3, <1>4, <1>5, <1>7, <1>8, <1>9, <1>10 DEF DvGoesAway

-----------------------------------------------------------------------------
\* Such a step keeps the types and the places,
LEMMA DvAwayTypes == ASSUME DvTypes, DvPlaces, NEW s \in DvSyncs, DvAway(s) PROVE DvTypes'
    /\ DvPlaces'
<1>1. DvTypes' BY DEF DvTypes, DvAway
<1>2. ASSUME NEW t \in DvSyncs PROVE DvPlaceOf(t)'
  <2>1. CASE t = s
    <3>1. dvSync'[t].pc \notin {"merge"} \cup DvMerging BY <2>1 DEF DvAway, DvBefore, DvMerging
    <3> QED BY <2>1, <3>1 DEF DvAway, DvPlaceOf, DvMerging
  <2>2. CASE t # s
    <3>1. dvSync'[t] = dvSync[t] BY <2>2 DEF DvAway, DvTypes
    <3> QED BY <3>1, DvFrame DEF DvPlaces, DvPlaceOf
  <2> QED BY <2>1, <2>2
<1> QED BY <1>1, <1>2 DEF DvPlaces

\* the rows and the edits,
LEMMA DvAwayCopies ==
    ASSUME DvTypes, DvCopies, DvEditsKept, NEW s \in DvSyncs, DvAway(s) PROVE DvCopies'
           /\ DvEditsKept'
<1>1. DvEditsKept' BY DEF DvEditsKept, DvAway
<1>2. ASSUME NEW t \in DvSyncs
      PROVE  DvCopyOf(t)'
             /\ (dvSync'[t].pc = "pushed" /\ DvNextRow(t)'.mine => DvNextRow(t)'.uid \notin dvEdited')
  <2>1. CASE t = s BY <2>1 DEF DvAway, DvBefore, DvCopyOf
  <2>2. CASE t # s
    <3>1. dvSync'[t] = dvSync[t] BY <2>2 DEF DvAway, DvTypes
    <3> QED BY <3>1, DvFrame DEF DvCopies, DvCopyOf, DvAway
  <2> QED BY <2>1, <2>2
<1> QED BY <1>1, <1>2 DEF DvCopies, DvAway

\* what holds without an overlap,
LEMMA DvAwayUnraced ==
    ASSUME DvTypes, DvPlaces, DvUnraced, "raced" \notin dvHist', NEW s \in DvSyncs, DvAway(s)
    PROVE  DvUnraced'
<1>0. \A t \in DvSyncs : t # s => dvSync'[t] = dvSync[t] BY DEF DvAway, DvTypes
<1>1. DvAlone'
  <2>1. \A t \in DvSyncs : dvSync'[t].pc # "idle" => t = s
    BY <1>0 DEF DvAway, DvUnraced, DvAlone
  <2>2. \A t \in DvSyncs : dvSync'[t].cals \subseteq dvCals'
    BY <1>0 DEF DvAway, DvUnraced, DvAlone
  <2>3. \A t \in DvSyncs : dvSync'[t].pc = "discover" => dvCals' = {}
    BY <1>0 DEF DvAway, DvUnraced, DvAlone
  <2> QED BY <2>1, <2>2, <2>3 DEF DvAway, DvUnraced, DvAlone
<1>2. DvSingle' /\ DvVouched'
  BY DEF DvAway, DvUnraced, DvSingle, DvVouched, DvStored, DvSeen
<1>3. ASSUME NEW t \in DvSyncs PROVE (DvFreshOf(t) /\ DvMergedOf(t) /\ DvPulledOf(t) /\ DvAwaitedOf(t))'
  <2>1. CASE t = s
    <3>1. dvSync'[t].pc \notin {"merge"} \cup DvMerging /\ dvSync'[t].local = {}
          /\ dvSync'[t].down = {}
      BY <2>1 DEF DvAway, DvBefore, DvMerging
    <3> QED BY <3>1 DEF DvFreshOf, DvMergedOf, DvPulledOf, DvAwaitedOf
  <2>2. CASE t # s
    <3>1. dvSync'[t] = dvSync[t] BY <2>2, <1>0
    <3>2. UNCHANGED <<dvServer, dvTag, dvRange, dvCals, dvRows, dvLast, dvEdited>> BY DEF DvAway
    <3>3. DvNextRow(t)' = DvNextRow(t) /\ DvCalendar(t)' = DvCalendar(t) BY <3>1, DvFrame
    <3>4. DvFreshOf(t) /\ DvMergedOf(t) /\ DvPulledOf(t) /\ DvAwaitedOf(t) BY DEF DvUnraced
    <3>5. DvFreshOf(t)' BY <3>1, <3>2, <3>3, <3>4 DEF DvFreshOf, DvCurrent, DvSeen
    <3>6. DvMergedOf(t)' BY <3>1, <3>2, <3>3, <3>4 DEF DvMergedOf, DvStored, DvSeen
    <3>7. DvPulledOf(t)' /\ DvAwaitedOf(t)' BY <3>1, <3>2, <3>4 DEF DvPulledOf, DvAwaitedOf
    <3> QED BY <3>5, <3>6, <3>7
  <2> QED BY <2>1, <2>2
<1> QED BY <1>1, <1>2, <1>3 DEF DvUnraced

\* and what is known of rows without an ETag.
LEMMA DvAwayUnknown ==
    ASSUME DvTypes, DvUnknown, NEW s \in DvSyncs, DvAway(s), "cut" \notin dvHist' PROVE DvUnknown'
<1>0. \A t \in DvSyncs : t # s => dvSync'[t] = dvSync[t] /\ DvNextRow(t)' = DvNextRow(t)
  BY DvFrame DEF DvAway, DvTypes
<1>1. UNCHANGED <<dvRows, dvServer>> /\ dvSync[s].pc # "pushed" BY DEF DvAway
<1> QED BY <1>0, <1>1 DEF DvUnknown

\* The contacts follow the address book as fetched (sync_dav).
LEMMA DvBooksStep ==
    ASSUME DvTypes, DvPlaces, DvAlone, DvBooks, "raced" \notin dvHist', "cut" \notin dvHist',
           NEW s \in DvSyncs, DvGoesAway(s)
    PROVE  DvBooks'
<1> DEFINE y == dvSync[s]
<1>0. DvAway(s) BY DvAwayActions
<1>1. \A t \in DvSyncs : t # s => dvSync'[t] = dvSync[t] BY <1>0 DEF DvAway, DvTypes
<1>2. \A t \in DvSyncs : t # s => dvSync[t].pc = "idle"
  BY <1>0 DEF DvAway, DvAlone
<1>3. SUFFICES (dvSync'[s].pc # "idle" => DvBookOf(s)')
               /\ (dvSync'[s].pc = "idle" => dvContacts' = dvFetched')
  BY <1>1, <1>2 DEF DvBooks
<1>4. /\ y.pc # "idle" => DvBookOf(s)
      /\ y.pc = "idle" => dvContacts = dvFetched
  BY <1>2 DEF DvBooks
<1>5. y \in DvSyncType /\ dvSync \in [DvSyncs -> DvSyncType] BY DEF DvTypes
<1> USE DEF DvGoes, DvSame, DvBookOf
<1>6. CASE DvBegin(s)
  BY <1>6, <1>4, <1>5 DEF DvBegin, DvIdle
<1>7. CASE DvFetchContacts(s)
  <2>1. y.pc = "contacts" /\ dvContacts' = dvContacts /\ dvContacts = dvFetched
    BY <1>7, <1>4 DEF DvFetchContacts
  <2>2. CASE DvGoes(s, "calendars") /\ UNCHANGED dvFetched
    BY <2>1, <2>2, <1>5 DEF DvSyncType
  <2>3. CASE \E book \in SUBSET DvCards :
            /\ dvFetched' = book
            /\ dvSync' = [dvSync EXCEPT ![s].pc = "clear", ![s].book = book]
    BY <2>1, <2>3, <1>5 DEF DvSyncType
  <2> QED BY <1>7, <2>2, <2>3 DEF DvFetchContacts
<1>8. CASE DvClearContacts(s)
  BY <1>8, <1>4, <1>5 DEF DvClearContacts, DvCleared, DvSyncType
<1>9. CASE DvInsertContact(s)
  <2>1. PICK c \in y.book : dvContacts' = dvContacts \cup {c}
                           /\ dvSync' = [dvSync EXCEPT ![s].book = @ \ {c}]
    BY <1>9 DEF DvInsertContact
  <2>2. dvSync'[s].book = y.book \ {c} /\ dvSync'[s].pc = "cards" /\ y.pc = "cards"
    BY <1>9, <2>1, <1>5 DEF DvInsertContact, DvSyncType
  <2> QED BY <1>9, <1>4, <2>1, <2>2 DEF DvInsertContact
<1>10. ASSUME UNCHANGED <<dvContacts, dvFetched>>, dvContacts = dvFetched,
              dvSync'[s].pc \notin {"clear", "cards"}
       PROVE  (dvSync'[s].pc # "idle" => DvBookOf(s)')
               /\ (dvSync'[s].pc = "idle" => dvContacts' = dvFetched')
  BY <1>10
<1>11. CASE DvListCalendars(s)
  <2>1. dvSync'[s].pc \in {"discover", "next"}
    <3>1. dvSync' = [dvSync EXCEPT ![s].pc = IF dvCals = {} THEN "discover" ELSE "next", ![s].cals = dvCals]
      BY <1>11 DEF DvListCalendars
    <3> QED BY <3>1, <1>5 DEF DvSyncType
  <2>2. dvContacts = dvFetched BY <1>11, <1>4 DEF DvListCalendars
  <2> QED BY <2>1, <2>2, <1>10, <1>11 DEF DvListCalendars
<1>12. CASE DvReadCtag(s)
  <2>1. dvSync'[s].pc \in {"next", "pull"}
    <3>1. PICK tag : dvSync' = IF tag # DvNull /\ tag = DvCalendar(s).ctag THEN DvLeaves(s)
                     ELSE [dvSync EXCEPT ![s].pc = "pull", ![s].tag = tag]
      BY <1>12 DEF DvReadCtag
    <3> QED BY <3>1, <1>5, DvLeavesOf DEF DvSyncType
  <2>2. dvContacts = dvFetched BY <1>12, <1>4 DEF DvReadCtag
  <2> QED BY <2>1, <2>2, <1>10, <1>12 DEF DvReadCtag
<1>13. CASE DvMergeFails(s) \/ (DvEnds(s) /\ dvSync[s].pc # "next")
  BY <1>13 DEF DvMergeFails, DvEnds
<1>14. CASE DvEnds(s) /\ dvSync[s].pc = "next"
  <2>1. dvSync'[s].pc = "idle" BY <1>14, <1>5 DEF DvEnds, DvIdle
  <2> QED BY <2>1, <1>14, <1>4 DEF DvEnds
<1>15. CASE DvPull(s) /\ dvSync'[s].pc # "merge"
  <2>1. dvContacts = dvFetched BY <1>15, <1>4 DEF DvPull
  <2>2. dvSync'[s].pc \in DvBefore \cup {"pull"} BY <1>0 DEF DvAway
  <2>3. dvSync'[s].pc = "next"
    <3> DEFINE found == {[uid |-> u, at |-> dvServer[u].at] : u \in {v \in dvRange : dvServer[v].live}}
    <3> DEFINE there == {e.uid : e \in found}
    <3>1. CASE dvSync' = [dvSync EXCEPT ![s].pc = "merge", ![s].down = found, ![s].there = there]
      <4> HIDE DEF found, there
      <4>1. dvSync'[s].pc = "merge" BY <3>1, <1>5 DEF DvSyncType
      <4> QED BY <4>1, <1>15
    <3>2. CASE dvSync' = DvLeaves(s)
      BY <3>2, <1>5, DvLeavesOf
    <3> QED BY <3>1, <3>2, <1>15 DEF DvPull
  <2> QED BY <2>1, <2>3, <1>10, <1>15 DEF DvPull
<1> QED BY <1>6, <1>7, <1>8, <1>9, <1>11, <1>12, <1>13, <1>14, <1>15 DEF DvGoesAway

-----------------------------------------------------------------------------
\* The places a merge starts from, passes and ends in.
DvInMerge == {"pull", "merge", "discover", "next"} \cup DvMerging
\* After a step, every row has its calendar.
DvKeptRows == \A r \in dvRows' : \E c \in dvCals' : c.id = r.cal

\* A step of a merge keeps the invariant if it keeps what it touches: the request at
\* hand, the rows and the calendars.  The other requests are idle or have not moved.
LEMMA DvMergeStep ==
    ASSUME DvInv, NEW s \in DvSyncs, dvSync[s].pc \in DvInMerge, dvSync'[s].pc \in DvInMerge,
           dvSync' = [dvSync EXCEPT ![s] = dvSync'[s]], dvSync'[s] \in DvSyncType,
           dvSync'[s].tag <= dvTag',
           dvServer' \in [DvUids -> [live : BOOLEAN, at : Nat]], dvTag' \in Nat, dvTag' >= dvTag,
           dvCals' \subseteq DvCalType, \A c \in dvCals' : c.ctag <= dvTag',
           dvRows' \subseteq DvRowType, dvLast' \in Nat, dvEdited' \subseteq DvUids,
           UNCHANGED <<dvHist, dvRange, dvContacts, dvFetched>>,
           DvPlaceOf(s)', DvCopies', DvEditsKept',
           "raced" \notin dvHist =>
             /\ \A c, d \in dvCals' : c = d
             /\ DvKeptRows /\ dvSync'[s].cals \subseteq dvCals'
             /\ dvSync'[s].pc = "discover" => dvCals' = {}
             /\ DvSingle' /\ DvVouched'
             /\ DvFreshOf(s)' /\ DvMergedOf(s)' /\ DvPulledOf(s)' /\ DvAwaitedOf(s)',
           "raced" \notin dvHist /\ "cut" \notin dvHist => DvUnknown'
    PROVE  DvInv'
<1>a. DvTypes /\ DvPlaces BY DEF DvInv
<1>0. \A t \in DvSyncs : t # s => dvSync'[t] = dvSync[t] BY <1>a DEF DvTypes
<1>1. DvTypes'
  <2>1. dvSync' \in [DvSyncs -> DvSyncType] BY <1>a DEF DvTypes
  <2>2. \A t \in DvSyncs : dvSync'[t].tag <= dvTag'
    <3>1. \A t \in DvSyncs : dvSync[t].tag \in Nat /\ dvSync[t].tag <= dvTag
      BY <1>a DEF DvTypes, DvSyncType
    <3> QED BY <1>a, <1>0, <3>1 DEF DvTypes
  <2>3. dvTag' \in Nat \ {0} BY <1>a DEF DvTypes
  <2> QED BY <1>a, <2>1, <2>2, <2>3 DEF DvTypes
<1>2. DvPlaces' BY <1>a, <1>0, DvFrame DEF DvPlaces, DvPlaceOf
<1>3. ASSUME "raced" \notin dvHist PROVE DvUnraced'
  <2>1. \A t \in DvSyncs : t # s => dvSync'[t] = DvIdle
    BY <1>a, <1>0, <1>3 DEF DvInv, DvUnraced, DvAlone, DvPlaces, DvPlaceOf, DvInMerge, DvMerging
  <2>2. DvAlone' BY <1>3, <2>1 DEF DvAlone, DvIdle, DvKeptRows
  <2>3. ASSUME NEW t \in DvSyncs,
               t # s PROVE (DvFreshOf(t) /\ DvMergedOf(t) /\ DvPulledOf(t) /\ DvAwaitedOf(t))'
    <3>1. dvSync'[t].pc = "idle" /\ dvSync'[t].local = {} /\ dvSync'[t].down = {}
      BY <2>1, <2>3 DEF DvIdle
    <3> QED BY <3>1 DEF DvFreshOf, DvMergedOf, DvPulledOf, DvAwaitedOf, DvMerging
  <2> QED BY <1>3, <2>2, <2>3 DEF DvUnraced
<1>4. ASSUME "raced" \notin dvHist, "cut" \notin dvHist PROVE DvBooks'
  <2>1. \A t \in DvSyncs : t # s => dvSync'[t] = DvIdle
    BY <1>a, <1>0, <1>4 DEF DvInv, DvUnraced, DvAlone, DvPlaces, DvPlaceOf, DvInMerge, DvMerging
  <2>2. dvContacts = dvFetched
    BY <1>4 DEF DvInv, DvBooks, DvBookOf, DvInMerge, DvMerging
  <2>3. dvSync'[s].pc \notin {"clear", "cards"} BY DEF DvInMerge, DvMerging
  <2> QED BY <2>1, <2>2, <2>3 DEF DvBooks, DvBookOf, DvIdle
<1> QED BY <1>1, <1>2, <1>3, <1>4 DEF DvInv

\* A step that writes no row keeps what is said of rows and copies.
LEMMA DvCopiesBy ==
    ASSUME DvTypes, DvCopies, NEW s \in DvSyncs, dvSync' = [dvSync EXCEPT ![s] = dvSync'[s]],
           UNCHANGED <<dvRows, dvLast>>, dvEdited' \subseteq dvEdited,
           dvSync'[s].local \subseteq dvSync[s].local,
           dvSync'[s].pc = "pushed" /\ DvNextRow(s)'.mine => DvNextRow(s)'.uid \notin dvEdited'
    PROVE  DvCopies'
<1>0. \A t \in DvSyncs : t # s => dvSync'[t] = dvSync[t] BY DEF DvTypes
<1>1. ASSUME NEW t \in DvSyncs
      PROVE  DvCopyOf(t)'
             /\ (dvSync'[t].pc = "pushed" /\ DvNextRow(t)'.mine => DvNextRow(t)'.uid \notin dvEdited')
  <2>1. CASE t = s BY <2>1 DEF DvCopies, DvCopyOf
  <2>2. CASE t # s BY <2>2, <1>0, DvFrame DEF DvCopies, DvCopyOf
  <2> QED BY <2>1, <2>2
<1> QED BY <1>1 DEF DvCopies

\* And what is said of rows without an ETag.
LEMMA DvUnknownBy ==
    ASSUME DvTypes, DvUnknown, NEW s \in DvSyncs, dvSync' = [dvSync EXCEPT ![s] = dvSync'[s]],
           UNCHANGED <<dvRows, dvServer>>, dvSync[s].pc # "pushed"
    PROVE  DvUnknown'
<1>0. \A t \in DvSyncs : t # s => dvSync'[t] = dvSync[t] /\ DvNextRow(t)' = DvNextRow(t)
  BY DvFrame DEF DvTypes
<1> QED BY <1>0 DEF DvUnknown

\* The one calendar.
LEMMA DvOneCalendar ==
    ASSUME DvInv, "raced" \notin dvHist, NEW s \in DvSyncs, dvSync[s].cals # {}
    PROVE  /\ DvCalendar(s) \in dvCals /\ \A c \in dvCals : c = DvCalendar(s)
           /\ \A r \in dvRows : r.cal = DvCalendar(s).id
BY DvChosen DEF DvInv, DvUnraced, DvAlone

\* fetch_calendar: what was pulled is what the server has.
LEMMA DvPullStep == ASSUME DvInv, NEW s \in DvSyncs, DvPull(s), dvSync'[s].pc = "merge" PROVE DvInv'
<1> DEFINE y == dvSync[s]
<1> DEFINE found == {[uid |-> u, at |-> dvServer[u].at] : u \in {v \in dvRange : dvServer[v].live}}
<1>a. DvTypes /\ DvPlaces /\ DvCopies /\ DvEditsKept /\ y \in DvSyncType /\ y.tag <= dvTag
      /\ dvSync \in [DvSyncs -> DvSyncType] /\ DvPlaceOf(s)
  BY DEF DvInv, DvTypes, DvPlaces
<1>b. dvSync' # DvLeaves(s) 
  <2>1. dvSync' = DvLeaves(s) => dvSync'[s] = DvLeft(s) BY <1>a, DvLeavesOf
  <2> QED BY <1>a, <2>1, DvLeavesOf
<1>1. /\ UNCHANGED <<dvServer, dvTag, dvRange, dvCals, dvRows, dvLast, dvEdited, dvContacts,
           dvFetched, dvHist>>
      /\ y.pc = "pull"
      /\ dvSync' = [dvSync EXCEPT ![s].pc = "merge", ![s].down = found, ![s].there = {e.uid : e \in found}]
  BY <1>b DEF DvPull, DvLocal, DvSame
<1>2. found \subseteq DvEventType /\ \A e \in found : DvSeen(e.uid) /\ e.at = dvServer[e.uid].at
  BY <1>a DEF DvTypes, DvEventType, DvSeen
<1>3. \A u \in DvUids : u \in {e.uid : e \in found} <=> DvSeen(u)
  <2>1. ASSUME NEW u \in DvUids, DvSeen(u) PROVE \E e \in found : e.uid = u
    <3>1. [uid |-> u, at |-> dvServer[u].at] \in found BY <2>1 DEF DvSeen
    <3> QED BY <3>1
  <2> QED BY <1>2, <2>1
<1>4. {e.uid : e \in found} \subseteq DvUids
  BY <1>2 DEF DvEventType
<1>n. \A d, e \in found : d.uid = e.uid => d = e OBVIOUS
<1> DEFINE there == {e.uid : e \in found}
<1>m. there = {e.uid : e \in found} OBVIOUS
<1>5. \A u \in there : \E e \in found : e.uid = u OBVIOUS
<1> HIDE DEF found, there
<1>6. /\ dvSync' = [dvSync EXCEPT ![s] = dvSync'[s]] /\ dvSync'[s] \in DvSyncType
      /\ dvSync'[s].pc = "merge" /\ dvSync'[s].down = found /\ dvSync'[s].there = there
      /\ dvSync'[s].cals = y.cals /\ dvSync'[s].local = y.local /\ dvSync'[s].tag = y.tag
  BY <1>a, <1>1, <1>2, <1>4, <1>m DEF DvSyncType, DvMerging, DvBefore
<1>7. y.local = {} /\ y.cals # {} BY <1>a, <1>1 DEF DvPlaceOf, DvMerging
<1>8. DvPlaceOf(s)' BY <1>6, <1>7 DEF DvPlaceOf, DvMerging
<1>9. DvCopies' /\ DvEditsKept'
  BY <1>a, <1>1, <1>6, DvCopiesBy DEF DvEditsKept
<1>10. ASSUME "raced" \notin dvHist
       PROVE  /\ \A c, d \in dvCals' : c = d
              /\ DvKeptRows /\ dvSync'[s].cals \subseteq dvCals'
              /\ dvSync'[s].pc = "discover" => dvCals' = {}
              /\ DvSingle' /\ DvVouched'
              /\ DvFreshOf(s)' /\ DvMergedOf(s)' /\ DvPulledOf(s)' /\ DvAwaitedOf(s)'
  <2>1. /\ \A c, d \in dvCals' : c = d
        /\ DvKeptRows /\ dvSync'[s].cals \subseteq dvCals'
        /\ dvSync'[s].pc # "discover"
    BY <1>1, <1>6, <1>10 DEF DvInv, DvUnraced, DvAlone, DvKeptRows
  <2>2. DvSingle' /\ DvVouched'
    BY <1>1, <1>10 DEF DvInv, DvUnraced, DvSingle, DvVouched, DvStored, DvSeen
  <2>3. DvFreshOf(s)' BY <1>1, <1>2, <1>3, <1>m, <1>6 DEF DvFreshOf, DvSeen
  <2>4. DvMergedOf(s)' /\ DvPulledOf(s)' BY <1>5, <1>6 DEF DvMergedOf, DvPulledOf, DvMerging
  <2>5. DvAwaitedOf(s)' BY <1>6, <1>7, <1>n DEF DvAwaitedOf, DvMerging
  <2> QED BY <2>1, <2>2, <2>3, <2>4, <2>5
<1>11. "raced" \notin dvHist /\ "cut" \notin dvHist => DvUnknown'
  BY <1>a, <1>1, <1>6, DvUnknownBy DEF DvInv
<1>12. dvTag' \in Nat /\ dvTag' >= dvTag BY <1>a, <1>1 DEF DvTypes
<1>13. y.pc \in DvInMerge /\ dvSync'[s].pc \in DvInMerge BY <1>1, <1>6 DEF DvInMerge
<1>14. /\ dvSync'[s].tag <= dvTag' /\ dvServer' \in [DvUids -> [live : BOOLEAN, at : Nat]]
       /\ dvCals' \subseteq DvCalType /\ \A c \in dvCals' : c.ctag <= dvTag'
       /\ dvRows' \subseteq DvRowType /\ dvLast' \in Nat /\ dvEdited' \subseteq DvUids
  BY <1>a, <1>1, <1>6 DEF DvTypes
<1> QED BY <1>1, <1>6, <1>8, <1>9, <1>10, <1>11, <1>12, <1>13, <1>14, DvMergeStep

\* merge_calendar reads the rows: without an overlap, all of them.
LEMMA DvSelectStep == ASSUME DvInv, NEW s \in DvSyncs, DvSelect(s) PROVE DvInv'
<1> DEFINE y == dvSync[s]
<1> DEFINE copy == {r \in dvRows : r.cal = DvCalendar(s).id}
<1>a. DvTypes /\ DvPlaces /\ DvCopies /\ DvEditsKept /\ y \in DvSyncType /\ y.tag <= dvTag
      /\ dvSync \in [DvSyncs -> DvSyncType] /\ DvPlaceOf(s)
  BY DEF DvInv, DvTypes, DvPlaces
<1>1. /\ UNCHANGED <<dvServer, dvTag, dvRange, dvCals, dvRows, dvLast, dvEdited, dvContacts,
           dvFetched, dvHist>>
      /\ y.pc = "merge"
      /\ dvSync' = [dvSync EXCEPT ![s].pc = "down", ![s].local = copy]
  BY DEF DvSelect, DvLocal, DvSame
<1>2. copy \subseteq dvRows /\ copy \in SUBSET DvRowType BY <1>a DEF DvTypes
<1>3. ASSUME "raced" \notin dvHist PROVE copy = dvRows
  BY <1>a, <1>1, <1>3, DvOneCalendar DEF DvPlaceOf
<1> HIDE DEF copy
<1>6. /\ dvSync' = [dvSync EXCEPT ![s] = dvSync'[s]] /\ dvSync'[s] \in DvSyncType
      /\ dvSync'[s].pc = "down" /\ dvSync'[s].down = y.down /\ dvSync'[s].there = y.there
      /\ dvSync'[s].cals = y.cals /\ dvSync'[s].local = copy /\ dvSync'[s].tag = y.tag
  BY <1>a, <1>1, <1>2 DEF DvSyncType, DvMerging, DvBefore
<1>7. y.cals # {} BY <1>a, <1>1 DEF DvPlaceOf
<1>8. DvPlaceOf(s)' BY <1>6, <1>7 DEF DvPlaceOf, DvMerging
<1>9. DvCopies' /\ DvEditsKept'
  <2>1. \A t \in DvSyncs : t # s => dvSync'[t] = dvSync[t] BY <1>a, <1>1
  <2>2. ASSUME NEW t \in DvSyncs
        PROVE  DvCopyOf(t)'
               /\ (dvSync'[t].pc = "pushed" /\ DvNextRow(t)'.mine => DvNextRow(t)'.uid \notin dvEdited')
    <3>1. CASE t = s BY <3>1, <1>a, <1>1, <1>2, <1>6 DEF DvCopies, DvCopyOf
    <3>2. CASE t # s BY <3>2, <2>1, <1>a, <1>1, DvFrame DEF DvCopies, DvCopyOf
    <3> QED BY <3>1, <3>2
  <2>3. DvCopies' BY <2>2, <1>a, <1>1 DEF DvCopies
  <2> QED BY <2>3, <1>a, <1>1 DEF DvEditsKept
<1>10. ASSUME "raced" \notin dvHist
       PROVE  /\ \A c, d \in dvCals' : c = d
              /\ DvKeptRows /\ dvSync'[s].cals \subseteq dvCals'
              /\ dvSync'[s].pc = "discover" => dvCals' = {}
              /\ DvSingle' /\ DvVouched'
              /\ DvFreshOf(s)' /\ DvMergedOf(s)' /\ DvPulledOf(s)' /\ DvAwaitedOf(s)'
  <2>a. DvAlone /\ DvSingle /\ DvVouched /\ DvFreshOf(s) /\ DvPulledOf(s) /\ DvAwaitedOf(s)
    BY <1>10 DEF DvInv, DvUnraced
  <2>1. /\ \A c, d \in dvCals' : c = d
        /\ DvKeptRows /\ dvSync'[s].cals \subseteq dvCals'
        /\ dvSync'[s].pc # "discover"
    BY <1>1, <1>6, <2>a DEF DvAlone, DvKeptRows
  <2>2. DvSingle' /\ DvVouched'
    BY <1>1, <2>a DEF DvSingle, DvVouched, DvStored, DvSeen
  <2>3. DvFreshOf(s)' BY <1>1, <1>6, <2>a DEF DvFreshOf, DvSeen, DvCurrent
  <2>4. DvPulledOf(s)' BY <1>6 DEF DvPulledOf
  <2>5. DvMergedOf(s)'
    BY <1>1, <1>6, <2>a DEF DvMergedOf, DvPulledOf, DvFreshOf, DvCurrent, DvSeen
  <2>6. DvAwaitedOf(s)' BY <1>1, <1>3, <1>6, <1>10, <2>a DEF DvAwaitedOf
  <2> QED BY <2>1, <2>2, <2>3, <2>4, <2>5, <2>6
<1>11. "raced" \notin dvHist /\ "cut" \notin dvHist => DvUnknown'
  BY <1>a, <1>1, <1>6, DvUnknownBy DEF DvInv
<1>12. dvTag' \in Nat /\ dvTag' >= dvTag BY <1>a, <1>1 DEF DvTypes
<1> QED BY <1>a, <1>1, <1>6, <1>8, <1>9, <1>10, <1>11, <1>12, DvMergeStep DEF DvInMerge, DvTypes,
    DvMerging

-----------------------------------------------------------------------------
\* Taking over an event changes rows that are clean, and those only, or adds one.
LEMMA DvDownStep == ASSUME DvInv, NEW s \in DvSyncs, DvDown(s) PROVE DvInv'
<1> DEFINE y == dvSync[s]
<1>a. DvTypes /\ DvPlaces /\ DvCopies /\ DvEditsKept /\ y \in DvSyncType /\ y.tag <= dvTag
      /\ dvSync \in [DvSyncs -> DvSyncType] /\ DvPlaceOf(s) /\ DvCopyOf(s)
  BY DEF DvInv, DvTypes, DvPlaces, DvCopies
<1> DEFINE e == CHOOSE x \in y.down : TRUE
<1> DEFINE same == DvMatching(s, e)
<1> DEFINE old == {l.id : l \in {x \in same : DvYields(x, e)}}
<1> DEFINE Taken(r) == [r EXCEPT !.at = e.at, !.href = TRUE, !.mine = FALSE]
<1> DEFINE new == [id |-> dvLast + 1, cal |-> DvCalendar(s).id, uid |-> e.uid, at |-> e.at,
                   href |-> TRUE, dirty |-> FALSE, deleted |-> FALSE, mine |-> FALSE]
<1>1. /\ UNCHANGED <<dvServer, dvTag, dvRange, dvCals, dvEdited, dvContacts, dvFetched, dvHist>>
      /\ y.pc = "down" /\ y.down # {}
      /\ dvSync' = [dvSync EXCEPT ![s].down = @ \ {e}]
  BY DEF DvDown, DvLocal, DvSame
<1>2. e \in y.down /\ e \in DvEventType BY <1>a, <1>1 DEF DvSyncType
<1>3. \/ /\ same # {} /\ dvLast' = dvLast
         /\ dvRows' = {IF r.id \in old THEN Taken(r) ELSE r : r \in dvRows}
      \/ /\ same = {} /\ dvLast' = dvLast + 1 /\ dvRows' = dvRows \cup {new}
  BY DEF DvDown
<1>4. \A i \in old : \E x \in y.local : x.id = i /\ x.uid = e.uid /\ ~x.dirty /\ ~x.deleted
  BY DEF DvMatching, DvYields
<1>5. \A x \in y.local : x.uid = e.uid => x \in same
      /\ (x.id \in old \/ x.dirty \/ x.deleted \/ x.at = e.at)
  BY DEF DvMatching, DvYields
<1>6. same = {} => \A x \in y.local : x.uid # e.uid BY DEF DvMatching
<1>x. same # {} => \E x \in y.local : x.uid = e.uid BY DEF DvMatching
<1>7. /\ dvSync' = [dvSync EXCEPT ![s] = dvSync'[s]] /\ dvSync'[s] \in DvSyncType
      /\ dvSync'[s].pc = "down" /\ dvSync'[s].down = y.down \ {e} /\ dvSync'[s].there = y.there
      /\ dvSync'[s].cals = y.cals /\ dvSync'[s].local = y.local /\ dvSync'[s].tag = y.tag
  <2> HIDE DEF e
  <2> QED BY <1>a, <1>1 DEF DvSyncType
<1>8. y.cals # {} /\ DvCalendar(s) \in DvCalType
  <2>1. y.cals # {} BY <1>a, <1>1 DEF DvPlaceOf, DvMerging
  <2> QED BY <2>1, <1>a, DvChosen DEF DvSyncType
<1> HIDE DEF e, same, old
\* What becomes of a row, and where a row comes from.
<1>9. \A r \in dvRows : r.id \in old => r.uid = e.uid /\ ~r.dirty /\ ~r.deleted
  BY <1>4, <1>a DEF DvCopyOf
<1>10. ASSUME NEW r \in dvRows
       PROVE  \E q \in dvRows' : /\ q.id = r.id /\ q.cal = r.cal /\ q.uid = r.uid
                                 /\ q.dirty = r.dirty /\ q.deleted = r.deleted
                                 /\ (r.id \notin old => q = r)
                                      /\ (r.id \in old => q.at = e.at \/ q = r)
  <2>1. CASE dvRows' = {IF q.id \in old THEN Taken(q) ELSE q : q \in dvRows}
    <3>1. (IF r.id \in old THEN Taken(r) ELSE r) \in dvRows' BY <2>1
    <3>2. r \in DvRowType BY <1>a DEF DvTypes
    <3> QED BY <3>1, <3>2 DEF DvRowType
  <2>2. CASE dvRows' = dvRows \cup {new} BY <2>2
  <2> QED BY <1>3, <2>1, <2>2
<1>11. ASSUME NEW q \in dvRows'
       PROVE  /\ q \in DvRowType
              /\ \/ q \in dvRows
                 \/ same # {} /\ \E r \in dvRows : /\ r.id \in old /\ q.id = r.id /\ q.cal = r.cal
                      /\ q.uid = r.uid
                                     /\ q.dirty = r.dirty /\ q.deleted = r.deleted
                                     /\ q.at = e.at /\ q.href /\ ~q.mine /\ q = Taken(r)
                 \/ /\ same = {} /\ dvLast' = dvLast + 1 /\ q.id = dvLast + 1
                    /\ q.cal = DvCalendar(s).id /\ q.uid = e.uid /\ q.at = e.at
                    /\ q.href /\ ~q.dirty /\ ~q.deleted /\ ~q.mine /\ q = new
  <2>1. CASE same # {} /\ dvRows' = {IF r.id \in old THEN Taken(r) ELSE r : r \in dvRows}
    <3>1. PICK r \in dvRows : q = IF r.id \in old THEN Taken(r) ELSE r BY <2>1
    <3>2. r \in DvRowType BY <1>a DEF DvTypes
    <3> QED BY <2>1, <3>1, <3>2, <1>2 DEF DvRowType, DvEventType
  <2>2. CASE same = {} /\ dvLast' = dvLast + 1 /\ dvRows' = dvRows \cup {new}
    <3>1. new \in DvRowType
      BY <1>2, <1>8, <1>a DEF DvRowType, DvEventType, DvCalType, DvTypes
    <3>2. CASE q \in dvRows BY <3>2, <1>a DEF DvTypes
    <3>3. CASE q = new
      <4>1. /\ new.id = dvLast + 1 /\ new.cal = DvCalendar(s).id /\ new.uid = e.uid /\ new.at = e.at
            /\ new.href /\ ~new.dirty /\ ~new.deleted /\ ~new.mine
        OBVIOUS
      <4> HIDE DEF new
      <4> QED BY <2>2, <3>1, <3>3, <4>1
    <3> QED BY <2>2, <3>2, <3>3
  <2> QED BY <1>3, <2>1, <2>2
<1>12. dvLast \in Nat /\ dvLast' \in Nat /\ dvLast' >= dvLast /\ (same # {} => dvLast' = dvLast)
  <2>1. dvLast \in Nat BY <1>a DEF DvTypes
  <2>2. dvLast' = dvLast \/ (same = {} /\ dvLast' = dvLast + 1) BY <1>3
  <2> QED BY <2>1, <2>2
<1>13. DvPlaceOf(s)' BY <1>7, <1>8 DEF DvPlaceOf, DvMerging
<1>14. DvEditsKept'
  <2> SUFFICES ASSUME NEW u \in dvEdited PROVE \E r \in dvRows' : r.uid = u /\ r.dirty /\ r.mine
    BY <1>1 DEF DvEditsKept
  <2>1. PICK r \in dvRows : r.uid = u /\ r.dirty /\ r.mine BY <1>a DEF DvEditsKept
  <2> QED BY <2>1, <1>9, <1>10
<1>15. DvCopies'
  <2>0. \A r \in dvRows : r.id <= dvLast /\ r.id \in Nat BY <1>a DEF DvCopies, DvTypes, DvRowType
  <2>1. \A r \in dvRows' : r.id <= dvLast' /\ (r.mine => ~r.deleted) /\ (r.deleted => r.href)
    <3> SUFFICES ASSUME NEW q \in dvRows'
                 PROVE  q.id <= dvLast' /\ (q.mine => ~q.deleted) /\ (q.deleted => q.href)
      OBVIOUS
    <3>1. CASE q \in dvRows BY <3>1, <2>0, <1>12, <1>a DEF DvCopies
    <3>2. CASE \E r \in dvRows : q.id = r.id /\ q.href /\ ~q.mine BY <3>2, <2>0, <1>12
    <3>3. CASE dvLast' = dvLast + 1 /\ q.id = dvLast + 1 /\ q.href /\ ~q.mine BY <3>3, <1>12
    <3> QED BY <3>1, <3>2, <3>3, <1>11
  <2>2. \A r, q \in dvRows' : r.id = q.id => r = q
    <3> SUFFICES ASSUME NEW r \in dvRows', NEW q \in dvRows', r.id = q.id PROVE r = q OBVIOUS
    <3>1. CASE dvRows' = {IF p.id \in old THEN Taken(p) ELSE p : p \in dvRows}
      <4>1. PICK p1 \in dvRows : r = IF p1.id \in old THEN Taken(p1) ELSE p1 BY <3>1
      <4>2. PICK p2 \in dvRows : q = IF p2.id \in old THEN Taken(p2) ELSE p2 BY <3>1
      <4>3. p1 \in DvRowType /\ p2 \in DvRowType BY <1>a DEF DvTypes
      <4>4. r.id = p1.id /\ q.id = p2.id BY <4>1, <4>2, <4>3 DEF DvRowType
      <4>5. p1 = p2 BY <4>4, <1>a DEF DvCopies
      <4> QED BY <4>1, <4>2, <4>5
    <3>2. CASE dvRows' = dvRows \cup {new}
      <4>1. new.id = dvLast + 1 OBVIOUS
      <4>2. \A p \in dvRows : p.id # dvLast + 1 BY <2>0, <1>12
      <4> QED BY <3>2, <4>1, <4>2, <1>a DEF DvCopies
    <3> QED BY <1>3, <3>1, <3>2
  <2>3. \A t \in DvSyncs : dvSync'[t].local = dvSync[t].local /\ DvNextRow(t)' = DvNextRow(t)
        /\ dvSync'[t].pc = dvSync[t].pc
    <3> SUFFICES ASSUME NEW t \in DvSyncs PROVE dvSync'[t].local = dvSync[t].local
                        /\ dvSync'[t].pc = dvSync[t].pc
      BY DvFrame
    <3>1. CASE t = s BY <3>1, <1>1, <1>7
    <3>2. CASE t # s BY <3>2, <1>7, <1>a
    <3> QED BY <3>1, <3>2
  <2>4. ASSUME NEW t \in DvSyncs
        PROVE  DvCopyOf(t)'
               /\ (dvSync'[t].pc = "pushed" /\ DvNextRow(t)'.mine => DvNextRow(t)'.uid \notin dvEdited')
    <3>1. DvCopyOf(t)
          /\ (dvSync[t].pc = "pushed" /\ DvNextRow(t).mine => DvNextRow(t).uid \notin dvEdited)
      BY <1>a DEF DvCopies
    <3>2. ASSUME NEW l \in dvSync[t].local
          PROVE  /\ l.id <= dvLast'
                 /\ \A r \in dvRows' : l.id = r.id =>
                      l.uid = r.uid /\ l.cal = r.cal /\ l.deleted = r.deleted /\ (r.dirty => l = r)
      <4>0. l.id \in Nat BY <1>a DEF DvSyncType, DvRowType
      <4>1. l.id <= dvLast /\ l.id <= dvLast' /\ l.id # dvLast + 1
        BY <3>1, <1>12, <4>0 DEF DvCopyOf
      <4> SUFFICES ASSUME NEW q \in dvRows', l.id = q.id
                   PROVE  l.uid = q.uid /\ l.cal = q.cal /\ l.deleted = q.deleted
                          /\ (q.dirty => l = q)
        BY <4>1
      <4>2. CASE q \in dvRows BY <4>2, <3>1 DEF DvCopyOf
      <4>3. CASE \E r \in dvRows : /\ r.id \in old /\ q.id = r.id /\ q.cal = r.cal /\ q.uid = r.uid
                                     /\ q.dirty = r.dirty /\ q.deleted = r.deleted
        BY <4>3, <3>1, <1>9 DEF DvCopyOf
      <4>4. CASE q.id = dvLast + 1 BY <4>4, <4>1
      <4> QED BY <4>2, <4>3, <4>4, <1>11
    <3> QED BY <3>1, <3>2, <2>3, <1>1 DEF DvCopyOf
  <2> QED BY <2>1, <2>2, <2>4 DEF DvCopies
<1>16. ASSUME "raced" \notin dvHist
       PROVE  /\ \A c, d \in dvCals' : c = d
              /\ DvKeptRows /\ dvSync'[s].cals \subseteq dvCals'
              /\ dvSync'[s].pc = "discover" => dvCals' = {}
              /\ DvSingle' /\ DvVouched'
              /\ DvFreshOf(s)' /\ DvMergedOf(s)' /\ DvPulledOf(s)' /\ DvAwaitedOf(s)'
  <2>a. DvAlone /\ DvSingle /\ DvVouched /\ DvFreshOf(s) /\ DvMergedOf(s) /\ DvAwaitedOf(s)
    BY <1>16 DEF DvInv, DvUnraced
  <2>c. DvCalendar(s) \in dvCals /\ (\A c \in dvCals : c = DvCalendar(s))
        /\ \A r \in dvRows : r.cal = DvCalendar(s).id
    BY <1>8, <1>16, DvOneCalendar
  <2>e. /\ \A r \in dvRows : r.uid = e.uid => r \in y.local
        /\ \A l \in y.local : l.uid = e.uid => l \in dvRows
        /\ \A l \in y.local : l.dirty \/ l.deleted => l \in dvRows
    BY <2>a, <1>1, <1>2 DEF DvAwaitedOf, DvMerging
  <2>1. DvKeptRows
    <3> SUFFICES ASSUME NEW q \in dvRows' PROVE \E c \in dvCals : c.id = q.cal
      BY <1>1 DEF DvKeptRows
    <3> QED BY <1>11, <2>c
  <2>2. (\A c, d \in dvCals' : c = d) /\ dvSync'[s].cals \subseteq dvCals'
        /\ dvSync'[s].pc # "discover"
    BY <1>1, <1>7, <2>a DEF DvAlone
  <2>3. DvSingle'
    <3> SUFFICES ASSUME NEW q \in dvRows', NEW r \in dvRows',
                        q.uid = r.uid PROVE q = r BY DEF DvSingle
    <3>1. CASE same # {} /\ dvRows' = {IF p.id \in old THEN Taken(p) ELSE p : p \in dvRows}
      <4>1. (\E p \in dvRows : p.id = q.id /\ p.uid = q.uid)
            /\ (\E p \in dvRows : p.id = r.id /\ p.uid = r.uid)
        BY <3>1, <1>11
      <4>2. q.id = r.id BY <4>1, <2>a DEF DvSingle
      <4> QED BY <4>2, <1>15 DEF DvCopies
    <3>2. CASE same = {} /\ dvRows' = dvRows \cup {new}
      <4>1. \A p \in dvRows : p.uid # e.uid BY <3>2, <1>6, <2>e
      <4>2. new.uid = e.uid OBVIOUS
      <4> QED BY <3>2, <4>1, <4>2, <2>a DEF DvSingle
    <3> QED BY <1>3, <3>1, <3>2
  <2>4. ASSUME NEW c \in dvCals, NEW u \in DvUids, DvStored(c, u), u = e.uid
               => e.at = dvServer[u].at
        PROVE  DvStored(c, u)'
    <3>1. PICK r \in dvRows : r.cal = c.id /\ r.uid = u
          /\ (r.at = dvServer[u].at \/ r.dirty \/ r.deleted)
      BY <2>4 DEF DvStored
    <3>2. PICK q \in dvRows' : /\ q.id = r.id /\ q.cal = r.cal /\ q.uid = r.uid
                                 /\ q.dirty = r.dirty /\ q.deleted = r.deleted
                                 /\ (r.id \notin old => q = r)
                                      /\ (r.id \in old => q.at = e.at \/ q = r)
      BY <1>10
    <3>3. q.at = dvServer[u].at \/ q.dirty \/ q.deleted BY <3>1, <3>2, <1>9, <2>4
    <3>4. \E p \in dvRows' : p.cal = c.id /\ p.uid = u
          /\ (p.at = dvServer[u].at \/ p.dirty \/ p.deleted)
      BY <3>1, <3>2, <3>3
    <3> QED BY <3>4, <1>1 DEF DvStored
  <2>f. DvCurrent(s) => e.at = dvServer[e.uid].at
    BY <2>a, <1>1, <1>2 DEF DvFreshOf, DvMerging
  <2>5. DvVouched'
    <3> SUFFICES ASSUME NEW c \in dvCals, NEW u \in DvUids, c.ctag = dvTag,
                        DvSeen(u) PROVE DvStored(c, u)'
      BY <1>1 DEF DvVouched, DvSeen
    <3>1. DvCurrent(s) BY DEF DvCurrent
    <3> QED BY <3>1, <2>f, <2>4, <2>a DEF DvVouched
  <2>6. DvFreshOf(s)'
    <3>1. DvCurrent(s)' <=> DvCurrent(s) BY <1>1, <1>7 DEF DvCurrent
    <3> QED BY <3>1, <1>1, <1>7, <2>a DEF DvFreshOf, DvSeen, DvMerging
  <2>7. DvMergedOf(s)'
    <3>0. DvCalendar(s)' = DvCalendar(s) BY <1>7, DvFrame
    <3> SUFFICES ASSUME y.tag = dvTag, NEW u \in DvUids, DvSeen(u),
                        \A d \in y.down \ {e} : d.uid # u
                 PROVE  DvStored(DvCalendar(s), u)'
      BY <3>0, <1>1, <1>7 DEF DvMergedOf, DvSeen, DvStored
    <3>1. DvCurrent(s) BY DEF DvCurrent
    <3>2. CASE DvStored(DvCalendar(s), u)
      <4>1. u = e.uid => e.at = dvServer[u].at BY <3>1, <2>f
      <4>2. DvStored(DvCalendar(s), u)' <=> \E p \in dvRows' :
               p.cal = DvCalendar(s)'.id /\ p.uid = u
                   /\ (p.at = dvServer[u].at \/ p.dirty \/ p.deleted)
        BY <1>1 DEF DvStored
      <4>3. PICK c \in dvCals : c = DvCalendar(s) BY <2>c
      <4>4. DvStored(c, u) BY <3>2, <4>3
      <4>5. DvStored(c, u)' BY <4>1, <4>4, <2>4
      <4> QED BY <4>2, <4>3, <4>5, <3>0, <1>1 DEF DvStored
    <3>3. CASE e.uid = u
      <4>1. CASE same # {}
        <5>1. PICK x \in y.local : x.uid = e.uid BY <4>1, <1>x
        <5>2. x \in dvRows BY <5>1, <2>e
        <5>3. x.id \in old \/ x.dirty \/ x.deleted \/ x.at = e.at BY <5>1, <1>5
        <5>4. PICK q \in dvRows' : /\ q.id = x.id /\ q.cal = x.cal /\ q.uid = x.uid
                                 /\ q.dirty = x.dirty /\ q.deleted = x.deleted
                                 /\ (x.id \notin old => q = x)
                                      /\ (x.id \in old => q.at = e.at \/ q = x)
          BY <5>2, <1>10
        <5>5. q.at = e.at \/ q.dirty \/ q.deleted
          <6>1. CASE x.id \notin old BY <6>1, <5>3, <5>4
          <6>2. CASE x.id \in old
            <7>1. Taken(x) \in dvRows'
              <8>1. dvRows' = {IF r.id \in old THEN Taken(r) ELSE r : r \in dvRows} BY <4>1, <1>3
              <8> QED BY <8>1, <5>2, <6>2
            <7>2. Taken(x).at = e.at /\ Taken(x).id = x.id BY <5>2, <1>a DEF DvTypes, DvRowType
            <7> QED BY <7>1, <7>2, <5>4, <1>15 DEF DvCopies
          <6> QED BY <6>1, <6>2
        <5>6. q.cal = DvCalendar(s).id /\ q.uid = u BY <5>1, <5>2, <5>4, <2>c, <3>3
        <5>7. \E p \in dvRows' : p.cal = DvCalendar(s).id /\ p.uid = u
              /\ (p.at = dvServer[u].at \/ p.dirty \/ p.deleted)
          BY <5>5, <5>6, <2>f, <3>1, <3>3
        <5> QED BY <5>7, <3>0, <1>1 DEF DvStored
      <4>2. CASE same = {}
        <5>1. new \in dvRows' /\ new.uid = u /\ new.cal = DvCalendar(s).id
              /\ new.at = dvServer[u].at
          BY <4>2, <1>3, <3>3, <2>f, <3>1
        <5> HIDE DEF new
        <5>2. \E p \in dvRows' : p.cal = DvCalendar(s).id /\ p.uid = u
              /\ (p.at = dvServer[u].at \/ p.dirty \/ p.deleted)
          BY <5>1
        <5> QED BY <5>2, <3>0, <1>1 DEF DvStored
      <4> QED BY <4>1, <4>2
    <3> QED BY <3>2, <3>3, <2>a, <1>1 DEF DvMergedOf, DvMerging
  <2>8. DvPulledOf(s)' BY <1>7 DEF DvPulledOf
  <2>9. DvAwaitedOf(s)'
    <3>1. \A d, x \in dvSync'[s].down : d.uid = x.uid => d = x BY <2>a, <1>7 DEF DvAwaitedOf
    <3>2. ASSUME NEW l \in y.local, l.dirty \/ l.deleted PROVE l \in dvRows'
      <4>1. l \in dvRows BY <3>2, <2>e
      <4>2. l.id \notin old BY <4>1, <3>2, <1>9
      <4> QED BY <4>1, <4>2, <1>10
    <3>3. ASSUME NEW d \in y.down \ {e}
          PROVE  /\ \A r \in dvRows' : r.uid = d.uid => r \in y.local
                 /\ \A l \in y.local : l.uid = d.uid => l \in dvRows'
      <4>1. d.uid # e.uid BY <3>3, <1>2, <2>a DEF DvAwaitedOf
      <4>2. \A r \in dvRows : r.uid = d.uid => r \in y.local /\ r.id \notin old
        BY <2>a, <1>1, <1>9, <4>1 DEF DvAwaitedOf, DvMerging
      <4>3. \A l \in y.local : l.uid = d.uid => l \in dvRows
        BY <2>a, <1>1 DEF DvAwaitedOf, DvMerging
      <4>4. \A r \in dvRows' : r.uid = d.uid => r \in dvRows BY <1>11, <1>9, <4>1
      <4> QED BY <4>2, <4>3, <4>4, <1>10
    <3> QED BY <3>1, <3>2, <3>3, <1>7 DEF DvAwaitedOf
  <2> QED BY <2>1, <2>2, <2>3, <2>5, <2>6, <2>7, <2>8, <2>9
<1>17. ASSUME "raced" \notin dvHist, "cut" \notin dvHist PROVE DvUnknown'
  <2>1. \A t \in DvSyncs : t # s => dvSync'[t] = dvSync[t] /\ DvNextRow(t)' = DvNextRow(t)
    BY <1>7, <1>a, DvFrame
  <2>2. DvUnknown BY <1>17 DEF DvInv
  <2>3. \A r \in dvRows' : r.dirty \/ r.deleted => r \in dvRows BY <1>11, <1>9
  <2> QED BY <2>1, <2>2, <2>3, <1>1 DEF DvUnknown
<1>18. dvTag' \in Nat /\ dvTag' >= dvTag BY <1>a, <1>1 DEF DvTypes
<1>19. y.pc \in DvInMerge /\ dvSync'[s].pc \in DvInMerge BY <1>1, <1>7 DEF DvInMerge, DvMerging
<1>20. /\ dvSync'[s].tag <= dvTag' /\ dvServer' \in [DvUids -> [live : BOOLEAN, at : Nat]]
       /\ dvCals' \subseteq DvCalType /\ \A c \in dvCals' : c.ctag <= dvTag'
       /\ dvRows' \subseteq DvRowType /\ dvEdited' \subseteq DvUids
  BY <1>a, <1>1, <1>7, <1>11 DEF DvTypes
<1> QED BY <1>1, <1>7, <1>12, <1>13, <1>14, <1>15, <1>16, <1>17, <1>18, <1>19, <1>20, DvMergeStep

-----------------------------------------------------------------------------
\* After a change of the collection nothing stored or at hand has its tag.
LEMMA DvStale ==
    ASSUME DvTypes, dvTag' = dvTag + 1, dvCals' = dvCals, NEW s \in DvSyncs,
           dvSync'[s].tag \in Nat, dvSync'[s].tag <= dvTag
    PROVE  DvVouched' /\ DvFreshOf(s)' /\ DvMergedOf(s)'
<1>1. dvTag \in Nat BY DEF DvTypes
<1>2. \A c \in dvCals' : c.ctag # dvTag'
  <2>1. \A c \in dvCals : c.ctag \in Nat /\ c.ctag <= dvTag BY DEF DvTypes, DvCalType
  <2> QED BY <1>1, <2>1
<1>3. dvSync'[s].tag # dvTag' BY <1>1
<1> QED BY <1>2, <1>3 DEF DvVouched, DvFreshOf, DvMergedOf, DvCurrent

\* The row at hand is done with.
LEMMA DvRowDoneOf ==
    ASSUME DvTypes, NEW s \in DvSyncs, DvRowDone(s)
    PROVE  /\ dvSync' = [dvSync EXCEPT ![s] = dvSync'[s]] /\ dvSync'[s] \in DvSyncType
           /\ dvSync'[s].pc = "up" /\ dvSync'[s].local = dvSync[s].local \ {DvNextRow(s)}
           /\ dvSync'[s].cals = dvSync[s].cals /\ dvSync'[s].tag = dvSync[s].tag
           /\ dvSync'[s].down = dvSync[s].down /\ dvSync'[s].there = dvSync[s].there
           /\ dvSync'[s].at = DvNull
<1>1. dvSync[s] \in DvSyncType /\ dvSync \in [DvSyncs -> DvSyncType] BY DEF DvTypes
<1> DEFINE rest == dvSync[s].local \ {DvNextRow(s)}
<1>2. rest \in SUBSET DvRowType BY <1>1 DEF DvSyncType
<1>3. dvSync' = [dvSync EXCEPT ![s].pc = "up", ![s].local = rest, ![s].at = DvNull]
  BY DEF DvRowDone
<1>4. rest = dvSync[s].local \ {DvNextRow(s)} OBVIOUS
<1> HIDE DEF rest
<1> QED BY <1>1, <1>2, <1>3, <1>4 DEF DvSyncType, DvNull, DvMerging, DvBefore

\* What is left of the copies is still awaited.
LEMMA DvAwaitedBy ==
    ASSUME NEW s \in DvSyncs, DvAwaitedOf(s), dvSync[s].down = {}, dvSync'[s].down = {},
           dvSync'[s].local \subseteq dvSync[s].local,
           \A l \in dvSync'[s].local : (l.dirty \/ l.deleted) /\ l \in dvRows => l \in dvRows'
    PROVE  DvAwaitedOf(s)'
BY DEF DvAwaitedOf

\* A row that is to be pushed or deleted is the one copied, and one without ETag is of
\* an event the server does not have.
LEMMA DvToSend ==
    ASSUME DvInv, NEW s \in DvSyncs, DvAtRows(s), DvNextRow(s).dirty \/ DvNextRow(s).deleted
    PROVE  /\ "raced" \notin dvHist => DvNextRow(s) \in dvRows
           /\ "raced" \notin dvHist /\ "cut" \notin dvHist /\ DvNextRow(s).at = DvNull =>
                ~dvServer[DvNextRow(s).uid].live /\ dvServer[DvNextRow(s).uid].at = DvNull
<1>1. DvNextRow(s) \in dvSync[s].local BY DvChosen DEF DvAtRows
<1>2. "raced" \notin dvHist => DvNextRow(s) \in dvRows
  BY <1>1 DEF DvInv, DvUnraced, DvAwaitedOf
<1>3. "raced" \notin dvHist => \A t \in DvSyncs : dvSync[t].pc # "pushed"
  BY DEF DvInv, DvUnraced, DvAlone, DvAtRows
<1> QED BY <1>2, <1>3 DEF DvInv, DvUnknown

\* A tombstone deleted on the server, found gone, or refused.
LEMMA DvDeleteRemoteStep == ASSUME DvInv, NEW s \in DvSyncs, DvDeleteRemote(s) PROVE DvInv'
<1> DEFINE y == dvSync[s]
<1> DEFINE l == DvNextRow(s)
<1>a. DvTypes /\ DvPlaces /\ DvCopies /\ DvEditsKept /\ y \in DvSyncType /\ y.tag <= dvTag
      /\ y.tag \in Nat /\ dvTag \in Nat
      /\ dvSync \in [DvSyncs -> DvSyncType] /\ DvPlaceOf(s) /\ DvCopyOf(s)
  BY DEF DvInv, DvTypes, DvPlaces, DvCopies, DvSyncType
<1>1. /\ UNCHANGED <<dvRange, dvCals, dvRows, dvLast, dvEdited, dvContacts, dvFetched, dvHist>>
      /\ y.pc \in {"down", "up"} /\ y.down = {} /\ y.local # {} /\ DvAtRows(s) /\ l.deleted
  BY DEF DvDeleteRemote, DvAtRows, DvSame
<1>2. l \in y.local /\ l \in DvRowType /\ l.uid \in DvUids
  BY <1>a, <1>1, DvChosen DEF DvSyncType, DvRowType
<1>3. \/ UNCHANGED <<dvServer, dvTag>> /\ DvGoes(s, "deleted") /\ (~l.href \/ ~dvServer[l.uid].live)
      \/ /\ DvStamp(l.uid, FALSE) /\ DvGoes(s, "deleted") /\ dvServer[l.uid].live /\ DvIfMatch(l)
      \/ UNCHANGED <<dvServer, dvTag>> /\ DvRowDone(s)
  BY DEF DvDeleteRemote
<1>4. dvTag' \in Nat /\ dvTag' >= dvTag /\ dvServer' \in [DvUids -> [live : BOOLEAN, at : Nat]]
  <2>1. CASE DvStamp(l.uid, FALSE) BY <2>1, <1>a, <1>2 DEF DvStamp, DvTypes
  <2>2. CASE UNCHANGED <<dvServer, dvTag>> BY <2>2, <1>a DEF DvTypes
  <2> QED BY <1>3, <2>1, <2>2
<1>5. DvGoes(s, "deleted") =>
        /\ dvSync' = [dvSync EXCEPT ![s] = dvSync'[s]] /\ dvSync'[s] \in DvSyncType
        /\ dvSync'[s].pc = "deleted" /\ dvSync'[s].local = y.local
        /\ dvSync'[s].cals = y.cals /\ dvSync'[s].tag = y.tag
        /\ dvSync'[s].down = y.down /\ dvSync'[s].there = y.there
  BY <1>a DEF DvGoes, DvSyncType, DvMerging
<1>6. /\ dvSync' = [dvSync EXCEPT ![s] = dvSync'[s]] /\ dvSync'[s] \in DvSyncType
      /\ dvSync'[s].pc \in {"up", "deleted"} /\ dvSync'[s].local \subseteq y.local
      /\ dvSync'[s].cals = y.cals /\ dvSync'[s].tag = y.tag
      /\ dvSync'[s].down = {} /\ dvSync'[s].there = y.there
      /\ (dvSync'[s].pc = "deleted" => dvSync'[s].local = y.local /\ DvNextRow(s)' = l)
  BY <1>a, <1>1, <1>3, <1>5, DvRowDoneOf, DvFrame
<1>7. y.cals # {} BY <1>a, <1>1 DEF DvPlaceOf, DvMerging
<1>8. DvPlaceOf(s)' BY <1>1, <1>6, <1>7 DEF DvPlaceOf, DvMerging
<1>9. DvCopies' /\ DvEditsKept'
  BY <1>a, <1>1, <1>6, DvCopiesBy DEF DvEditsKept
<1>10. ASSUME "raced" \notin dvHist
       PROVE  /\ \A c, d \in dvCals' : c = d
              /\ DvKeptRows /\ dvSync'[s].cals \subseteq dvCals'
              /\ dvSync'[s].pc = "discover" => dvCals' = {}
              /\ DvSingle' /\ DvVouched'
              /\ DvFreshOf(s)' /\ DvMergedOf(s)' /\ DvPulledOf(s)' /\ DvAwaitedOf(s)'
  <2>a. DvAlone /\ DvSingle /\ DvVouched /\ DvFreshOf(s) /\ DvMergedOf(s) /\ DvAwaitedOf(s)
    BY <1>10 DEF DvInv, DvUnraced
  <2>1. (\A c, d \in dvCals' : c = d) /\ DvKeptRows /\ dvSync'[s].cals \subseteq dvCals'
        /\ dvSync'[s].pc # "discover"
    BY <1>1, <1>6, <2>a DEF DvAlone, DvKeptRows
  <2>2. DvSingle' BY <1>1, <2>a DEF DvSingle
  <2>3. DvVouched' /\ DvFreshOf(s)' /\ DvMergedOf(s)'
    <3>1. CASE DvStamp(l.uid, FALSE)
      <4>1. dvTag' = dvTag + 1 BY <3>1 DEF DvStamp
      <4> QED BY <4>1, <1>a, <1>1, <1>6, DvStale
    <3>2. CASE UNCHANGED <<dvServer, dvTag>>
      <4>0. DvCalendar(s)' = DvCalendar(s) BY <1>6, DvFrame
      <4>1. DvVouched' BY <1>1, <3>2, <2>a DEF DvVouched, DvStored, DvSeen
      <4>2. DvMergedOf(s)'
        BY <1>1, <1>6, <3>2, <2>a, <4>0 DEF DvMergedOf, DvStored, DvSeen, DvMerging
      <4>3. dvSync'[s].pc = "deleted" => ~DvSeen(l.uid)
        <5>1. l.href
          <6>1. l \in dvRows BY <1>1, <1>10, DvToSend
          <6> QED BY <6>1, <1>1, <1>a DEF DvCopies
        <5>2. dvSync'[s].pc = "deleted" => ~DvRowDone(s) BY <1>a, DvRowDoneOf
        <5>3. DvStamp(l.uid, FALSE) => dvTag' = dvTag + 1 BY DEF DvStamp
        <5>4. dvTag + 1 # dvTag BY <1>a
        <5> QED BY <5>1, <5>2, <5>3, <5>4, <1>3, <3>2 DEF DvSeen
      <4>4. DvCurrent(s)' <=> DvCurrent(s) BY <1>1, <1>6, <3>2 DEF DvCurrent
      <4>5. DvFreshOf(s)'
        BY <1>1, <1>6, <3>2, <2>a, <4>3, <4>4 DEF DvFreshOf, DvSeen, DvMerging
      <4> QED BY <4>1, <4>2, <4>5
    <3> QED BY <1>3, <3>1, <3>2
  <2>4. DvPulledOf(s)' BY <1>6 DEF DvPulledOf
  <2>5. DvAwaitedOf(s)' BY <1>1, <1>6, <2>a, DvAwaitedBy
  <2> QED BY <2>1, <2>2, <2>3, <2>4, <2>5
<1>11. ASSUME "raced" \notin dvHist, "cut" \notin dvHist PROVE DvUnknown'
  <2>1. \A t \in DvSyncs : dvSync[t].pc # "pushed"
    BY <1>1, <1>11 DEF DvInv, DvUnraced, DvAlone
  <2>2. \A r \in dvRows : r.at = DvNull /\ (r.dirty \/ r.deleted) =>
          ~dvServer[r.uid].live /\ dvServer[r.uid].at = DvNull
    BY <2>1, <1>11 DEF DvInv, DvUnknown
  <2>3. CASE DvStamp(l.uid, FALSE) /\ dvServer[l.uid].live
    <3>1. \A u \in DvUids : u # l.uid => dvServer'[u] = dvServer[u]
      BY <2>3, <1>a DEF DvStamp, DvTypes
    <3>2. \A r \in dvRows : r.uid \in DvUids BY <1>a DEF DvTypes, DvRowType
    <3> QED BY <3>1, <3>2, <2>2, <2>3, <1>1 DEF DvUnknown
  <2>4. CASE UNCHANGED <<dvServer, dvTag>> BY <2>4, <2>2, <1>1 DEF DvUnknown
  <2> QED BY <1>3, <2>3, <2>4
<1>12. y.pc \in DvInMerge /\ dvSync'[s].pc \in DvInMerge BY <1>1, <1>6 DEF DvInMerge, DvMerging
<1>13. /\ dvSync'[s].tag <= dvTag' /\ \A c \in dvCals' : c.ctag <= dvTag'
       /\ dvCals' \subseteq DvCalType
       /\ dvRows' \subseteq DvRowType /\ dvLast' \in Nat /\ dvEdited' \subseteq DvUids
  <2>1. \A c \in dvCals : c.ctag \in Nat /\ c.ctag <= dvTag BY <1>a DEF DvTypes, DvCalType
  <2> QED BY <2>1, <1>a, <1>1, <1>4, <1>6 DEF DvTypes
<1> QED BY <1>1, <1>4, <1>6, <1>8, <1>9, <1>10, <1>11, <1>12, <1>13, DvMergeStep

\* A dirty row pushed, or refused.
LEMMA DvPushStep == ASSUME DvInv, NEW s \in DvSyncs, DvPush(s) PROVE DvInv'
<1> DEFINE y == dvSync[s]
<1> DEFINE l == DvNextRow(s)
<1>a. DvTypes /\ DvPlaces /\ DvCopies /\ DvEditsKept /\ y \in DvSyncType /\ y.tag <= dvTag
      /\ y.tag \in Nat /\ dvTag \in Nat
      /\ dvSync \in [DvSyncs -> DvSyncType] /\ DvPlaceOf(s) /\ DvCopyOf(s)
  BY DEF DvInv, DvTypes, DvPlaces, DvCopies, DvSyncType
<1>1. /\ UNCHANGED <<dvRange, dvCals, dvRows, dvLast, dvContacts, dvFetched, dvHist>>
      /\ y.pc \in {"down", "up"} /\ y.down = {} /\ y.local # {} /\ DvAtRows(s)
      /\ l.dirty /\ ~l.deleted
  BY DEF DvPush, DvAtRows, DvSame
<1>2. l \in y.local /\ l \in DvRowType /\ l.uid \in DvUids
  BY <1>a, <1>1, DvChosen DEF DvSyncType, DvRowType
<1> DEFINE Sent == /\ DvIfMatch(l) /\ DvStamp(l.uid, TRUE)
                   /\ dvEdited' = IF l.mine THEN dvEdited \ {l.uid} ELSE dvEdited
                   /\ \E etag \in {dvTag + 1, DvNull} :
                        dvSync' = [dvSync EXCEPT ![s].pc = "pushed", ![s].at = etag]
<1>3. Sent \/ (DvRowDone(s) /\ UNCHANGED <<dvServer, dvTag, dvEdited>>)
  BY DEF DvPush
<1>4. dvTag' \in Nat /\ dvTag' >= dvTag /\ dvServer' \in [DvUids -> [live : BOOLEAN, at : Nat]]
  <2>1. CASE Sent BY <2>1, <1>a, <1>2 DEF DvStamp, DvTypes
  <2>2. CASE UNCHANGED <<dvServer, dvTag>> BY <2>2, <1>a DEF DvTypes
  <2> QED BY <1>3, <2>1, <2>2
<1>5. Sent =>
        /\ dvSync' = [dvSync EXCEPT ![s] = dvSync'[s]] /\ dvSync'[s] \in DvSyncType
        /\ dvSync'[s].pc = "pushed" /\ dvSync'[s].local = y.local
        /\ dvSync'[s].cals = y.cals /\ dvSync'[s].tag = y.tag
        /\ dvSync'[s].down = y.down /\ dvSync'[s].there = y.there
  <2> SUFFICES ASSUME Sent
               PROVE  /\ dvSync' = [dvSync EXCEPT ![s] = dvSync'[s]] /\ dvSync'[s] \in DvSyncType
                      /\ dvSync'[s].pc = "pushed" /\ dvSync'[s].local = y.local
                      /\ dvSync'[s].cals = y.cals /\ dvSync'[s].tag = y.tag
                      /\ dvSync'[s].down = y.down /\ dvSync'[s].there = y.there
    OBVIOUS
  <2>0. dvTag + 1 \in Nat /\ DvNull \in Nat BY <1>a DEF DvNull
  <2>1. PICK etag \in {dvTag + 1, DvNull} : dvSync' = [dvSync EXCEPT ![s].pc = "pushed", ![s].at = etag]
    OBVIOUS
  <2>2. etag \in Nat BY <2>0
  <2> QED BY <2>1, <2>2, <1>a DEF DvSyncType, DvMerging
<1>6. /\ dvSync' = [dvSync EXCEPT ![s] = dvSync'[s]] /\ dvSync'[s] \in DvSyncType
      /\ dvSync'[s].pc \in {"up", "pushed"} /\ dvSync'[s].local \subseteq y.local
      /\ dvSync'[s].cals = y.cals /\ dvSync'[s].tag = y.tag
      /\ dvSync'[s].down = {} /\ dvSync'[s].there = y.there
      /\ (dvSync'[s].pc = "pushed" =>
            dvSync'[s].local = y.local /\ DvNextRow(s)' = l /\ dvTag' = dvTag + 1 /\ Sent)
  <2>1. CASE Sent
    <3>1. dvTag' = dvTag + 1 BY <2>1 DEF DvStamp
    <3>2. DvNextRow(s)' = l BY <2>1, <1>5, DvFrame
    <3> HIDE DEF Sent
    <3> QED BY <2>1, <3>1, <3>2, <1>5, <1>1
  <2>2. CASE DvRowDone(s) BY <2>2, <1>a, <1>1, DvRowDoneOf
  <2> QED BY <1>3, <2>1, <2>2
<1>7. y.cals # {} BY <1>a, <1>1 DEF DvPlaceOf, DvMerging
<1>8. DvPlaceOf(s)' BY <1>1, <1>6, <1>7 DEF DvPlaceOf, DvMerging
<1>e. dvEdited' \subseteq dvEdited BY <1>3
<1>9. DvCopies' /\ DvEditsKept'
  <2>1. dvSync'[s].pc = "pushed" /\ DvNextRow(s)'.mine => DvNextRow(s)'.uid \notin dvEdited'
    BY <1>6
  <2>2. DvCopies' BY <2>1, <1>a, <1>e, <1>1, <1>6, DvCopiesBy
  <2> QED BY <2>2, <1>a, <1>e, <1>1 DEF DvEditsKept
<1>10. ASSUME "raced" \notin dvHist
       PROVE  /\ \A c, d \in dvCals' : c = d
              /\ DvKeptRows /\ dvSync'[s].cals \subseteq dvCals'
              /\ dvSync'[s].pc = "discover" => dvCals' = {}
              /\ DvSingle' /\ DvVouched'
              /\ DvFreshOf(s)' /\ DvMergedOf(s)' /\ DvPulledOf(s)' /\ DvAwaitedOf(s)'
  <2>a. DvAlone /\ DvSingle /\ DvVouched /\ DvFreshOf(s) /\ DvMergedOf(s) /\ DvAwaitedOf(s)
    BY <1>10 DEF DvInv, DvUnraced
  <2>1. (\A c, d \in dvCals' : c = d) /\ DvKeptRows /\ dvSync'[s].cals \subseteq dvCals'
        /\ dvSync'[s].pc # "discover"
    BY <1>1, <1>6, <2>a DEF DvAlone, DvKeptRows
  <2>2. DvSingle' BY <1>1, <2>a DEF DvSingle
  <2>3. DvVouched' /\ DvFreshOf(s)' /\ DvMergedOf(s)'
    <3>1. CASE Sent
      <4>1. dvTag' = dvTag + 1 BY <3>1 DEF DvStamp
      <4> QED BY <4>1, <1>a, <1>1, <1>6, DvStale
    <3>2. CASE DvRowDone(s) /\ UNCHANGED <<dvServer, dvTag>>
      <4>0. DvCalendar(s)' = DvCalendar(s) BY <1>6, DvFrame
      <4>1. DvVouched' BY <1>1, <3>2, <2>a DEF DvVouched, DvStored, DvSeen
      <4>2. DvMergedOf(s)'
        BY <1>1, <1>6, <3>2, <2>a, <4>0 DEF DvMergedOf, DvStored, DvSeen, DvMerging
      <4>3. dvSync'[s].pc = "up" BY <3>2, <1>a, DvRowDoneOf
      <4>4. DvCurrent(s)' <=> DvCurrent(s) BY <1>1, <1>6, <3>2 DEF DvCurrent
      <4>5. DvFreshOf(s)'
        BY <1>1, <1>6, <3>2, <2>a, <4>3, <4>4 DEF DvFreshOf, DvSeen, DvMerging
      <4> QED BY <4>1, <4>2, <4>5
    <3> QED BY <1>3, <3>1, <3>2
  <2>4. DvPulledOf(s)' BY <1>6 DEF DvPulledOf
  <2>5. DvAwaitedOf(s)' BY <1>1, <1>6, <2>a, DvAwaitedBy
  <2> QED BY <2>1, <2>2, <2>3, <2>4, <2>5
<1>11. ASSUME "raced" \notin dvHist, "cut" \notin dvHist PROVE DvUnknown'
  <2>1. \A t \in DvSyncs : dvSync[t].pc # "pushed"
    BY <1>1, <1>11 DEF DvInv, DvUnraced, DvAlone
  <2>2. \A r \in dvRows : r.at = DvNull /\ (r.dirty \/ r.deleted) =>
          ~dvServer[r.uid].live /\ dvServer[r.uid].at = DvNull
    BY <2>1, <1>11 DEF DvInv, DvUnknown
  <2>3. CASE Sent
    <3>1. \A u \in DvUids : u # l.uid => dvServer'[u] = dvServer[u]
      BY <2>3, <1>a DEF DvStamp, DvTypes
    <3>2. \A r \in dvRows : r.uid \in DvUids BY <1>a DEF DvTypes, DvRowType
    <3>3. \A r \in dvRows : r.uid = l.uid => r = l
      BY <1>1, <1>11, DvToSend DEF DvInv, DvUnraced, DvSingle
    <3>4. dvSync'[s].pc = "pushed" /\ DvNextRow(s)' = l
      <4> HIDE DEF Sent
      <4> QED BY <2>3, <1>5, <1>6
    <3> HIDE DEF Sent, l
    <3> QED BY <3>1, <3>2, <3>3, <3>4, <2>2, <1>1 DEF DvUnknown
  <2>4. CASE UNCHANGED <<dvServer, dvTag>> BY <2>4, <2>2, <1>1 DEF DvUnknown
  <2> QED BY <1>3, <2>3, <2>4
<1>12. y.pc \in DvInMerge /\ dvSync'[s].pc \in DvInMerge BY <1>1, <1>6 DEF DvInMerge, DvMerging
<1>13. /\ dvSync'[s].tag <= dvTag' /\ \A c \in dvCals' : c.ctag <= dvTag'
       /\ dvCals' \subseteq DvCalType
       /\ dvRows' \subseteq DvRowType /\ dvLast' \in Nat /\ dvEdited' \subseteq DvUids
  <2>1. \A c \in dvCals : c.ctag \in Nat /\ c.ctag <= dvTag BY <1>a DEF DvTypes, DvCalType
  <2> HIDE DEF Sent
  <2> QED BY <2>1, <1>a, <1>e, <1>1, <1>4, <1>6 DEF DvTypes
<1> HIDE DEF Sent
<1> QED BY <1>1, <1>4, <1>6, <1>8, <1>9, <1>10, <1>11, <1>12, <1>13, DvMergeStep

-----------------------------------------------------------------------------
\* Writing the row at hand drops it, leaves it, or, pushed, cleans it.
LEMMA DvWriteRowStep == ASSUME DvInv, NEW s \in DvSyncs, DvWriteRow(s) PROVE DvInv'
<1> DEFINE y == dvSync[s]
<1> DEFINE l == DvNextRow(s)
<1> DEFINE Clean(r) == [r EXCEPT !.dirty = FALSE, !.href = TRUE, !.at = y.at]
<1>a. DvTypes /\ DvPlaces /\ DvCopies /\ DvEditsKept /\ y \in DvSyncType /\ y.tag <= dvTag
      /\ y.tag \in Nat /\ dvTag \in Nat /\ y.at \in Nat
      /\ dvSync \in [DvSyncs -> DvSyncType] /\ DvPlaceOf(s) /\ DvCopyOf(s)
  BY DEF DvInv, DvTypes, DvPlaces, DvCopies, DvSyncType
<1>1. /\ UNCHANGED <<dvServer, dvTag, dvRange, dvCals, dvLast, dvEdited, dvContacts, dvFetched,
           dvHist>>
      /\ DvRowDone(s)
  BY DEF DvWriteRow, DvLocal, DvSame
\* The three ways of writing it.
<1> DEFINE Drops == /\ \/ y.pc = "deleted"
                       \/ y.pc \in {"down", "up"} /\ ~l.deleted /\ ~l.dirty /\ DvGone(s, l)
                    /\ dvRows' = {r \in dvRows : r.id # l.id}
<1> DEFINE Cleans == y.pc = "pushed"
    /\ dvRows' = {IF r.id = l.id THEN Clean(r) ELSE r : r \in dvRows}
<1> DEFINE Leaves == y.pc \in {"down", "up"} /\ ~l.deleted /\ ~l.dirty /\ dvRows' = dvRows
<1>2. Drops \/ Cleans \/ Leaves
  BY DEF DvWriteRow, DvAtRows
<1>3. y.pc \in DvMerging /\ y.down = {} /\ y.local # {}
  BY <1>a DEF DvWriteRow, DvAtRows, DvPlaceOf, DvMerging
<1>4. /\ l \in y.local /\ l \in DvRowType /\ l.uid \in DvUids
      /\ (y.pc = "deleted" => l.deleted) /\ (y.pc = "pushed" => l.dirty /\ ~l.deleted)
  BY <1>a, <1>3, DvChosen DEF DvSyncType, DvRowType, DvPlaceOf
<1>5. /\ dvSync' = [dvSync EXCEPT ![s] = dvSync'[s]] /\ dvSync'[s] \in DvSyncType
      /\ dvSync'[s].pc = "up" /\ dvSync'[s].local = y.local \ {l}
      /\ dvSync'[s].cals = y.cals /\ dvSync'[s].tag = y.tag
      /\ dvSync'[s].down = {} /\ dvSync'[s].there = y.there
  BY <1>a, <1>1, <1>3, DvRowDoneOf
<1>6. \A r \in dvRows : r.id = l.id => r.uid = l.uid /\ r.deleted = l.deleted /\ (r.dirty => r = l)
  BY <1>4, <1>a DEF DvCopyOf
<1>7. ASSUME Cleans, NEW q \in dvRows'
      PROVE  \/ q \in dvRows /\ q.id # l.id
             \/ \E r \in dvRows : /\ q = Clean(r) /\ r.id = l.id /\ q.id = r.id /\ q.cal = r.cal
                  /\ q.uid = r.uid
                                  /\ ~q.dirty /\ q.deleted = r.deleted /\ q.mine = r.mine /\ q.href
                                  /\ q \in DvRowType
  <2>1. PICK r \in dvRows : q = IF r.id = l.id THEN Clean(r) ELSE r BY <1>7
  <2>2. r \in DvRowType BY <1>a DEF DvTypes
  <2> QED BY <2>1, <2>2, <1>a DEF DvRowType
<1>8. \A r \in dvRows : r.id # l.id => r \in dvRows' BY <1>2
<1>9. dvRows' \subseteq DvRowType
  <2>1. CASE Drops \/ Leaves BY <2>1, <1>a DEF DvTypes
  <2>2. CASE Cleans
    <3> HIDE DEF Cleans, Clean
    <3> QED BY <2>2, <1>7, <1>a DEF DvTypes
  <2> QED BY <1>2, <2>1, <2>2
<1> HIDE DEF Clean
<1>10. DvPlaceOf(s)' 
  <2>1. y.cals # {} BY <1>a, <1>3 DEF DvPlaceOf
  <2> QED BY <1>5, <2>1 DEF DvPlaceOf, DvMerging
<1>11. DvEditsKept'
  <2> SUFFICES ASSUME NEW u \in dvEdited PROVE \E r \in dvRows' : r.uid = u /\ r.dirty /\ r.mine
    BY <1>1 DEF DvEditsKept
  <2>1. PICK r \in dvRows : r.uid = u /\ r.dirty /\ r.mine BY <1>a DEF DvEditsKept
  <2>2. CASE r.id # l.id BY <2>1, <2>2, <1>8
  <2>3. CASE r.id = l.id
    <3>1. r = l BY <2>1, <2>3, <1>6
    <3>2. ~l.deleted BY <2>1, <3>1, <1>a DEF DvCopies
    <3>3. y.pc # "pushed" BY <2>1, <3>1, <1>a DEF DvCopies
    <3> QED BY <1>2, <1>4, <2>1, <3>1, <3>2, <3>3
  <2> QED BY <2>2, <2>3
<1>12. DvCopies'
  <2>1. \A r \in dvRows' : r.id <= dvLast' /\ (r.mine => ~r.deleted) /\ (r.deleted => r.href)
    <3>1. CASE Drops \/ Leaves BY <3>1, <1>1, <1>a DEF DvCopies
    <3>2. CASE Cleans
      <4> HIDE DEF Cleans
      <4> QED BY <3>2, <1>7, <1>1, <1>a DEF DvCopies
    <3> QED BY <1>2, <3>1, <3>2
  <2>2. \A r, q \in dvRows' : r.id = q.id => r = q
    <3>1. CASE Drops \/ Leaves BY <3>1, <1>a DEF DvCopies
    <3>2. CASE Cleans
      <4> SUFFICES ASSUME NEW r \in dvRows', NEW q \in dvRows', r.id = q.id PROVE r = q OBVIOUS
      <4>1. CASE r.id # l.id
        <5> HIDE DEF Cleans
        <5> QED BY <4>1, <3>2, <1>7, <1>a DEF DvCopies
      <4>2. CASE r.id = l.id
        <5>1. (\E p \in dvRows : r = Clean(p) /\ p.id = l.id)
              /\ (\E p \in dvRows : q = Clean(p) /\ p.id = l.id)
          <6> HIDE DEF Cleans
          <6> QED BY <4>2, <3>2, <1>7
        <5> QED BY <5>1, <1>a DEF DvCopies
      <4> QED BY <4>1, <4>2
    <3> QED BY <1>2, <3>1, <3>2
  <2>3. ASSUME NEW t \in DvSyncs
        PROVE  /\ dvSync'[t].local \subseteq dvSync[t].local
               /\ dvSync'[t].pc = "pushed" => dvSync[t].pc = "pushed"
                    /\ DvNextRow(t)' = DvNextRow(t)
    <3>1. CASE t = s BY <3>1, <1>5
    <3>2. CASE t # s
      <4>1. dvSync'[t] = dvSync[t] BY <3>2, <1>5, <1>a
      <4> QED BY <4>1, DvFrame
    <3> QED BY <3>1, <3>2
  <2>4. ASSUME NEW t \in DvSyncs
        PROVE  DvCopyOf(t)'
               /\ (dvSync'[t].pc = "pushed" /\ DvNextRow(t)'.mine => DvNextRow(t)'.uid \notin dvEdited')
    <3>1. DvCopyOf(t)
          /\ (dvSync[t].pc = "pushed" /\ DvNextRow(t).mine => DvNextRow(t).uid \notin dvEdited)
      BY <1>a DEF DvCopies
    <3>2. ASSUME NEW k \in dvSync[t].local, NEW q \in dvRows', k.id = q.id
          PROVE  k.uid = q.uid /\ k.cal = q.cal /\ k.deleted = q.deleted /\ (q.dirty => k = q)
      <4>1. CASE q \in dvRows BY <4>1, <3>1, <3>2 DEF DvCopyOf
      <4>2. CASE \E r \in dvRows : /\ q.id = r.id /\ q.cal = r.cal /\ q.uid = r.uid
                                  /\ ~q.dirty /\ q.deleted = r.deleted
        BY <4>2, <3>1, <3>2 DEF DvCopyOf
      <4>3. q \in dvRows \/ Cleans BY <1>2
      <4> HIDE DEF Cleans
      <4> QED BY <4>1, <4>2, <4>3, <1>7
    <3>3. \A k \in dvSync[t].local : k.id <= dvLast' BY <3>1, <1>1 DEF DvCopyOf
    <3> QED BY <3>1, <3>2, <3>3, <2>3, <1>1 DEF DvCopyOf
  <2> QED BY <2>1, <2>2, <2>4 DEF DvCopies
<1>13. ASSUME "raced" \notin dvHist
       PROVE  /\ \A c, d \in dvCals' : c = d
              /\ DvKeptRows /\ dvSync'[s].cals \subseteq dvCals'
              /\ dvSync'[s].pc = "discover" => dvCals' = {}
              /\ DvSingle' /\ DvVouched'
              /\ DvFreshOf(s)' /\ DvMergedOf(s)' /\ DvPulledOf(s)' /\ DvAwaitedOf(s)'
  <2>a. DvAlone /\ DvSingle /\ DvVouched /\ DvFreshOf(s) /\ DvMergedOf(s) /\ DvAwaitedOf(s)
    BY <1>13 DEF DvInv, DvUnraced
  <2>b. \A q \in dvRows' : \E r \in dvRows : q.id = r.id /\ q.cal = r.cal /\ q.uid = r.uid
    <3>1. CASE Drops \/ Leaves BY <3>1
    <3>2. CASE Cleans
      <4> HIDE DEF Cleans
      <4> QED BY <3>2, <1>7
    <3> QED BY <1>2, <3>1, <3>2
  <2>1. (\A c, d \in dvCals' : c = d) /\ dvSync'[s].cals \subseteq dvCals'
        /\ dvSync'[s].pc # "discover"
    BY <1>1, <1>5, <2>a DEF DvAlone
  <2>2. DvKeptRows BY <1>1, <2>a, <2>b DEF DvAlone, DvKeptRows
  <2>3. DvSingle' BY <2>a, <2>b, <1>12 DEF DvSingle, DvCopies
  \* While what was pulled is current, a row dropped is of an event that is gone.
  <2>4. ASSUME DvCurrent(s), NEW c \in dvCals, NEW u \in DvUids, DvSeen(u), DvStored(c, u)
        PROVE  DvStored(c, u)'
    <3>0. y.pc # "pushed" /\ (y.pc = "deleted" => ~DvSeen(l.uid))
          /\ \A v \in DvUids : v \in y.there <=> DvSeen(v)
      BY <2>a, <2>4, <1>3 DEF DvFreshOf
    <3>1. PICK r \in dvRows : r.cal = c.id /\ r.uid = u
          /\ (r.at = dvServer[u].at \/ r.dirty \/ r.deleted)
      BY <2>4 DEF DvStored
    <3>2. r \in dvRows'
      <4>1. CASE r.id # l.id BY <4>1, <1>8
      <4>2. CASE r.id = l.id
        <5>1. l.uid = u BY <3>1, <4>2, <1>6
        <5>2. ~Drops BY <5>1, <3>0, <2>4, <1>4 DEF DvGone
        <5> QED BY <5>2, <3>0, <1>2
      <4> QED BY <4>1, <4>2
    <3> QED BY <3>1, <3>2, <1>1 DEF DvStored
  <2>5. DvVouched'
    <3> SUFFICES ASSUME NEW c \in dvCals, NEW u \in DvUids, c.ctag = dvTag,
                        DvSeen(u) PROVE DvStored(c, u)'
      BY <1>1 DEF DvVouched, DvSeen
    <3>1. DvCurrent(s) BY DEF DvCurrent
    <3>2. DvStored(c, u) BY <2>a DEF DvVouched
    <3> QED BY <3>1, <3>2, <2>4
  <2>6. DvFreshOf(s)'
    <3>1. DvCurrent(s)' <=> DvCurrent(s) BY <1>1, <1>5 DEF DvCurrent
    <3> QED BY <3>1, <1>1, <1>3, <1>5, <2>a DEF DvFreshOf, DvSeen
  <2>7. DvMergedOf(s)'
    <3>0. DvCalendar(s)' = DvCalendar(s) BY <1>5, DvFrame
    <3>1. y.cals # {} BY <1>a, <1>3 DEF DvPlaceOf
    <3>2. DvCalendar(s) \in dvCals BY <3>1, <1>13, DvOneCalendar
    <3> SUFFICES ASSUME y.tag = dvTag, NEW u \in DvUids, DvSeen(u) PROVE DvStored(DvCalendar(s), u)'
      BY <3>0, <1>1, <1>5 DEF DvMergedOf, DvSeen, DvStored
    <3>3. DvCurrent(s) BY DEF DvCurrent
    <3>4. DvStored(DvCalendar(s), u) BY <2>a, <1>3 DEF DvMergedOf
    <3>5. PICK c \in dvCals : c = DvCalendar(s) BY <3>2
    <3>6. DvStored(c, u)' BY <3>3, <3>4, <3>5, <2>4
    <3> QED BY <3>0, <3>5, <3>6, <1>1 DEF DvStored
  <2>8. DvPulledOf(s)' BY <1>5 DEF DvPulledOf
  <2>9. DvAwaitedOf(s)'
    <3>1. ASSUME NEW k \in y.local \ {l}, k.dirty \/ k.deleted, k \in dvRows PROVE k \in dvRows'
      <4>1. CASE k.id # l.id BY <4>1, <3>1, <1>8
      <4>2. CASE k.id = l.id
        <5>1. ~k.dirty /\ l.deleted BY <4>2, <3>1, <1>6
        <5>2. l \in dvRows BY <5>1, <1>4, <2>a DEF DvAwaitedOf
        <5> QED BY <4>2, <5>2, <3>1, <1>a DEF DvCopies
      <4> QED BY <4>1, <4>2
    <3> QED BY <3>1, <1>3, <1>5, <2>a, DvAwaitedBy
  <2> QED BY <2>1, <2>2, <2>3, <2>5, <2>6, <2>7, <2>8, <2>9
<1>14. ASSUME "raced" \notin dvHist, "cut" \notin dvHist PROVE DvUnknown'
  <2>1. DvUnknown BY <1>14 DEF DvInv
  <2>2. \A t \in DvSyncs : t # s => dvSync[t].pc # "pushed"
    BY <1>3, <1>14 DEF DvInv, DvUnraced, DvAlone, DvMerging
  <2>3. ASSUME NEW q \in dvRows', q.dirty \/ q.deleted
        PROVE  q \in dvRows /\ (y.pc = "pushed" => q.id # l.id)
    <3>1. CASE Drops \/ Leaves BY <3>1
    <3>2. CASE Cleans
      <4>1. l.dirty /\ ~l.deleted BY <3>2, <1>4
      <4> HIDE DEF Cleans
      <4> QED BY <4>1, <3>2, <2>3, <1>7, <1>6
    <3> QED BY <1>2, <3>1, <3>2
  <2> QED BY <2>1, <2>2, <2>3, <1>1 DEF DvUnknown
<1>15. y.pc \in DvInMerge /\ dvSync'[s].pc \in DvInMerge BY <1>3, <1>5 DEF DvInMerge, DvMerging
<1>16. /\ dvSync'[s].tag <= dvTag' /\ \A c \in dvCals' : c.ctag <= dvTag'
       /\ dvTag' \in Nat /\ dvTag' >= dvTag /\ dvServer' \in [DvUids -> [live : BOOLEAN, at : Nat]]
       /\ dvCals' \subseteq DvCalType /\ dvLast' \in Nat /\ dvEdited' \subseteq DvUids
  BY <1>a, <1>1, <1>5 DEF DvTypes
<1> HIDE DEF Drops, Cleans, Leaves
<1> QED BY <1>1, <1>5, <1>9, <1>10, <1>11, <1>12, <1>13, <1>14, <1>15, <1>16, DvMergeStep

-----------------------------------------------------------------------------
\* The ctag read before the pull vouches for what the merge stored, unless the server
\* has changed since, by the merge itself or by another client.
LEMMA DvSaveCtagStep == ASSUME DvInv, NEW s \in DvSyncs, DvSaveCtag(s) PROVE DvInv'
<1> DEFINE y == dvSync[s]
<1> DEFINE Tagged(c) == IF c.id = DvCalendar(s).id THEN [c EXCEPT !.ctag = y.tag] ELSE c
<1>a. DvTypes /\ DvPlaces /\ DvCopies /\ DvEditsKept /\ y \in DvSyncType /\ y.tag <= dvTag
      /\ y.tag \in Nat /\ dvTag \in Nat
      /\ dvSync \in [DvSyncs -> DvSyncType] /\ DvPlaceOf(s) /\ DvCopyOf(s)
  BY DEF DvInv, DvTypes, DvPlaces, DvCopies, DvSyncType
<1>1. /\ UNCHANGED <<dvServer, dvTag, dvRange, dvRows, dvLast, dvEdited, dvContacts, dvFetched,
           dvHist>>
      /\ y.pc \in {"down", "up"} /\ y.down = {} /\ y.local = {} /\ dvSync' = DvLeaves(s)
      /\ dvCals' = {Tagged(c) : c \in dvCals}
  BY DEF DvSaveCtag, DvLocal, DvSame, DvTagOf
<1>2. y.cals # {} BY <1>a, <1>1 DEF DvPlaceOf, DvMerging
<1>3. /\ dvSync' = [dvSync EXCEPT ![s] = dvSync'[s]] /\ dvSync'[s] \in DvSyncType
      /\ dvSync'[s].pc = "next" /\ dvSync'[s].local = {} /\ dvSync'[s].down = {}
      /\ dvSync'[s].tag = 0 /\ dvSync'[s].cals = y.cals \ {DvCalendar(s)}
  <2>1. dvSync'[s] = DvLeft(s) BY <1>a, <1>1, DvLeavesOf
  <2>2. DvLeft(s).cals = y.cals \ {DvCalendar(s)} BY DEF DvLeft, DvIdle
  <2> QED BY <2>1, <2>2, <1>a, <1>1, DvLeavesOf
<1>4. \A c \in dvCals : /\ Tagged(c) \in DvCalType /\ Tagged(c).id = c.id
                        /\ (Tagged(c) = c \/ (c.id = DvCalendar(s).id /\ Tagged(c).ctag = y.tag))
                        /\ Tagged(c).ctag <= dvTag
  <2> TAKE c \in dvCals
  <2>1. c \in DvCalType /\ c.ctag <= dvTag BY <1>a DEF DvTypes
  <2>2. CASE c.id # DvCalendar(s).id
    <3>1. Tagged(c) = c BY <2>2
    <3> HIDE DEF Tagged
    <3> QED BY <3>1, <2>1
  <2>3. CASE c.id = DvCalendar(s).id
    <3>1. Tagged(c) = [c EXCEPT !.ctag = y.tag] BY <2>3
    <3> HIDE DEF Tagged
    <3>2. Tagged(c) \in DvCalType /\ Tagged(c).id = c.id /\ Tagged(c).ctag = y.tag
      BY <3>1, <2>1, <1>a DEF DvCalType
    <3> QED BY <3>2, <2>3, <1>a
  <2> QED BY <2>2, <2>3
<1> HIDE DEF Tagged
<1>5. dvCals' \subseteq DvCalType /\ \A c \in dvCals' : c.ctag <= dvTag' BY <1>1, <1>4
<1>6. DvPlaceOf(s)' BY <1>3 DEF DvPlaceOf, DvMerging
<1>7. DvCopies' /\ DvEditsKept' BY <1>a, <1>1, <1>3, DvCopiesBy DEF DvEditsKept
<1>8. ASSUME "raced" \notin dvHist
       PROVE  /\ \A c, d \in dvCals' : c = d
              /\ DvKeptRows /\ dvSync'[s].cals \subseteq dvCals'
              /\ dvSync'[s].pc = "discover" => dvCals' = {}
              /\ DvSingle' /\ DvVouched'
              /\ DvFreshOf(s)' /\ DvMergedOf(s)' /\ DvPulledOf(s)' /\ DvAwaitedOf(s)'
  <2>a. DvAlone /\ DvSingle /\ DvVouched /\ DvMergedOf(s)
    BY <1>8 DEF DvInv, DvUnraced
  <2>c. DvCalendar(s) \in dvCals /\ (\A c \in dvCals : c = DvCalendar(s))
        /\ \A r \in dvRows : r.cal = DvCalendar(s).id
    BY <1>2, <1>8, DvOneCalendar
  <2>1. \A c, d \in dvCals' : c = d BY <1>1, <2>a DEF DvAlone
  <2>2. DvKeptRows BY <1>1, <1>4, <2>a DEF DvAlone, DvKeptRows
  <2>3. dvSync'[s].cals = {} BY <1>3, <2>a, <2>c DEF DvAlone
  <2>4. DvSingle' BY <1>1, <2>a DEF DvSingle
  <2>5. DvVouched'
    <3> SUFFICES ASSUME NEW c \in dvCals', NEW u \in DvUids, c.ctag = dvTag,
                        DvSeen(u) PROVE DvStored(c, u)'
      BY <1>1 DEF DvVouched, DvSeen
    <3>1. PICK d \in dvCals : c = Tagged(d) BY <1>1
    <3>2. DvStored(d, u)
      <4>1. CASE c = d BY <4>1, <2>a DEF DvVouched
      <4>2. CASE c.ctag = y.tag
        <5>1. DvStored(DvCalendar(s), u) BY <4>2, <1>1, <2>a DEF DvMergedOf, DvMerging
        <5>2. d = DvCalendar(s) BY <2>c
        <5> QED BY <5>1, <5>2
      <4> QED BY <4>1, <4>2, <3>1, <1>4
    <3>3. c.id = d.id BY <3>1, <1>4
    <3> QED BY <3>2, <3>3, <1>1 DEF DvStored
  <2>6. DvFreshOf(s)' /\ DvMergedOf(s)' /\ DvPulledOf(s)' /\ DvAwaitedOf(s)'
    BY <1>3 DEF DvFreshOf, DvMergedOf, DvPulledOf, DvAwaitedOf, DvMerging
  <2> QED BY <2>1, <2>2, <2>3, <2>4, <2>5, <2>6, <1>3
<1>9. "raced" \notin dvHist /\ "cut" \notin dvHist => DvUnknown'
  BY <1>a, <1>1, <1>3, DvUnknownBy DEF DvInv
<1>10. y.pc \in DvInMerge /\ dvSync'[s].pc \in DvInMerge BY <1>1, <1>3 DEF DvInMerge, DvMerging
<1>11. /\ dvSync'[s].tag <= dvTag' /\ dvRows' \subseteq DvRowType
       /\ dvTag' \in Nat /\ dvTag' >= dvTag /\ dvServer' \in [DvUids -> [live : BOOLEAN, at : Nat]]
       /\ dvLast' \in Nat /\ dvEdited' \subseteq DvUids
  BY <1>a, <1>1, <1>3 DEF DvTypes
<1> QED BY <1>1, <1>3, <1>5, <1>6, <1>7, <1>8, <1>9, <1>10, <1>11, DvMergeStep

\* A calendar found has no ctag yet.
LEMMA DvDiscoverStep == ASSUME DvInv, NEW s \in DvSyncs, DvDiscover(s) PROVE DvInv'
<1> DEFINE y == dvSync[s]
<1>a. DvTypes /\ DvPlaces /\ DvCopies /\ DvEditsKept /\ y \in DvSyncType /\ y.tag <= dvTag
      /\ y.tag \in Nat /\ dvTag \in Nat /\ dvTag # 0
      /\ dvSync \in [DvSyncs -> DvSyncType] /\ DvPlaceOf(s)
  BY DEF DvInv, DvTypes, DvPlaces, DvSyncType
<1> DEFINE ids == {c.id : c \in dvCals}
<1>1. PICK guess \in BOOLEAN :
        /\ y.pc = "discover"
        /\ dvCals' = dvCals \cup {[id |-> Min(DvCalendarIds \ ids), guess |-> guess, ctag |-> DvNull]}
        /\ dvSync' = [dvSync EXCEPT ![s].pc = "next",
                        ![s].cals = {[id |-> Min(DvCalendarIds \ ids), guess |-> guess, ctag |-> DvNull]}]
        /\ UNCHANGED <<dvServer, dvTag, dvRange, dvRows, dvLast, dvEdited, dvContacts, dvFetched,
             dvHist>>
  BY DEF DvDiscover, DvLocal, DvSame
<1> DEFINE cal == [id |-> Min(DvCalendarIds \ ids), guess |-> guess, ctag |-> DvNull]
<1>2. cal \in DvCalType /\ cal.ctag = 0
  <2>1. DvCalendarIds \ ids = DvCalendarIds \ (ids \cap DvCalendarIds) OBVIOUS
  <2>2. ids \cap DvCalendarIds \in SUBSET DvCalendarIds OBVIOUS
  <2> HIDE DEF ids
  <2>3. Min(DvCalendarIds \ ids) \in DvIds BY <2>1, <2>2 DEF DvIds
  <2> QED BY <2>3 DEF DvCalType, DvNull
<1>3. dvCals' = dvCals \cup {cal} /\ dvSync' = [dvSync EXCEPT ![s].pc = "next", ![s].cals = {cal}]
  BY <1>1
<1> HIDE DEF cal, ids
<1>4. /\ dvSync' = [dvSync EXCEPT ![s] = dvSync'[s]] /\ dvSync'[s] \in DvSyncType
      /\ dvSync'[s].pc = "next" /\ dvSync'[s].local = {} /\ dvSync'[s].down = {}
      /\ dvSync'[s].tag = y.tag /\ dvSync'[s].cals = {cal}
  <2>1. y.local = {} /\ y.down = {} BY <1>a, <1>1 DEF DvPlaceOf, DvMerging
  <2> QED BY <2>1, <1>a, <1>2, <1>3 DEF DvSyncType, DvBefore
<1>5. dvCals' \subseteq DvCalType /\ \A c \in dvCals' : c.ctag <= dvTag'
  <2>1. dvCals \subseteq DvCalType /\ (\A c \in dvCals : c.ctag <= dvTag) /\ dvTag' = dvTag
    BY <1>a, <1>1 DEF DvTypes
  <2>2. cal.ctag <= dvTag BY <1>a, <1>2
  <2> QED BY <2>1, <2>2, <1>2, <1>3
<1>6. DvPlaceOf(s)' BY <1>4 DEF DvPlaceOf, DvMerging
<1>7. DvCopies' /\ DvEditsKept' BY <1>a, <1>1, <1>4, DvCopiesBy DEF DvEditsKept
<1>8. ASSUME "raced" \notin dvHist
       PROVE  /\ \A c, d \in dvCals' : c = d
              /\ DvKeptRows /\ dvSync'[s].cals \subseteq dvCals'
              /\ dvSync'[s].pc = "discover" => dvCals' = {}
              /\ DvSingle' /\ DvVouched'
              /\ DvFreshOf(s)' /\ DvMergedOf(s)' /\ DvPulledOf(s)' /\ DvAwaitedOf(s)'
  <2>a. DvAlone /\ DvSingle BY <1>8 DEF DvInv, DvUnraced
  <2>b. dvCals = {} /\ dvRows = {} BY <1>1, <2>a DEF DvAlone
  <2>1. DvSingle' /\ DvKeptRows BY <1>1, <2>b DEF DvSingle, DvKeptRows
  <2>2. DvVouched' BY <1>1, <1>2, <1>3, <1>a, <2>b DEF DvVouched
  <2>3. DvFreshOf(s)' /\ DvMergedOf(s)' /\ DvPulledOf(s)' /\ DvAwaitedOf(s)'
    BY <1>4 DEF DvFreshOf, DvMergedOf, DvPulledOf, DvAwaitedOf, DvMerging
  <2> QED BY <1>3, <1>4, <2>b, <2>1, <2>2, <2>3
<1>9. "raced" \notin dvHist /\ "cut" \notin dvHist => DvUnknown'
  BY <1>a, <1>1, <1>4, DvUnknownBy DEF DvInv
<1>10. y.pc \in DvInMerge /\ dvSync'[s].pc \in DvInMerge BY <1>1, <1>4 DEF DvInMerge
<1>11. /\ dvSync'[s].tag <= dvTag' /\ dvRows' \subseteq DvRowType
       /\ dvTag' \in Nat /\ dvTag' >= dvTag /\ dvServer' \in [DvUids -> [live : BOOLEAN, at : Nat]]
       /\ dvLast' \in Nat /\ dvEdited' \subseteq DvUids
  BY <1>a, <1>1, <1>4 DEF DvTypes
<1> QED BY <1>1, <1>4, <1>5, <1>6, <1>7, <1>8, <1>9, <1>10, <1>11, DvMergeStep

\* Another client's change makes every tag known old.
LEMMA DvRemoteStep ==
    ASSUME DvInv, NEW u \in DvUids, NEW live \in BOOLEAN, DvRemote(u, live) PROVE DvInv'
<1>a. DvTypes /\ DvPlaces /\ DvCopies /\ DvEditsKept /\ dvTag \in Nat BY DEF DvInv, DvTypes
<1>1. /\ UNCHANGED <<dvRange, dvCals, dvRows, dvLast, dvSync, dvEdited, dvContacts, dvFetched,
           dvHist>>
      /\ dvServer[u].live \/ dvServer[u].at # DvNull
      /\ dvTag' = dvTag + 1
           /\ dvServer' = [dvServer EXCEPT ![u] = [live |-> live, at |-> dvTag + 1]]
  BY DEF DvRemote, DvStamp, DvSame
<1>2. \A s \in DvSyncs : DvNextRow(s)' = DvNextRow(s) /\ DvCalendar(s)' = DvCalendar(s)
      /\ dvSync[s].tag \in Nat /\ dvSync[s].tag <= dvTag
  BY <1>1, <1>a, DvFrame DEF DvTypes, DvSyncType
<1>3. DvTypes'
  <2>1. \A c \in dvCals : c.ctag \in Nat /\ c.ctag <= dvTag BY <1>a DEF DvTypes, DvCalType
  <2>2. dvServer' \in [DvUids -> [live : BOOLEAN, at : Nat]] BY <1>a, <1>1 DEF DvTypes
  <2>3. \A c \in dvCals' : c.ctag <= dvTag' BY <1>1, <1>a, <2>1
  <2>4. \A s \in DvSyncs : dvSync'[s].tag <= dvTag' BY <1>1, <1>2, <1>a
  <2>5. dvTag' \in Nat \ {0} BY <1>1, <1>a
  <2> QED BY <1>1, <1>a, <2>2, <2>3, <2>4, <2>5 DEF DvTypes
<1>4. DvPlaces' BY <1>a, <1>1, <1>2 DEF DvPlaces, DvPlaceOf
<1>5. DvCopies' BY <1>a, <1>1, <1>2 DEF DvCopies, DvCopyOf
<1>6. DvEditsKept' BY <1>a, <1>1 DEF DvEditsKept
<1>7. ASSUME "raced" \notin dvHist PROVE DvUnraced'
  <2>a. DvAlone /\ DvSingle /\ \A s \in DvSyncs : DvPulledOf(s) /\ DvAwaitedOf(s)
    BY <1>7 DEF DvInv, DvUnraced
  <2>1. DvAlone' /\ DvSingle' BY <2>a, <1>1 DEF DvAlone, DvSingle
  <2>2. \A c \in dvCals : c.ctag # dvTag'
    <3>1. \A c \in dvCals : c.ctag \in Nat /\ c.ctag <= dvTag BY <1>a DEF DvTypes, DvCalType
    <3> QED BY <3>1, <1>1, <1>a
  <2>3. DvVouched' BY <2>2, <1>1 DEF DvVouched
  <2>4. ASSUME NEW s \in DvSyncs PROVE (DvFreshOf(s) /\ DvMergedOf(s) /\ DvPulledOf(s) /\ DvAwaitedOf(s))'
    <3>1. dvSync'[s].tag # dvTag' BY <1>1, <1>2, <1>a
    <3>2. DvFreshOf(s)' /\ DvMergedOf(s)' BY <3>1, <2>2, <1>1 DEF DvFreshOf, DvMergedOf, DvCurrent
    <3>3. DvPulledOf(s)' /\ DvAwaitedOf(s)' BY <1>1, <2>a DEF DvPulledOf, DvAwaitedOf
    <3> QED BY <3>2, <3>3
  <2> QED BY <2>1, <2>3, <2>4 DEF DvUnraced
<1>8. ASSUME "raced" \notin dvHist, "cut" \notin dvHist PROVE DvBooks' /\ DvUnknown'
  <2>1. DvBooks' BY <1>8, <1>1 DEF DvInv, DvBooks, DvBookOf
  <2>2. \A v \in DvUids : v # u => dvServer'[v] = dvServer[v] BY <1>1, <1>a DEF DvTypes
  <2>3. \A r \in dvRows : r.uid \in DvUids BY <1>a DEF DvTypes, DvRowType
  <2>4. DvUnknown' BY <1>8, <1>1, <1>2, <2>2, <2>3 DEF DvInv, DvUnknown
  <2> QED BY <2>1, <2>4
<1> QED BY <1>1, <1>3, <1>4, <1>5, <1>6, <1>7, <1>8 DEF DvInv

\* A calendar goes with its rows.
LEMMA DvDeleteCalendarStep == ASSUME DvInv, NEW c \in dvCals, DvDeleteCalendar(c) PROVE DvInv'
<1>a. DvTypes /\ DvPlaces /\ DvCopies BY DEF DvInv
<1>1. /\ UNCHANGED <<dvServer, dvTag, dvRange, dvLast, dvContacts, dvFetched, dvSync>>
      /\ dvCals' = dvCals \ {c} /\ dvRows' = {r \in dvRows : r.cal # c.id} /\ dvEdited' = {}
      /\ dvHist' = IF \E s \in DvSyncs : dvSync[s] # DvIdle THEN dvHist \cup {"raced"} ELSE dvHist
  BY DEF DvDeleteCalendar, DvLocal
<1>2. \A s \in DvSyncs : DvNextRow(s)' = DvNextRow(s) BY <1>1, DvFrame
<1>3. DvTypes' BY <1>a, <1>1 DEF DvTypes
<1>4. DvPlaces' BY <1>a, <1>1, <1>2 DEF DvPlaces, DvPlaceOf
<1>5. DvCopies' /\ DvEditsKept' BY <1>a, <1>1, <1>2 DEF DvCopies, DvCopyOf, DvEditsKept
<1>6. ASSUME "raced" \notin dvHist' PROVE DvUnraced'
             /\ ("cut" \notin dvHist' => DvBooks' /\ DvUnknown')
  <2>1. dvHist' = dvHist /\ \A s \in DvSyncs : dvSync[s] = DvIdle BY <1>1, <1>6
  <2>2. DvUnraced /\ ("cut" \notin dvHist => DvBooks /\ DvUnknown) BY <1>6, <2>1 DEF DvInv
  <2>3. \A s \in DvSyncs : dvSync'[s].pc = "idle" /\ dvSync'[s].local = {} /\ dvSync'[s].down = {}
                           /\ dvSync'[s].cals = {} /\ dvSync[s].pc = "idle"
    BY <2>1, <1>1 DEF DvIdle
  <2>4. dvCals' = {} BY <1>1, <2>2 DEF DvUnraced, DvAlone
  <2>5. dvRows' = {}
    <3>1. \A r \in dvRows : r.cal = c.id BY <2>2 DEF DvUnraced, DvAlone
    <3> QED BY <3>1, <1>1
  <2>6. DvUnraced'
    BY <2>3, <2>4, <2>5 DEF DvUnraced, DvAlone, DvSingle, DvVouched, DvFreshOf, DvMergedOf,
        DvPulledOf,
                            DvAwaitedOf, DvMerging
  <2>7. "cut" \notin dvHist => DvBooks' /\ DvUnknown'
    BY <2>2, <2>3, <2>5, <1>1 DEF DvBooks, DvUnknown
  <2> QED BY <2>1, <2>6, <2>7
<1> QED BY <1>3, <1>4, <1>5, <1>6 DEF DvInv

\* What an earlier version left satisfies the invariant.
LEMMA DvInitInv == DvInit => DvInv
<1> SUFFICES ASSUME DvInit PROVE DvInv OBVIOUS
<1>1. PICK old \in BOOLEAN, kind \in [DvUids -> {"clean", "dirty", "deleted", "new"}] :
        /\ dvServer = [u \in DvUids |-> IF kind[u] = "new" THEN [live |-> FALSE, at |-> 0]
                                        ELSE [live |-> TRUE, at |-> 1]]
        /\ dvCals = IF old THEN {[id |-> 1, guess |-> FALSE, ctag |-> 1]} ELSE {}
        /\ dvRows = IF old THEN {DvLegacyRow(u, kind[u]) : u \in DvUids} ELSE {}
        /\ dvEdited = IF old THEN {u \in DvUids : kind[u] \in {"dirty", "new"}} ELSE {}
  BY DEF DvInit
<1>2. /\ dvTag = 1 /\ dvRange \in SUBSET DvUids /\ dvLast = DvMaxUid
      /\ dvContacts = {} /\ dvFetched = {} /\ dvHist = {}
      /\ dvSync = [s \in DvSyncs |-> DvIdle]
  BY DEF DvInit
<1>3. ASSUME NEW u \in DvUids
      PROVE  /\ DvLegacyRow(u, kind[u]) \in DvRowType
             /\ DvLegacyRow(u, kind[u]).id = u /\ DvLegacyRow(u, kind[u]).uid = u
             /\ DvLegacyRow(u, kind[u]).cal = 1
             /\ DvLegacyRow(u, kind[u]).at = (IF kind[u] = "new" THEN 0 ELSE 1)
             /\ (DvLegacyRow(u, kind[u]).dirty <=> kind[u] \in {"dirty", "new"})
             /\ (DvLegacyRow(u, kind[u]).mine <=> kind[u] \in {"dirty", "new"})
             /\ (DvLegacyRow(u, kind[u]).deleted <=> kind[u] = "deleted")
             /\ (DvLegacyRow(u, kind[u]).href <=> kind[u] # "new")
  <2>1. u \in Nat BY DEF DvUids
  <2>2. 1 \in DvIds BY DEF DvIds, DvCalendarIds
  <2>3. kind[u] \in {"clean", "dirty", "deleted", "new"} BY <1>1
  <2> DEFINE k == kind[u]
  <2>4. DvLegacyRow(u, k) =
          [id |-> u, cal |-> 1, uid |-> u, at |-> IF k = "new" THEN 0 ELSE 1,
           href |-> k # "new", dirty |-> k \in {"dirty", "new"}, deleted |-> k = "deleted",
           mine |-> k \in {"dirty", "new"}]
    BY DEF DvLegacyRow, DvNull
  <2>5. k \in {"clean", "dirty", "deleted", "new"} BY <2>3
  <2> HIDE DEF k
  <2>6. DvLegacyRow(u, k) \in DvRowType BY <2>1, <2>2, <2>4 DEF DvRowType
  <2>7. /\ DvLegacyRow(u, k).id = u /\ DvLegacyRow(u, k).uid = u /\ DvLegacyRow(u, k).cal = 1
        /\ DvLegacyRow(u, k).at = (IF k = "new" THEN 0 ELSE 1)
    BY <2>4
  <2>8. /\ DvLegacyRow(u, k).dirty <=> k \in {"dirty", "new"}
        /\ DvLegacyRow(u, k).mine <=> k \in {"dirty", "new"}
        /\ DvLegacyRow(u, k).deleted <=> k = "deleted"
        /\ DvLegacyRow(u, k).href <=> k # "new"
    <3>1. DvLegacyRow(u, k).dirty = (k \in {"dirty", "new"}) BY <2>4
    <3>2. DvLegacyRow(u, k).mine = (k \in {"dirty", "new"}) BY <2>4
    <3>3. DvLegacyRow(u, k).deleted = (k = "deleted") BY <2>4
    <3>4. DvLegacyRow(u, k).href = (k # "new") BY <2>4
    <3> QED BY <3>1, <3>2, <3>3, <3>4
  <2> QED BY <2>6, <2>7, <2>8 DEF k
<1>4. \A r \in dvRows : old /\ r \in DvRowType /\ \E u \in DvUids : r = DvLegacyRow(u, kind[u])
  BY <1>1, <1>3
<1>c. \A c \in dvCals : old /\ c \in DvCalType /\ c.id = 1 /\ c.ctag = 1
  <2>1. 1 \in DvIds BY DEF DvIds, DvCalendarIds
  <2>2. [id |-> 1, guess |-> FALSE, ctag |-> 1] \in DvCalType BY <2>1 DEF DvCalType
  <2> TAKE c \in dvCals
  <2>3. old BY <1>1
  <2>4. c = [id |-> 1, guess |-> FALSE, ctag |-> 1] BY <1>1
  <2> QED BY <2>2, <2>3, <2>4
<1>5. DvTypes
  <2>1. dvServer \in [DvUids -> [live : BOOLEAN, at : Nat]] BY <1>1
  <2>2. dvCals \subseteq DvCalType /\ \A c \in dvCals : c.ctag <= dvTag
    BY <1>c, <1>2
  <2>3. dvSync \in [DvSyncs -> DvSyncType] /\ \A s \in DvSyncs : dvSync[s].tag <= dvTag
    BY <1>2, DvIdleType DEF DvIdle, DvNull
  <2>4. dvLast \in Nat BY <1>2, DvAssumption
  <2> QED BY <1>1, <1>2, <1>4, <2>1, <2>2, <2>3, <2>4 DEF DvTypes
<1>6. \A s \in DvSyncs : dvSync[s] = DvIdle /\ dvSync[s].pc = "idle" /\ dvSync[s].local = {}
                         /\ dvSync[s].down = {} /\ dvSync[s].cals = {}
  BY <1>2 DEF DvIdle
<1>7. DvPlaces BY <1>6 DEF DvPlaces, DvPlaceOf, DvMerging
<1>8. DvCopies
  <2>1. \A u \in DvUids : u <= dvLast BY <1>2 DEF DvUids
  <2> QED BY <2>1, <1>3, <1>4, <1>6 DEF DvCopies, DvCopyOf
<1>9. DvEditsKept
  <2> SUFFICES ASSUME NEW u \in dvEdited PROVE \E r \in dvRows : r.uid = u /\ r.dirty /\ r.mine
    BY DEF DvEditsKept
  <2>1. old /\ u \in DvUids /\ kind[u] \in {"dirty", "new"} BY <1>1
  <2>2. DvLegacyRow(u, kind[u]) \in dvRows BY <2>1, <1>1
  <2> QED BY <2>1, <2>2, <1>3
<1>10. DvAlone
  <2>0. old => \E c \in dvCals : c.id = 1
    <3>1. old => [id |-> 1, guess |-> FALSE, ctag |-> 1] \in dvCals BY <1>1
    <3> QED BY <3>1
  <2>1. \A r \in dvRows : \E c \in dvCals : c.id = r.cal BY <2>0, <1>3, <1>4
  <2>2. \A c, d \in dvCals : c = d BY <1>1
  <2> QED BY <2>1, <2>2, <1>6 DEF DvAlone
<1>11. DvSingle BY <1>3, <1>4 DEF DvSingle
<1>12. DvVouched
  <2> SUFFICES ASSUME NEW c \in dvCals, NEW u \in DvUids, DvSeen(u) PROVE DvStored(c, u)
    BY DEF DvVouched
  <2>1. old /\ c.id = 1 BY <1>1
  <2>2. kind[u] # "new" /\ dvServer[u].at = 1 BY <1>1 DEF DvSeen
  <2>3. DvLegacyRow(u, kind[u]) \in dvRows BY <2>1, <1>1
  <2> QED BY <2>1, <2>2, <2>3, <1>3 DEF DvStored
<1>13. \A s \in DvSyncs : DvFreshOf(s) /\ DvMergedOf(s) /\ DvPulledOf(s) /\ DvAwaitedOf(s)
  BY <1>6 DEF DvFreshOf, DvMergedOf, DvPulledOf, DvAwaitedOf, DvMerging
<1>14. DvBooks BY <1>2, <1>6 DEF DvBooks
<1>15. DvUnknown
  <2> SUFFICES ASSUME NEW r \in dvRows, r.at = DvNull
               PROVE  ~dvServer[r.uid].live /\ dvServer[r.uid].at = DvNull
    BY DEF DvUnknown
  <2>1. PICK u \in DvUids : r = DvLegacyRow(u, kind[u]) BY <1>4
  <2>2. kind[u] = "new" /\ r.uid = u BY <2>1, <1>3 DEF DvNull
  <2> QED BY <2>2, <1>1 DEF DvNull
<1> QED BY <1>5, <1>7, <1>8, <1>9, <1>10, <1>11, <1>12, <1>13, <1>14, <1>15 DEF DvInv, DvUnraced

\* Every step keeps it.
LEMMA DvStep == DvInv /\ [DvNext]_dvVars => DvInv'
<1> SUFFICES ASSUME DvInv, [DvNext]_dvVars PROVE DvInv' OBVIOUS
<1>1. ASSUME NEW s \in DvSyncs, DvGoesAway(s) PROVE DvInv'
  <2>a. DvTypes /\ DvPlaces /\ DvCopies /\ DvEditsKept BY DEF DvInv
  <2>1. DvAway(s) BY <2>a, <1>1, DvAwayActions
  <2>2. DvTypes' /\ DvPlaces' /\ DvCopies' /\ DvEditsKept'
    BY <2>a, <2>1, DvAwayTypes, DvAwayCopies
  <2>3. dvHist \subseteq dvHist' BY <2>1 DEF DvAway
  <2>4. "raced" \notin dvHist' => DvUnraced' BY <2>a, <2>1, <2>3, DvAwayUnraced DEF DvInv
  <2>5. "raced" \notin dvHist' /\ "cut" \notin dvHist' => DvBooks' /\ DvUnknown'
    BY <2>a, <2>1, <2>3, <1>1, DvAwayUnknown, DvBooksStep DEF DvInv, DvUnraced
  <2> QED BY <2>2, <2>4, <2>5 DEF DvInv
<1>2. CASE \E u \in DvUids, live \in BOOLEAN : DvRemote(u, live) BY <1>2, DvRemoteStep
<1>3. ASSUME NEW s \in DvSyncs, DvPull(s) PROVE DvInv'
  BY <1>1, <1>3, DvPullStep DEF DvGoesAway
<1>4. CASE \E s \in DvSyncs :
             \/ DvBegin(s) \/ DvFetchContacts(s) \/ DvClearContacts(s) \/ DvInsertContact(s)
             \/ DvListCalendars(s) \/ DvReadCtag(s) \/ DvMergeFails(s) \/ DvEnds(s)
  BY <1>4, <1>1 DEF DvGoesAway
<1>5. CASE \E s \in DvSyncs :
             \/ DvDiscover(s) \/ DvSelect(s) \/ DvDown(s) \/ DvDeleteRemote(s) \/ DvPush(s)
             \/ DvWriteRow(s) \/ DvSaveCtag(s)
  BY <1>5, DvDiscoverStep, DvSelectStep, DvDownStep, DvDeleteRemoteStep, DvPushStep, DvWriteRowStep,
     DvSaveCtagStep
<1>6. CASE \E c \in dvCals : DvDeleteCalendar(c) BY <1>6, DvDeleteCalendarStep
<1>7. CASE UNCHANGED dvVars
  <2>0. UNCHANGED <<dvServer, dvTag, dvRange, dvCals, dvRows, dvLast, dvContacts, dvFetched, dvSync,
                    dvEdited, dvHist>>
    BY <1>7 DEF dvVars
  <2>1. \A s \in DvSyncs : DvNextRow(s)' = DvNextRow(s) /\ DvCalendar(s)' = DvCalendar(s)
    BY <2>0, DvFrame
  <2>2. /\ DvTypes => DvTypes'
        /\ DvEditsKept => DvEditsKept'
        /\ DvAlone => DvAlone'
        /\ DvSingle => DvSingle'
        /\ DvVouched => DvVouched'
    BY <2>0 DEF DvTypes, DvEditsKept, DvAlone, DvSingle, DvVouched, DvStored, DvSeen
  <2>3. DvPlaces => DvPlaces' BY <2>0, <2>1 DEF DvPlaces, DvPlaceOf
  <2>4. DvCopies => DvCopies' BY <2>0, <2>1 DEF DvCopies, DvCopyOf
  <2>5. \A s \in DvSyncs : DvFreshOf(s) => DvFreshOf(s)'
    BY <2>0, <2>1 DEF DvFreshOf, DvCurrent, DvSeen
  <2>6. \A s \in DvSyncs : DvMergedOf(s) => DvMergedOf(s)'
    BY <2>0, <2>1 DEF DvMergedOf, DvStored, DvSeen
  <2>7. \A s \in DvSyncs : DvPulledOf(s) /\ DvAwaitedOf(s) => DvPulledOf(s)' /\ DvAwaitedOf(s)'
    BY <2>0 DEF DvPulledOf, DvAwaitedOf
  <2>8. DvUnraced => DvUnraced' BY <2>2, <2>5, <2>6, <2>7 DEF DvUnraced
  <2>9. DvBooks /\ DvUnknown => DvBooks' /\ DvUnknown'
    BY <2>0, <2>1 DEF DvBooks, DvBookOf, DvUnknown
  <2> QED BY <2>0, <2>2, <2>3, <2>4, <2>8, <2>9 DEF DvInv
<1> QED BY <1>2, <1>3, <1>4, <1>5, <1>6, <1>7 DEF DvNext

\* Only the request that sends a row changes the server, and that row saw what it changes.
LEMMA DvUnseenStep ==
    ASSUME DvInv, [DvNext]_dvVars, NEW s \in DvSyncs, dvServer' # dvServer, dvSync'[s] # dvSync[s],
           dvHist = {}, dvServer[DvNextRow(s).uid].live
    PROVE  DvNextRow(s).at = dvServer[DvNextRow(s).uid].at
<1>1. PICK t \in DvSyncs : DvDeleteRemote(t) \/ DvPush(t)
  BY DEF DvNext, DvRemote, DvBegin, DvFetchContacts, DvClearContacts, DvInsertContact,
      DvListCalendars,
         DvDiscover, DvReadCtag, DvPull, DvSelect, DvDown, DvWriteRow, DvSaveCtag, DvMergeFails,
             DvEnds,
         DvDeleteCalendar, DvLocal, dvVars
<1>2. t = s
  <2>1. t # s => dvSync'[s] = dvSync[s]
    BY <1>1, DvRowDoneOf DEF DvDeleteRemote, DvPush, DvGoes, DvInv, DvTypes, DvRowDone
  <2> QED BY <2>1
<1>3. DvIfMatch(DvNextRow(s)) /\ DvAtRows(s) /\ (DvNextRow(s).dirty \/ DvNextRow(s).deleted)
  BY <1>1, <1>2 DEF DvDeleteRemote, DvPush
<1>4. DvNextRow(s).at # DvNull
  BY <1>3, DvToSend
<1> QED BY <1>3, <1>4 DEF DvIfMatch

\* The merge loses nothing (sync_dav, merge_calendar): without an overlap an event has one
\* row and a stored ctag vouches for every event; an edit waits in its row, whatever
\* overlaps; a request that was not cut short leaves the address book as fetched, and
\* another client's change is only overwritten for a row that saw it.
THEOREM NothingLost == DvSpec => DvNothingLost
<1>1. DvInv => DvCtagVouches /\ DvOneRow /\ DvEditsKept /\ DvContactsWhole
  <2> SUFFICES ASSUME DvInv PROVE DvCtagVouches /\ DvOneRow /\ DvContactsWhole BY DEF DvInv
  <2>1. DvQuiet => "raced" \notin dvHist /\ \A s \in DvSyncs : dvSync[s].pc = "idle"
    BY DEF DvQuiet, DvIdle
  <2>2. DvCtagVouches
    BY <2>1 DEF DvCtagVouches, DvInv, DvUnraced, DvVouched, DvSeen, DvStored, DvTypes
  <2>3. DvOneRow BY DEF DvOneRow, DvInv, DvUnraced, DvSingle
  <2>4. DvContactsWhole BY <2>1 DEF DvContactsWhole, DvInv, DvBooks
  <2> QED BY <2>2, <2>3, <2>4
<1>2. DvInv /\ [DvNext]_dvVars =>
        [\A s \in DvSyncs : dvServer' # dvServer /\ dvSync'[s] # dvSync[s] /\ dvHist = {} =>
           LET l == DvNextRow(s) IN dvServer[l.uid].live => l.at = dvServer[l.uid].at]_dvVars
  BY DvUnseenStep
<1> QED BY DvInitInv, DvStep, <1>1, <1>2, PTL DEF DvSpec, DvNothingLost, DvUnseenKept
=============================================================================
