---------------------------- MODULE AuthSessions ----------------------------
(***************************************************************************)
(* Refresh-token rotation of one user's browser: several tabs share one    *)
(* cookie, present it at the same time, lose answers and log out.  The     *)
(* SELECT, the UPDATE that rotates and the INSERT of the new token are     *)
(* separate statements.                                                    *)
(***************************************************************************)
EXTENDS Naturals, FiniteSets

CONSTANTS AuTabs,       \* browser tabs
          AuMaxTokens,  \* bound: tokens issued
          AuMaxNow,     \* bound: the clock
          AuDay,        \* ticks of a calendar day
          AuTtl         \* lifetime of a session that is not remembered

ASSUME AuAssumption ==
    AuMaxTokens \in Nat /\ AuMaxNow \in Nat /\ AuDay \in Nat \ {0} /\ AuTtl \in Nat

AuTokens == 1 .. AuMaxTokens
AuNone == 0

VARIABLES
    auNow,      \* clock; the reuse grace of 60 seconds ends at the next tick
    auRow,      \* refresh_tokens: [revoked, replaced (at), expires], for each issued
    auUsed,     \* tokens issued
    auCookie,   \* the refresh_token cookie of the browser
    auTab,      \* each tab's request: [pc, tok]
    auOut,      \* history: tokens a logout was sent with while nobody used them
    auLeft,     \* history: tokens in the cookie at such a logout, sent or not
    auLost      \* history: an answer was lost, a logout overlapped a refresh,
                \*   or an old cookie was restored

auVars == <<auNow, auRow, auUsed, auCookie, auTab, auOut, auLeft, auLost>>

AuIdle == [pc |-> "idle", tok |-> AuNone]
AuNever == AuMaxNow + 1

AuIssued(expires) == [revoked |-> FALSE, replaced |-> AuNever, expires |-> expires]

AuInit ==
    /\ auNow = 0 /\ auUsed = 0 /\ auCookie = AuNone
    /\ auRow = [k \in AuTokens |-> AuIssued(0)]
    /\ auTab = [t \in AuTabs |-> AuIdle]
    /\ auOut = {} /\ auLeft = {} /\ auLost = FALSE

AuInFlight == {t \in AuTabs : auTab[t] # AuIdle}
AuGoes(t, pc, tok) == auTab' = [auTab EXCEPT ![t] = [pc |-> pc, tok |-> tok]]

(* issue_refresh_token: the session's lifetime starts again. *)
AuInsert(t) ==
    /\ auUsed < AuMaxTokens
    /\ auUsed' = auUsed + 1
    /\ auRow' = [auRow EXCEPT ![auUsed + 1] = AuIssued(auNow + AuTtl)]
    /\ AuGoes(t, "answer", auUsed + 1)

(* login, and register, which logs in. *)
AuLogin(t) ==
    /\ auTab[t] = AuIdle /\ auCookie = AuNone /\ AuInFlight = {}
    /\ AuInsert(t)
    /\ UNCHANGED <<auNow, auCookie, auOut, auLeft, auLost>>

(* The cookie's row.  The comparison is one of text: expires_at is RFC     *)
(* 3339 with a 'T', datetime('now') has a blank there, which is smaller, so  *)
(* that a token expires only at the end of its last day.                   *)
AuUnexpired(k) == auRow[k].expires \div AuDay >= auNow \div AuDay
AuNoGrace(k) == FALSE
AuInGrace(k) == auRow[k].replaced = auNow

(* refresh: the SELECT decides, from the row as it was. *)
AuPresent(t) ==
    /\ auTab[t] = AuIdle /\ auCookie # AuNone
    /\ AuUnexpired(auCookie)
    /\ IF auRow[auCookie].revoked
         THEN AuInGrace(auCookie) /\ AuGoes(t, "issue", auCookie)
         ELSE AuGoes(t, "mark", auCookie)
    /\ UNCHANGED <<auNow, auRow, auUsed, auCookie, auOut, auLeft, auLost>>

(* 401: the tab is logged out. *)
AuRefused == auCookie # AuNone /\
    (~AuUnexpired(auCookie) \/ (auRow[auCookie].revoked /\ ~AuInGrace(auCookie)))

AuMark(t) ==
    /\ auTab[t].pc = "mark"
    /\ auRow' = [auRow EXCEPT ![auTab[t].tok].revoked = TRUE, ![auTab[t].tok].replaced = auNow]
    /\ AuGoes(t, "issue", auTab[t].tok)
    /\ UNCHANGED <<auNow, auUsed, auCookie, auOut, auLeft, auLost>>

AuIssue(t) ==
    /\ auTab[t].pc = "issue"
    /\ AuInsert(t)
    /\ UNCHANGED <<auNow, auCookie, auOut, auLeft, auLost>>

(* The answers arrive in any order; the last Set-Cookie wins. *)
AuAnswer(t) ==
    /\ auTab[t].pc = "answer"
    /\ auCookie' = auTab[t].tok
    /\ AuGoes(t, "idle", AuNone)
    /\ UNCHANGED <<auNow, auRow, auUsed, auOut, auLeft, auLost>>

AuDropped(t) ==
    /\ auTab[t] # AuIdle
    /\ AuGoes(t, "idle", AuNone)
    /\ auLost' = TRUE
    /\ UNCHANGED <<auNow, auRow, auUsed, auCookie, auOut, auLeft>>

(* logout: revoked without a time of replacement, and the cookie dropped.  *)
(* The cookie's path is /api/auth/refresh: a browser does not send it to   *)
(* /api/auth/logout, a client that names it itself does.                   *)
AuRevoked == [auRow[auCookie] EXCEPT !.revoked = TRUE]

AuLogout(carried) ==
    /\ auCookie # AuNone
    /\ auRow' = IF carried THEN [auRow EXCEPT ![auCookie] = AuRevoked] ELSE auRow
    /\ auCookie' = AuNone
    /\ LET unused == AuInFlight = {} /\ auRow[auCookie].replaced = AuNever IN
         /\ auOut' = IF carried /\ unused THEN auOut \cup {auCookie} ELSE auOut
         /\ auLeft' = IF unused THEN auLeft \cup {auCookie} ELSE auLeft
    /\ auLost' = (auLost \/ AuInFlight # {})
    /\ UNCHANGED <<auNow, auUsed, auTab>>

(* A restored browser profile presents a cookie saved before the logout.   *)
AuRestore(k) ==
    /\ k <= auUsed /\ auCookie = AuNone /\ AuInFlight = {}
    /\ k \in auLeft
    /\ auCookie' = k /\ auLost' = TRUE
    /\ UNCHANGED <<auNow, auRow, auUsed, auTab, auOut, auLeft>>

AuTick ==
    /\ auNow < AuMaxNow
    /\ auNow' = auNow + 1
    /\ UNCHANGED <<auRow, auUsed, auCookie, auTab, auOut, auLeft, auLost>>

AuNext ==
    \/ \E t \in AuTabs :
         AuLogin(t) \/ AuPresent(t) \/ AuMark(t) \/ AuIssue(t) \/ AuAnswer(t) \/ AuDropped(t)
    \/ \E carried \in BOOLEAN : AuLogout(carried)
    \/ \E k \in AuTokens : AuRestore(k)
    \/ AuTick

AuSpec == AuInit /\ [][AuNext]_auVars

-----------------------------------------------------------------------------
(* Tabs that refresh at the same time do not log each other out: while no  *)
(* answer was lost, a cookie that is refused belongs to a session that     *)
(* expired or logged out, or its successor has been under way for longer   *)
(* than the grace.                                                         *)
AuTabsStayIn ==
    ~auLost /\ AuRefused /\ AuUnexpired(auCookie) =>
      auCookie \in auOut \/ (AuInFlight # {} /\ auRow[auCookie].replaced < auNow)

(* A token that logged out while no request was using it is exchanged      *)
(* never again.                                                            *)
AuLogoutEnds == \A t \in AuTabs : auTab[t].pc \in {"mark", "issue"} => auTab[t].tok \notin auOut

(* A session nobody renewed ends with the day on which its token expires.  *)
AuExpires ==
    [][\A t \in AuTabs : AuPresent(t) => auNow < auRow[auCookie].expires + AuDay]_auVars

(* Sessions last as long as the rotation of their tokens means them to,    *)
(* and end with logout or expiry, under one name.                          *)
AuSessionsEnd == [](AuTabsStayIn /\ AuLogoutEnds) /\ AuExpires
=============================================================================
