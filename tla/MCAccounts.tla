---------------------------- MODULE MCAccounts -----------------------------
(***************************************************************************)
(* Logins and credentials, and what the remote accounts hold - the mail of *)
(* the API providers, calendars, contacts, DAV collections - on small      *)
(* instances.  They share no state in this model, so one run explores      *)
(* them one at a time: "component" names the one whose actions happen, the *)
(* others keep their initial values.                                       *)
(***************************************************************************)
EXTENDS AccountCredentials, AuthSessions, CalendarSync, ContactEdits, DavSync, GmailDiscovery,
        OutlookSync

CONSTANT Components

VARIABLE component

accountsVars == <<component, auVars, caVars, ceVars, crVars, dvVars, gmVars, olVars>>

NoEvent == [live |-> FALSE, at |-> 0]

(* The components with several initial states have one while another is    *)
(* explored.                                                               *)
AccountsInit ==
    /\ component \in Components
    /\ AuInit /\ CrInit /\ OlInit
    /\ CaInit /\ (component = "calendar" \/ caKind = "caldav")
    /\ CeInit /\ (component = "contacts" \/ ceKind = "carddav")
    /\ DvInit
    /\ (component = "dav" \/ (dvCals = {} /\ dvRange = {} /\ \A u \in DvUids : dvServer[u] = NoEvent))
    /\ GmInit /\ (component = "gmail" \/ arrived = 0)

AccountsNext ==
    /\ UNCHANGED component
    /\ IF component = "calendar" THEN CaNext ELSE UNCHANGED caVars
    /\ IF component = "contacts" THEN CeNext ELSE UNCHANGED ceVars
    /\ IF component = "credentials" THEN CrNext ELSE UNCHANGED crVars
    /\ IF component = "dav" THEN DvNext ELSE UNCHANGED dvVars
    /\ IF component = "gmail" THEN GmNext ELSE UNCHANGED gmVars
    /\ IF component = "outlook" THEN OlNext ELSE UNCHANGED olVars
    /\ IF component = "sessions" THEN AuNext ELSE UNCHANGED auVars

AccountsSpec == AccountsInit /\ [][AccountsNext]_accountsVars
=============================================================================
