----------------------------- MODULE MCMailbox ------------------------------
(***************************************************************************)
(* The components that find, count, keep, group, judge and send mail, and  *)
(* the contact tasks, on small instances.  They share no state in this     *)
(* model, so one run explores them one at a time: "component" names the    *)
(* one whose actions happen, the others keep their initial values.         *)
(***************************************************************************)
EXTENDS Compose, ContactTasks, FolderCounters, GmailDiscovery, MessageBodies, PhishingScore,
        Threading, TLC

CONSTANT Components

VARIABLE component

mailboxVars == <<component, ctVars, drVars, fcVars, gmVars, mbVars, phVars, thVars>>

FirstInput == CHOOSE in \in PhInputs : TRUE

(* The components with several initial states have one while another is    *)
(* explored.                                                               *)
MailboxInit ==
    /\ component \in Components
    /\ CtInit /\ FcInit /\ ThInit
    /\ DrInit /\ (component = "drafts" \/ drKind = "smtp")
    /\ GmInit /\ (component = "gmail" \/ arrived = 0)
    /\ MbInit /\ (component = "bodies" \/ mbMode = "full")
    /\ PhInit /\ (component = "phishing" \/ phInput = FirstInput)

MailboxNext ==
    /\ UNCHANGED component
    /\ IF component = "bodies" THEN MbNext ELSE UNCHANGED mbVars
    /\ IF component = "counters" THEN FcNext ELSE UNCHANGED fcVars
    /\ IF component = "drafts" THEN DrNext ELSE UNCHANGED drVars
    /\ IF component = "gmail" THEN GmNext ELSE UNCHANGED gmVars
    /\ IF component = "phishing" THEN PhRun ELSE UNCHANGED phVars
    /\ IF component = "tasks" THEN CtNext ELSE UNCHANGED ctVars
    /\ IF component = "threads" THEN ThNext ELSE UNCHANGED thVars

(* FcFairSpec, GmFairSpec and CtFairSpec, of the component explored: the   *)
(* counters, the discovery and the contact tasks must get somewhere.       *)
MailboxFairness ==
    /\ WF_fcVars(component = "counters" /\ (Unchanged \/ SaveCount))
    /\ \A f \in Folders : SF_fcVars(component = "counters" /\ BeginRecount(f))
    /\ WF_gmVars(component = "gmail" /\ SyncStep)
    /\ \A t \in CtTasks : WF_ctVars(component = "tasks" /\ CtTaskStep(t))

MailboxSpec == MailboxInit /\ [][MailboxNext]_mailboxVars /\ MailboxFairness

-----------------------------------------------------------------------------
(* Threading: a conversation a, b, c, d whose last message names two of    *)
(* them, and a list message with its answer.                               *)
References == [m \in ThMessages |-> CASE m = "d" -> <<"a", "c">> [] m = "r" -> <<"l">> [] OTHER -> <<>>]
InReplyTo ==
    [m \in ThMessages |-> CASE m = "b" -> "a" [] m = "c" -> "b" [] m = "d" -> "c" [] m = "r" -> "l"
                           [] OTHER -> ThNone]
Lists == [m \in ThMessages |-> IF m \in {"l", "r"} THEN "list" ELSE ThNone]
Copies == [in |-> {"a", "c", "d", "l", "r"}, sent |-> {"b", "c"}]

(* PhishingScore: a bank with two domains and a subdomain, a look-alike of *)
(* it, and a stranger.                                                     *)
Organisations == [h \in PhHosts \cup {"shop"} |-> IF h = "m.bank" THEN "bank" ELSE h]
Under == {<<"bank", "bank">>, <<"m.bank", "bank">>, <<"bank.de", "bank.de">>}
Near == {<<"bamk", "bank">>}
Brands == <<[domain |-> "bank", name |-> "Bank"], [domain |-> "bank.de", name |-> "Bank"],
            [domain |-> "shop", name |-> "Shop"]>>
Links == [text : {"none", "bank"}, href : {"bank", "evil"}, listed : BOOLEAN]
Inputs ==
    [from : PhHosts \cup {"none"}, replyTo : {"none", "m.bank", "evil"}, returnPath : {"none", "evil"},
     failed : {{}, {"spf", "dkim"}, {"dmarc"}}, claims : SUBSET {"Bank", "Shop"}, links : {<<>>},
     trusted : {{}, {"bank"}}, feedHosts : {{}}, feedEmpty : {TRUE}, parses : BOOLEAN]
    \cup
    [from : {"none", "bank", "evil"}, replyTo : {"none"}, returnPath : {"none"}, failed : {{}},
     claims : {{}}, links : {<<a, b, c, c>> : a, b, c \in Links},
     trusted : {{"bank"}}, feedHosts : {{}, {"evil"}}, feedEmpty : BOOLEAN, parses : {TRUE}]
=============================================================================
