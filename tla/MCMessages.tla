----------------------------- MODULE MCMessages -----------------------------
(***************************************************************************)
(* What a user does with the messages of an account, on small instances:   *)
(* flags changed through the outbox, moves between folders, the list that  *)
(* is scrolled, and the sync cycle beside them.  They share no state in    *)
(* this model, so one run explores them one at a time: "component" names   *)
(* the one whose actions happen, the others keep their initial values.     *)
(* The requests that change flags are interchangeable.                     *)
(***************************************************************************)
EXTENDS MCFlagOutbox, MailList, MailMoves, SyncCycle

CONSTANTS Components, Second

VARIABLE component

messagesVars == <<component, vars, mlVars, mvVars, scVars>>

(* The components with several initial states have one while another is    *)
(* explored.                                                               *)
MessagesInit ==
    /\ component \in Components
    /\ Init /\ MlInit
    /\ component = "flags" \/ local = Blank
    /\ MvInit /\ (component = "moves" \/ (mvKind = "gmail" /\ mvNext["SPAM"] = 1))
    /\ ScInit /\ (component = "cycle" \/ (scKind = "gmail_imap" /\ scMail = scRows))

MessagesNext ==
    /\ UNCHANGED component
    /\ IF component = "cycle" THEN ScNext ELSE UNCHANGED scVars
    /\ IF component = "flags" THEN Next ELSE UNCHANGED vars
    /\ IF component = "list" THEN MlNext ELSE UNCHANGED mlVars
    /\ IF component = "moves" THEN MvStep ELSE UNCHANGED mvVars

MessagesSpec == MessagesInit /\ [][MessagesNext]_messagesVars

-----------------------------------------------------------------------------
(* MailList: the second message is in the other account's inbox and needs  *)
(* the fuzzy search.                                                       *)
Home == [m \in MlMessages |-> IF m = Second THEN "in2" ELSE "in1"]
Word == [m \in MlMessages |-> IF m = Second THEN 1 ELSE 0]

(* SyncCycle. *)
FolderTypes == [f \in ScFolders |-> IF f = "in" THEN "INBOX" ELSE "ARCHIVE"]
=============================================================================
