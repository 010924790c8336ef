------------------------------ MODULE MailMoves ------------------------------
(***************************************************************************)
(* One message of an account as it is archived, deleted, moved and marked  *)
(* "not spam": the handlers hide its row and queue a command in memory,    *)
(* the sync task carries commands out one by one and only logs what fails, *)
(* a poll gives every message it finds a row and hides rows whose message  *)
(* is gone.  Three providers: IMAP with MOVE; IMAP without, where a copy   *)
(* and a \Deleted mark stand for it; Gmail over IMAP, where labels do.     *)
(***************************************************************************)
EXTENDS Naturals, FiniteSets, Sequences, SequencesExt

CONSTANTS MvMaxUid,     \* bound: uids a folder gives to the message
          MvMaxOps,     \* bound: requests
          MvMaxQueue    \* bound: commands waiting

ASSUME MvAssumption == MvMaxUid \in Nat /\ MvMaxOps \in Nat /\ MvMaxQueue \in Nat

MvFolders == {"INBOX", "WORK", "SPAM", "ARCHIVE", "TRASH"}    \* by folder_type
MvPlaces == MvFolders \X (1 .. MvMaxUid)

VARIABLES
    mvKind,     \* "move", "copy" or "gmail"
    mvFolders,  \* folders the account has
    mvServer,   \* the message's copies: [at |-> <<folder, uid>>, del |-> marked \Deleted]
    mvNext,     \* the uid a folder gives next
    mvRow,      \* the row of each place: "none", "shown" or "hidden"
    mvReq,      \* the request being handled
    mvQueue,    \* the commands waiting
    mvTask,     \* the command carried out: pc "idle", "do", "mark" or "expunge"
    mvOps,      \* requests so far
    mvHist      \* history: "lost" a command failed or was lost; "again" a marked copy
                \*   was copied; "erased" the user deleted it for good;
                \*   "kept" Gmail moved it and left it where the row was, too

mvVars == <<mvKind, mvFolders, mvServer, mvNext, mvRow, mvReq, mvQueue, mvTask, mvOps, mvHist>>

MvNoReq == [pc |-> "idle", from |-> <<"INBOX", 1>>, dest |-> "INBOX", expunge |-> FALSE]
MvNoTask == [pc |-> "idle", from |-> <<"INBOX", 1>>, dest |-> "INBOX", expunge |-> FALSE]

MvGmail == mvKind = "gmail"
MvCopies == {c.at : c \in mvServer}
MvLive == {c.at : c \in {d \in mvServer : ~d.del}}

MvInit ==
    /\ mvKind \in {"move", "copy", "gmail"}
    /\ mvFolders \in {MvFolders, MvFolders \ {"TRASH"}, MvFolders \ {"ARCHIVE"}}
    /\ mvKind = "gmail" => mvFolders = MvFolders
    /\ \E f \in {"INBOX", "SPAM"} :
         LET places == IF mvKind = "gmail" /\ f # "SPAM" THEN {f, "ARCHIVE"} ELSE {f} IN
         /\ mvServer = {[at |-> <<g, 1>>, del |-> FALSE] : g \in places}
         /\ mvNext = [g \in MvFolders |-> IF g \in places THEN 2 ELSE 1]
    /\ mvRow = [p \in MvPlaces |-> "none"]
    /\ mvReq = MvNoReq /\ mvQueue = <<>> /\ mvTask = MvNoTask
    /\ mvOps = 0 /\ mvHist = {}

-----------------------------------------------------------------------------
(* archive_message leaves the row; delete_message and move_message hide it *)
(* first, and delete one that is in the trash for good; mark_not_spam      *)
(* moves only what is in the spam folder.                                  *)
MvRequest(p, dest, hide, expunge) ==
    /\ mvReq.pc = "idle" /\ mvOps < MvMaxOps /\ Len(mvQueue) < MvMaxQueue
    /\ mvRow[p] # "none"
    /\ mvOps' = mvOps + 1
    /\ mvRow' = IF hide THEN [mvRow EXCEPT ![p] = "hidden"] ELSE mvRow
    /\ mvReq' = [pc |-> "queue", from |-> p, dest |-> dest, expunge |-> expunge]
    /\ mvHist' = IF expunge THEN mvHist \cup {"erased"} ELSE mvHist
    /\ UNCHANGED <<mvKind, mvFolders, mvServer, mvNext, mvQueue, mvTask>>

MvArchive(p) == MvRequest(p, "ARCHIVE", FALSE, FALSE)
MvIsTrash(p) == p[1] = "TRASH"
MvDelete(p) == MvRequest(p, "TRASH", TRUE, MvIsTrash(p))
MvMove(p, dest) == dest \in mvFolders /\ dest # p[1] /\ MvRequest(p, dest, TRUE, FALSE)
MvNotSpam(p) == p[1] = "SPAM" /\ MvRequest(p, "INBOX", TRUE, FALSE)

MvEnqueue ==
    /\ mvReq.pc = "queue"
    /\ mvQueue' = Append(mvQueue, [pc |-> "do", from |-> mvReq.from, dest |-> mvReq.dest,
                                   expunge |-> mvReq.expunge])
    /\ mvReq' = MvNoReq
    /\ UNCHANGED <<mvKind, mvFolders, mvServer, mvNext, mvRow, mvTask, mvOps, mvHist>>

(* The request is dropped while it waits for the queue; or a restart takes *)
(* the queue and the task with it.                                         *)
MvDropped ==
    /\ mvReq.pc = "queue"
    /\ mvReq' = MvNoReq /\ mvHist' = mvHist \cup {"lost"}
    /\ UNCHANGED <<mvKind, mvFolders, mvServer, mvNext, mvRow, mvQueue, mvTask, mvOps>>

MvRestart ==
    /\ mvReq.pc = "queue" \/ mvQueue # <<>> \/ mvTask # MvNoTask
    /\ mvReq' = MvNoReq /\ mvQueue' = <<>> /\ mvTask' = MvNoTask
    /\ mvHist' = mvHist \cup {"lost"}
    /\ UNCHANGED <<mvKind, mvFolders, mvServer, mvNext, mvRow, mvOps>>

-----------------------------------------------------------------------------
(* The task.  resolve_dest_folder finds the folder of the type asked for;  *)
(* without one the name itself is tried, and the server refuses it.        *)
MvTaskRest == UNCHANGED <<mvKind, mvFolders, mvRow, mvReq, mvOps>>

MvTake ==
    /\ mvTask = MvNoTask /\ mvQueue # <<>>
    /\ mvTask' = Head(mvQueue) /\ mvQueue' = Tail(mvQueue)
    /\ MvTaskRest /\ UNCHANGED <<mvServer, mvNext, mvHist>>

MvFrom == mvTask.from
MvSource == {c \in mvServer : c.at = MvFrom}
MvArrives(dest) == [at |-> <<dest, mvNext[dest]>>, del |-> FALSE]
MvGives(dest) == mvNext[dest] <= MvMaxUid /\ mvNext' = [mvNext EXCEPT ![dest] = @ + 1]
MvCompletes == mvTask' = MvNoTask

(* MOVE and COPY succeed with nothing to do if the uid is not there. *)
MvDoMove ==
    /\ mvTask.pc = "do" /\ ~mvTask.expunge /\ mvKind = "move" /\ mvTask.dest \in mvFolders
    /\ IF MvSource = {} THEN UNCHANGED <<mvServer, mvNext>>
       ELSE MvGives(mvTask.dest) /\ mvServer' = (mvServer \ MvSource) \cup {MvArrives(mvTask.dest)}
    /\ MvCompletes
    /\ MvTaskRest /\ UNCHANGED <<mvQueue, mvHist>>

MvMarkFirst == mvServer \ MvSource
MvCopied == mvServer \cup {MvArrives(mvTask.dest)}

MvDoCopy ==
    /\ mvTask.pc = "do" /\ ~mvTask.expunge /\ mvKind = "copy" /\ mvTask.dest \in mvFolders
    /\ IF MvSource = {} THEN UNCHANGED <<mvServer, mvNext>>
       ELSE MvGives(mvTask.dest) /\ mvServer' = MvCopied
    /\ mvTask' = [mvTask EXCEPT !.pc = "mark"]
    /\ mvHist' = IF MvFrom \notin MvLive THEN mvHist \cup {"again"} ELSE mvHist
    /\ MvTaskRest /\ UNCHANGED mvQueue

(* The original is marked and never expunged: expunge_after is FALSE.      *)
MvMarked == {IF c.at = MvFrom THEN [c EXCEPT !.del = TRUE] ELSE c : c \in mvServer}

MvMarkOriginal ==
    /\ mvTask.pc = "mark"
    /\ mvServer' = MvMarked
    /\ IF mvTask.expunge THEN mvTask' = [mvTask EXCEPT !.pc = "expunge"] ELSE MvCompletes
    /\ MvTaskRest /\ UNCHANGED <<mvNext, mvQueue, mvHist>>

(* expunge_uid: the mark, then an EXPUNGE of the whole folder. *)
MvBeginExpunge ==
    /\ mvTask.pc = "do" /\ mvTask.expunge /\ ~MvGmail
    /\ mvTask' = [mvTask EXCEPT !.pc = "mark"]
    /\ MvTaskRest /\ UNCHANGED <<mvServer, mvNext, mvQueue, mvHist>>

MvExpunge ==
    /\ mvTask.pc = "expunge"
    /\ mvServer' = {c \in mvServer : ~(c.del /\ c.at[1] = MvFrom[1])}
    /\ MvCompletes
    /\ MvTaskRest /\ UNCHANGED <<mvNext, mvQueue, mvHist>>

(* Gmail: the id under which the place is known may have to be asked for   *)
(* and fails if the place is empty.  Trash takes every label away; archive *)
(* only INBOX; any other folder adds its label and drops the source's.     *)
MvDropLabels(labels) == {c \in mvServer : c.at[1] \notin labels}
MvSourceLabel == IF MvFrom[1] = "ARCHIVE" THEN {} ELSE {MvFrom[1]}

MvGmailMove ==
    /\ mvTask.pc = "do" /\ ~mvTask.expunge /\ MvGmail /\ MvSource # {}
    /\ LET dest == mvTask.dest
           left == IF dest = "TRASH" THEN {}
                   ELSE IF dest = "ARCHIVE" THEN MvDropLabels({"INBOX"})
                   ELSE MvDropLabels(MvSourceLabel \ {dest})
           added == IF dest \in {"TRASH", "INBOX", "WORK", "SPAM"} THEN {dest} ELSE {}
           all == IF dest \in {"TRASH", "SPAM"} \/ \E c \in left : c.at[1] = "ARCHIVE" THEN {}
                  ELSE {"ARCHIVE"}
           arriving == (added \cup all) \ {c.at[1] : c \in left}
           after == (IF dest = "SPAM" THEN {c \in left : c.at[1] = "SPAM"} ELSE left)
                      \cup {MvArrives(f) : f \in arriving} IN
         /\ \A f \in arriving : mvNext[f] <= MvMaxUid
         /\ mvNext' = [f \in MvFolders |-> IF f \in arriving THEN mvNext[f] + 1 ELSE mvNext[f]]
         /\ mvServer' = after
         /\ mvHist' = IF \E c \in after : c.at = MvFrom THEN mvHist \cup {"kept"} ELSE mvHist
    /\ MvCompletes
    /\ MvTaskRest /\ UNCHANGED mvQueue

MvGmailDelete ==
    /\ mvTask.pc = "do" /\ mvTask.expunge /\ MvGmail /\ MvSource # {}
    /\ mvServer' = {}
    /\ MvCompletes
    /\ MvTaskRest /\ UNCHANGED <<mvNext, mvQueue, mvHist>>

(* The connection, the token, or a command fails, wherever it has got to;  *)
(* it is logged and not tried again.                                       *)
MvFails ==
    /\ mvTask # MvNoTask
    /\ MvCompletes
    /\ mvHist' = mvHist \cup {"lost"}
    /\ MvTaskRest /\ UNCHANGED <<mvServer, mvNext, mvQueue>>

(* A poll, between commands; FolderSync has its details. *)
MvPoll ==
    /\ mvTask = MvNoTask
    /\ mvRow' = [p \in MvPlaces |->
         IF p \in MvLive THEN IF mvRow[p] = "none" THEN "shown" ELSE mvRow[p]
         ELSE IF p \in MvCopies \/ mvRow[p] # "none" THEN "hidden" ELSE "none"]
    /\ mvRow' # mvRow
    /\ UNCHANGED <<mvKind, mvFolders, mvServer, mvNext, mvReq, mvQueue, mvTask, mvOps, mvHist>>

MvStep ==
    \/ \E p \in MvPlaces :
         \/ MvArchive(p) \/ MvDelete(p) \/ MvNotSpam(p)
         \/ \E dest \in {"WORK", "INBOX", "ARCHIVE", "SPAM"} : MvMove(p, dest)
    \/ MvEnqueue \/ MvDropped \/ MvRestart
    \/ MvTake \/ MvDoMove \/ MvDoCopy \/ MvMarkOriginal \/ MvBeginExpunge \/ MvExpunge
    \/ MvGmailMove \/ MvGmailDelete \/ MvFails \/ MvPoll

MvSpec == MvInit /\ [][MvStep]_mvVars

-----------------------------------------------------------------------------
(* A message is not lost on the server, wherever a command fails, unless   *)
(* the user deleted it from the trash.                                     *)
MvNoLoss == "erased" \notin mvHist => MvLive # {}

(* A row is hidden only while its command is on the way, if its message is *)
(* no longer there, or if the command was lost.                            *)
MvOnItsWay(p) ==
    \/ mvReq.pc = "queue" /\ mvReq.from = p
    \/ mvTask # MvNoTask /\ mvTask.from = p
    \/ \E i \in DOMAIN mvQueue : mvQueue[i].from = p

MvHiddenIsGone ==
    mvHist \cap {"lost", "kept"} = {} =>
    \A p \in MvPlaces : mvRow[p] = "hidden" /\ p \in MvLive => MvOnItsWay(p)

(* A message is in one folder - in two with Gmail, whose archive holds all *)
(* - unless a move failed half way or was asked for twice.                 *)
MvOneCopy ==
    mvHist \cap {"lost", "again"} = {} /\ mvTask = MvNoTask /\ ~MvGmail => Cardinality(MvLive) <= 1

(* What moves, archiving and deletion keep of a message, under one name.   *)
MvMessageKept == MvNoLoss /\ MvHiddenIsGone /\ MvOneCopy
=============================================================================
