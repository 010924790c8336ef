------------------------------ MODULE Threading ------------------------------
(***************************************************************************)
(* How messages are grouped into threads: assign_thread_id and jwz_root,   *)
(* the map of known threads that one folder walk reads at its start and    *)
(* keeps for all its chunks, the rows of two folders that may hold copies  *)
(* of one message, and the conversation that get_thread collects.          *)
(*                                                                         *)
(* A message stands for its Message-ID.  The SHA-256 of a root id is the   *)
(* pair <<"root", id>>, of a list and its normalized subject a pair too.   *)
(***************************************************************************)
EXTENDS Integers, Sequences, FiniteSets, FiniteSetsExt, SequencesExt

CONSTANTS ThMessages,
          ThFolders,
          ThNone,           \* no header, no row
          ThReferences,     \* [ThMessages -> Seq(ThMessages)], oldest first
          ThInReplyTo,      \* [ThMessages -> ThMessages \cup {ThNone}]
          ThListOf,         \* [ThMessages -> list and subject, or ThNone]
          ThCopies,         \* [ThFolders -> SUBSET ThMessages]: what each folder holds
          ThMaxPurges       \* bound: renumbered folders

ASSUME ThAssumption ==
    /\ ThReferences \in [ThMessages -> Seq(ThMessages)]
    /\ ThInReplyTo \in [ThMessages -> ThMessages \cup {ThNone}]
    /\ ThNone \notin ThMessages

VARIABLES
    thRow,      \* messages.thread_id of each folder's rows
    thWalk,     \* the folder being walked
    thKnown,    \* existing_threads, read when the walk began
    thPurges,
    thBlind     \* history: messages threaded before anything they answer was known

thVars == <<thRow, thWalk, thKnown, thPurges, thBlind>>

ThStored(f) == {m \in ThMessages : thRow[f][m] # ThNone}
ThIdsOf(m) == {thRow[f][m] : f \in ThFolders} \ {ThNone}

ThInit ==
    /\ thRow = [f \in ThFolders |-> [m \in ThMessages |-> ThNone]]
    /\ thWalk = ThNone /\ thKnown = [m \in ThMessages |-> ThNone]
    /\ thPurges = 0 /\ thBlind = {}

-----------------------------------------------------------------------------
(* assign_thread_id *)

\* What a message answers: its References, else its In-Reply-To alone.
ThAnswered(m) ==
    IF ThReferences[m] # <<>> THEN ThReferences[m]
    ELSE IF ThInReplyTo[m] # ThNone THEN <<ThInReplyTo[m]>> ELSE <<>>

\* Fault: the map of known threads is not consulted.
ThNoneFound(m) == {}

\* Places of the answered messages whose thread is known.
ThFound(m) == {i \in DOMAIN ThAnswered(m) : thKnown[ThAnswered(m)[i]] # ThNone}

\* The root of a chain none of which is known.
ThOldest(s) == Head(s)

\* jwz_root: the thread of the oldest known reference, else one named for the oldest.
ThJwz(m) ==
    IF ThFound(m) # {} THEN thKnown[ThAnswered(m)[Min(ThFound(m))]]
    ELSE <<"root", ThOldest(ThAnswered(m))>>

\* Without an answered message: the mailing list and subject, else the message itself.
ThOwn(m) == IF ThListOf[m] # ThNone THEN <<"list", ThListOf[m]>> ELSE <<"root", m>>

ThAssigned(m) == IF ThAnswered(m) # <<>> THEN ThJwz(m) ELSE ThOwn(m)

-----------------------------------------------------------------------------
(* sync_folder *)

\* The rows of the account become a map; of two rows of one message either may win.
ThBegin(f) ==
    /\ thWalk = ThNone
    /\ thWalk' = f
    /\ \E of \in [ThMessages -> ThFolders] :
        /\ \A m \in ThMessages : ThIdsOf(m) # {} => m \in ThStored(of[m])
        /\ thKnown' = [m \in ThMessages |-> thRow[of[m]][m]]
    /\ UNCHANGED <<thRow, thPurges, thBlind>>

\* A message of a chunk: the upsert takes the new thread id on a conflict too.
ThImport(m) ==
    /\ thWalk # ThNone /\ m \in ThCopies[thWalk]
    /\ thRow' = [thRow EXCEPT ![thWalk][m] = ThAssigned(m)]
    /\ thBlind' = IF \A i \in DOMAIN ThAnswered(m) : thKnown[ThAnswered(m)[i]] = ThNone
                  THEN thBlind \cup {m} ELSE thBlind
    /\ UNCHANGED <<thWalk, thKnown, thPurges>>

\* The chunk walk ends or is interrupted.
ThEnd ==
    /\ thWalk # ThNone
    /\ thWalk' = ThNone /\ thKnown' = [m \in ThMessages |-> ThNone]
    /\ UNCHANGED <<thRow, thPurges, thBlind>>

\* A new UIDVALIDITY removes the folder's rows; the walk imports them again.
ThPurge(f) ==
    /\ thWalk = ThNone /\ thPurges < ThMaxPurges
    /\ thPurges' = thPurges + 1
    /\ thRow' = [thRow EXCEPT ![f] = [m \in ThMessages |-> ThNone]]
    /\ UNCHANGED <<thWalk, thKnown, thBlind>>

ThNext ==
    \/ \E f \in ThFolders : ThBegin(f) \/ ThPurge(f)
    \/ \E m \in ThMessages : ThImport(m)
    \/ ThEnd

ThSpec == ThInit /\ [][ThNext]_thVars

-----------------------------------------------------------------------------
(* get_thread *)

\* All rows of the thread over the folders, copies of one message collapsed.
ThView(t) == {m \in ThMessages : t \in ThIdsOf(m)}

-----------------------------------------------------------------------------
(* Properties. *)

\* The messages a message descends from, itself included.
ThAncestors ==
    [m \in ThMessages |-> ({m} \cup Range(ThReferences[m]) \cup {ThInReplyTo[m]}) \ {ThNone}]
ThChain ==
    [m \in ThMessages |->
        {n \in ThMessages : \A S \in SUBSET ThMessages :
            m \in S /\ (\A a \in S : ThAncestors[a] \subseteq S) => n \in S}]
ThRoot == [m \in ThMessages |-> CHOOSE r \in ThChain[m] : ThAnswered(r) = <<>>]

\* The headers on a message's chain name one conversation: they lead back to one message
\* that answers nothing, not to two and not in a circle.
ThOneConversation(m) ==
    \A a \in ThChain[m] : \E r \in ThMessages : {q \in ThChain[a] : ThAnswered(q) = <<>>} = {r}

\* Threading a message before its chain is known guesses the root from its oldest
\* reference, and guesses wrong when that is not the root or the root is list mail.
ThGuessedWrong(m) ==
    m \in thBlind /\ ThAnswered(m) # <<>> /\ <<"root", Head(ThAnswered(m))>> # ThOwn(ThRoot[m])

\* A conversation is one thread, in whatever order its messages and their copies in
\* several folders are stored, walked again or renumbered: opening one message shows
\* every stored message of its conversation, unless a message on the chain of either
\* was threaded too early or its headers name several conversations (assign_thread_id,
\* existing_threads, get_thread).
ThViewWhole ==
    \A f \in ThFolders : \A m \in ThStored(f), n \in ThMessages :
        /\ ThIdsOf(n) # {} /\ ThOwn(ThRoot[m]) = ThOwn(ThRoot[n])
        /\ ThOneConversation(m) /\ ThOneConversation(n)
        /\ \A a \in ThChain[m] \cup ThChain[n] : ~ThGuessedWrong(a)
        => n \in ThView(thRow[f][m])
=============================================================================
