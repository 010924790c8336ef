-------------------------------- MODULE IdMap --------------------------------
(***************************************************************************)
(* What the id map of a REST folder promises (remote_message_ids): remote  *)
(* ids get local uids that IMAP-style incremental synchronisation can use. *)
(* A batch of new ids is numbered oldest first, above every uid in use;    *)
(* ids that left the folder give their uids back.                          *)
(*                                                                         *)
(* GmailDiscovery and OutlookSync implement it.                            *)
(***************************************************************************)
EXTENDS Naturals

CONSTANT Ids        \* remote ids, numbered by age: 1 is the oldest

VARIABLE uidOf      \* the uid of an id, 0 when it has none

Init == uidOf = [i \in Ids |-> 0]

Assign(new) ==
    /\ \A i \in new : uidOf[i] = 0
    /\ uidOf' \in [Ids -> Nat]
    /\ \A i \in Ids \ new : uidOf'[i] = uidOf[i]
    /\ \A i \in new, j \in Ids : uidOf'[i] > uidOf[j]
    /\ \A i, j \in new : i < j => uidOf'[i] < uidOf'[j]

Release(gone) == uidOf' = [i \in Ids |-> IF i \in gone THEN 0 ELSE uidOf[i]]

Next == \E batch \in SUBSET Ids : Assign(batch) \/ Release(batch)

Spec == Init /\ [][Next]_uidOf

-----------------------------------------------------------------------------
(* No two ids of a folder have one uid: the primary key of the table, and  *)
(* what keeps a stored row to one message (IdMap::assign, remove).         *)
Distinct ==
    /\ uidOf \in [Ids -> Nat]
    /\ \A i, j \in Ids : uidOf[i] # 0 /\ uidOf[i] = uidOf[j] => i = j
=============================================================================
