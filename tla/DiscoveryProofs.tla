--------------------------- MODULE DiscoveryProofs ---------------------------
(***************************************************************************)
(* The discovery of the two REST providers and their id maps, for every    *)
(* number of messages, page size and page budget:                          *)
(*   - IdMap keeps the uids of a folder distinct, and the mapping of a     *)
(*     Gmail label and of an Outlook folder implement IdMap.  A step that  *)
(*     assigns maps to IdMap's Assign of the ids just found, one that      *)
(*     drops mappings to Release, every other step stutters;               *)
(*   - in a complete Gmail label what is unknown is newer than what is     *)
(*     known, so that the incremental scan may stop at the first known     *)
(*     message, as long as no older message is moved in and no cycle is    *)
(*     cut short; each alone makes it false;                               *)
(*   - the rows and the cursor of an Outlook folder stay true to its       *)
(*     messages, and what its discovery misses is accounted for, whatever  *)
(*     requests fail and wherever a cycle is cut.                          *)
(* And the counters of the folders the messages are stored in, for every   *)
(* finite set of messages, every set of folders and every bound: they keep *)
(* their types, live_message_count is exact, unread_count is wrong only in *)
(* a folder that raced.                                                    *)
(***************************************************************************)
EXTENDS GmailDiscovery, OutlookSync, FolderCounters, FiniteSetTheorems, WellFoundedInduction,
        TLAPS

-----------------------------------------------------------------------------
(* Ages, and the ends of a page. *)

\* Numbering the members of a batch by age: of two ids of a set of numbers, the later
\* one has more members up to it, and each has one at least.
LEMMA RankGrows ==
    ASSUME NEW n \in Nat, NEW S \in SUBSET (1 .. n), NEW j \in S
    PROVE  /\ Cardinality({k \in S : k <= j}) \in Nat \ {0}
           /\ \A i \in S : i < j => Cardinality({k \in S : k <= i}) < Cardinality({k \in S : k <= j})
<1> DEFINE UpTo(i) == {k \in S : k <= i}
<1>0. \A i \in S : i \in Nat
  OBVIOUS
<1>1. \A i \in S : IsFiniteSet(UpTo(i))
  <2>1. IsFiniteSet(1 .. n)
    BY FS_Interval
  <2>2. ASSUME NEW i \in S PROVE UpTo(i) \subseteq 1 .. n
    OBVIOUS
  <2> QED BY <2>1, <2>2, FS_Subset
<1>2. \A i \in S : Cardinality(UpTo(i)) \in Nat
  BY <1>1, FS_CardinalityType
<1>3. Cardinality(UpTo(j)) # 0
  <2>1. j \in UpTo(j)
    BY <1>0
  <2> QED BY <1>1, <2>1, FS_EmptySet
<1>4. ASSUME NEW i \in S, i < j PROVE Cardinality(UpTo(i)) < Cardinality(UpTo(j))
  <2>1. UpTo(i) \subseteq UpTo(j)
    <3>1. ASSUME NEW k \in S, k <= i PROVE k <= j
      BY <1>0, <1>4, <3>1
    <3> QED BY <3>1
  <2>2. j \in UpTo(j) /\ j \notin UpTo(i)
    BY <1>0, <1>4
  <2>3. UpTo(i) # UpTo(j)
    BY <2>2
  <2>4. IsFiniteSet(UpTo(j))
    BY <1>1
  <2>5. Cardinality(UpTo(i)) <= Cardinality(UpTo(j))
        /\ (Cardinality(UpTo(i)) = Cardinality(UpTo(j)) => UpTo(i) = UpTo(j))
    BY <2>1, <2>4, FS_Subset
  <2> HIDE DEF UpTo
  <2> QED BY <2>3, <2>5, <1>2
<1> QED BY <1>2, <1>3, <1>4

Smaller == {p \in Nat \X Nat : p[1] < p[2]}

\* The numbers of messages are well ordered.
LEMMA SmallerWellFounded == IsWellFoundedOn(Smaller, Nat)
BY NatLessThanWellFounded, Zenon DEF OpToRel, Smaller

\* Min of a set of numbers is its least member.
LEMMA Least ==
    ASSUME NEW S \in SUBSET Nat, S # {}
    PROVE  Min(S) \in S /\ \A y \in S : Min(S) <= y
<1>1. PICK x \in S : \A y \in S : ~(<<y, x>> \in Smaller)
  BY SmallerWellFounded, WFMin
<1>2. ASSUME NEW y \in S PROVE x <= y
  <2>1. x \in Nat /\ y \in Nat /\ <<y, x>> \in Nat \X Nat
    OBVIOUS
  <2>2. ~(<<y, x>>[1] < <<y, x>>[2])
    BY <1>1, <2>1 DEF Smaller
  <2> QED BY <2>1, <2>2
<1>3. \E z \in S : \A y \in S : z <= y
  BY <1>2
<1> QED BY <1>3, Zenon DEF Min

\* Max of a bounded one is its greatest.
LEMMA Greatest ==
    ASSUME NEW n \in Nat, NEW S \in SUBSET (0 .. n), S # {}
    PROVE  Max(S) \in S /\ \A y \in S : Max(S) >= y
<1> DEFINE T == {n - s : s \in S}
<1>1. \A s \in S : s \in 0 .. n /\ n - s \in Nat
  OBVIOUS
<1>2. T \in SUBSET Nat /\ T # {}
  BY <1>1
<1>3. Min(T) \in T /\ \A y \in T : Min(T) <= y
  BY <1>2, Least
<1>4. PICK s \in S : Min(T) = n - s
  BY <1>3
<1>5. \A y \in S : n - s <= n - y
  BY <1>1, <1>3, <1>4
<1>6. \E z \in S : \A y \in S : z >= y
  BY <1>1, <1>5
<1> QED BY <1>6, Zenon DEF Max

\* A page of a listing: the newest of what is left of it.
Newest(B, size) == {m \in B : Cardinality({k \in B : k > m}) < size}

\* What is left to list and newer than a message of the page is on it too, and all that
\* is left is on it when the page is empty (a listing is newest first).
LEMMA NewestOnTop ==
    ASSUME NEW n \in Nat, NEW size \in Nat \ {0}, NEW B \in SUBSET (1 .. n)
    PROVE  /\ Newest(B, size) \subseteq B
           /\ \A m \in Newest(B, size), k \in B : k > m => k \in Newest(B, size)
           /\ Newest(B, size) # {} =>
                /\ Min(Newest(B, size)) \in Newest(B, size)
                /\ \A m \in Newest(B, size) : Min(Newest(B, size)) <= m
           /\ Newest(B, size) = {} => B = {}
<1> DEFINE P == Newest(B, size)
           Above(m) == {k \in B : k > m}
<1>2. \A k \in B : k \in Nat
  OBVIOUS
<1>3. IsFiniteSet(B)
  <2>1. IsFiniteSet(1 .. n)
    BY FS_Interval
  <2> QED BY <2>1, FS_Subset
<1>4. P = {m \in B : Cardinality(Above(m)) < size}
  BY DEF Newest
<1> HIDE DEF P
<1>5. \A m \in B : IsFiniteSet(Above(m)) /\ Cardinality(Above(m)) \in Nat
  <2>1. \A m \in B : Above(m) \subseteq B
    OBVIOUS
  <2>2. \A m \in B : IsFiniteSet(Above(m))
    BY <1>3, <2>1, FS_Subset
  <2> QED BY <2>2, FS_CardinalityType
<1>6. ASSUME NEW m \in P, NEW k \in B, k > m PROVE k \in P
  <2>1. m \in B /\ Cardinality(Above(m)) < size
    BY <1>4
  <2>2. ASSUME NEW e \in Above(k) PROVE e \in Above(m)
    BY <1>6, <1>2, <2>1
  <2>3. Cardinality(Above(k)) <= Cardinality(Above(m))
    <3>1. Above(k) \subseteq Above(m)
      BY <2>2
    <3> QED BY <1>5, <2>1, <3>1, FS_Subset
  <2>4. Cardinality(Above(k)) \in Nat /\ Cardinality(Above(m)) \in Nat
    BY <1>5, <2>1
  <2> HIDE DEF Above
  <2>5. Cardinality(Above(k)) < size
    BY <2>1, <2>3, <2>4
  <2> QED BY <1>4, <2>5
<1>7. P # {} => Min(P) \in P /\ \A m \in P : Min(P) <= m
  <2>1. P \in SUBSET Nat
    BY <1>4, <1>2
  <2> QED BY <2>1, Least
<1>8. P = {} => B = {}
  <2> SUFFICES ASSUME B # {} PROVE P # {}
    OBVIOUS
  <2>1. B \in SUBSET (0 .. n)
    OBVIOUS
  <2>2. Max(B) \in B /\ \A y \in B : Max(B) >= y
    BY <2>1, Greatest
  <2>3. Above(Max(B)) = {}
    <3>1. PICK top \in B : top = Max(B) /\ \A y \in B : top >= y
      BY <2>2
    <3>2. ASSUME NEW k \in B PROVE ~(k > top)
      BY <1>2, <3>1
    <3> QED BY <3>1, <3>2
  <2>4. Cardinality(Above(Max(B))) = 0
    BY <2>3, FS_EmptySet
  <2> QED BY <1>4, <2>2, <2>4
<1>9. P \subseteq B
  BY <1>4
<1> QED BY <1>6, <1>7, <1>8, <1>9 DEF P

-----------------------------------------------------------------------------
(* The id maps. *)

\* What the refinement of the label's map needs: uids are natural numbers, and only
\* messages that may exist are listed and found.
GmMapInv ==
    /\ arrived \in 0 .. MaxMsg /\ label \subseteq 1 .. arrived
    /\ uidOf \in [Msg -> Nat] /\ found \subseteq Msg

\* The same for the Outlook folder.
OlMapInv ==
    /\ olFolder \subseteq OlDates
    /\ olUid \in [OlDates -> Nat] /\ olFound \subseteq OlDates

(* The Gmail label. *)

LEMMA GmMapInit == GmInit => GmMapInv /\ GmailMap!Init
BY GmConstantAssumption DEF GmInit, GmMapInv, GmailMap!Init, Msg

\* IdMap::assign on the ids found: the batch is the set of those still unmapped.
LEMMA GmAssigns ==
    ASSUME GmMapInv, AssignIds
    PROVE  GmMapInv' /\ \E batch \in SUBSET Msg : GmailMap!Assign(batch)
<1> DEFINE batch == {m \in found : uidOf[m] = 0}
           rank(m) == Cardinality({n \in found : n <= m})
<1>1. PICK top \in {uidOf[m] : m \in Msg} \cup {0} :
        (\A m \in Msg : uidOf[m] <= top) /\ uidOf' = Assigned(top)
  BY DEF AssignIds
<1>2. top \in Nat
  BY DEF GmMapInv
<1>3. MaxMsg \in Nat /\ found \in SUBSET (1 .. MaxMsg)
  BY GmConstantAssumption DEF GmMapInv, Msg
<1>4. \A m \in found : rank(m) \in Nat \ {0}
  BY <1>3, RankGrows
<1>5. \A i, j \in found : i < j => rank(i) < rank(j)
  BY <1>3, RankGrows
<1>6. uidOf' = [m \in Msg |-> IF m \in batch THEN top + rank(m) ELSE uidOf[m]]
  BY <1>1 DEF Assigned
<1>7. batch \in SUBSET Msg /\ batch \subseteq found
  BY DEF GmMapInv
<1> HIDE DEF batch, rank
<1>8. uidOf' \in [Msg -> Nat]
  BY <1>2, <1>4, <1>6, <1>7 DEF GmMapInv
<1>9. \A i \in batch : uidOf[i] = 0
  BY DEF batch
<1>10. \A i \in batch, j \in Msg : uidOf'[i] > uidOf[j]
  BY <1>1, <1>2, <1>4, <1>6, <1>7 DEF GmMapInv
<1>11. \A i, j \in batch : i < j => uidOf'[i] < uidOf'[j]
  BY <1>2, <1>4, <1>5, <1>6, <1>7
<1>12. \A i \in Msg \ batch : uidOf'[i] = uidOf[i]
  BY <1>6
<1>13. GmailMap!Assign(batch)
  BY <1>8, <1>9, <1>10, <1>11, <1>12 DEF GmailMap!Assign
<1>14. GmMapInv'
  BY <1>8 DEF GmMapInv, AssignIds, pass, durable
<1> QED BY <1>7, <1>13, <1>14

\* fetch_flags takes the mappings of the messages without the label.
LEMMA GmReleases ==
    ASSUME GmMapInv, FetchFlags
    PROVE  GmMapInv' /\ \E batch \in SUBSET Msg : GmailMap!Release(batch)
<1> DEFINE gone == {m \in Mapped : uidOf[m] <= lastUid} \ label
<1>1. uidOf' = [m \in Msg |-> IF m \in gone THEN 0 ELSE uidOf[m]]
  BY DEF FetchFlags
<1>2. gone \in SUBSET Msg
  BY DEF Mapped
<1>3. GmailMap!Release(gone)
  BY <1>1 DEF GmailMap!Release
<1>4. GmMapInv'
  BY <1>1 DEF GmMapInv, FetchFlags, pass
<1> QED BY <1>2, <1>3, <1>4

\* The other steps leave the map alone.
LEMMA GmStutters ==
    ASSUME GmMapInv, [GmNext]_gmVars, ~AssignIds, ~FetchFlags
    PROVE  GmMapInv' /\ UNCHANGED uidOf
<1> USE GmConstantAssumption DEF GmMapInv, Msg
<1>1. CASE HideGone
  BY <1>1 DEF HideGone, pass
<1>2. CASE BeginPass
  BY <1>2 DEF BeginPass, durable
<1>3. CASE ListPage
  <2>1. Collected \subseteq label
    BY DEF Collected, Page, Below
  <2> QED BY <1>3, <2>1 DEF ListPage, durable
<1>4. CASE TokenExpired
  BY <1>4 DEF TokenExpired
<1>5. CASE SetBackfillState
  BY <1>5 DEF SetBackfillState, PassOutOfScope
<1>6. CASE ImportChunk
  BY <1>6 DEF ImportChunk, pass
<1>7. CASE Arrive
  BY <1>7 DEF Arrive, durable, pass
<1>8. ASSUME NEW m \in Msg, Unlabel(m) PROVE GmMapInv' /\ UNCHANGED uidOf
  BY <1>8 DEF Unlabel, durable, pass
<1>9. ASSUME NEW m \in Msg, Relabel(m) PROVE GmMapInv' /\ UNCHANGED uidOf
  BY <1>9 DEF Relabel, durable, pass
<1>10. CASE GmInterrupted
  BY <1>10 DEF GmInterrupted, PassOutOfScope, durable
<1>11. CASE UNCHANGED gmVars
  BY <1>11 DEF gmVars, durable, pass
<1> QED
  BY <1>1, <1>2, <1>3, <1>4, <1>5, <1>6, <1>7, <1>8, <1>9, <1>10, <1>11
  DEF GmNext, SyncStep, Gmail

LEMMA GmMapStep ==
    ASSUME GmMapInv, [GmNext]_gmVars
    PROVE  GmMapInv' /\ [GmailMap!Next]_uidOf
<1>1. CASE AssignIds
  BY <1>1, GmAssigns DEF GmailMap!Next
<1>2. CASE FetchFlags
  BY <1>2, GmReleases DEF GmailMap!Next
<1>3. CASE ~AssignIds /\ ~FetchFlags
  BY <1>3, GmStutters
<1> QED BY <1>1, <1>2, <1>3

\* The mapping of a Gmail label implements IdMap, whatever is listed, interrupted,
\* moved or expires (IdMap::assign, fetch_flags).
THEOREM GmailImplementsIdMap == GmSpec => LabelHasIdMap
<1>1. GmInit => GmMapInv /\ GmailMap!Init
  BY GmMapInit
<1>2. GmMapInv /\ [GmNext]_gmVars => GmMapInv' /\ [GmailMap!Next]_uidOf
  BY GmMapStep
<1> QED BY <1>1, <1>2, PTL DEF GmSpec, LabelHasIdMap, GmailMap!Spec

-----------------------------------------------------------------------------
(* The Outlook folder. *)

LEMMA OlMapInit == OlInit => OlMapInv /\ OutlookMap!Init
BY DEF OlInit, OlMapInv, OutlookMap!Init

\* The ids a pass found get their uids (IdMap::assign).
LEMMA OlAssigns ==
    ASSUME OlMapInv, OlAssign
    PROVE  OlMapInv' /\ \E batch \in SUBSET OlDates : OutlookMap!Assign(batch)
<1> DEFINE batch == {d \in olFound : olUid[d] = 0}
           rank(d) == Cardinality({e \in olFound : e <= d})
<1>1. PICK top \in {olUid[d] : d \in OlDates} \cup {0} :
        (\A d \in OlDates : olUid[d] <= top) /\ olUid' = OlAssigned(top)
  BY DEF OlAssign
<1>2. top \in Nat
  BY DEF OlMapInv
<1>3. OlMaxDate \in Nat /\ olFound \in SUBSET (1 .. OlMaxDate)
  BY OlAssumption DEF OlMapInv, OlDates
<1>4. \A d \in olFound : rank(d) \in Nat \ {0}
  BY <1>3, RankGrows
<1>5. \A i, j \in olFound : i < j => rank(i) < rank(j)
  BY <1>3, RankGrows
<1>6. olUid' = [d \in OlDates |-> IF d \in batch THEN top + rank(d) ELSE olUid[d]]
  BY <1>1 DEF OlAssigned
<1>7. batch \in SUBSET OlDates /\ batch \subseteq olFound
  BY DEF OlMapInv
<1> HIDE DEF batch, rank
<1>8. olUid' \in [OlDates -> Nat]
  BY <1>2, <1>4, <1>6, <1>7 DEF OlMapInv
<1>9. \A i \in batch : olUid[i] = 0
  BY DEF batch
<1>10. \A i \in batch, j \in OlDates : olUid'[i] > olUid[j]
  BY <1>1, <1>2, <1>4, <1>6, <1>7 DEF OlMapInv
<1>11. \A i, j \in batch : i < j => olUid'[i] < olUid'[j]
  BY <1>2, <1>4, <1>5, <1>6, <1>7
<1>12. \A i \in OlDates \ batch : olUid'[i] = olUid[i]
  BY <1>6
<1>13. OutlookMap!Assign(batch)
  BY <1>8, <1>9, <1>10, <1>11, <1>12 DEF OutlookMap!Assign
<1>14. OlMapInv'
  BY <1>8 DEF OlMapInv, OlAssign, OlNoPass
<1> QED BY <1>7, <1>13, <1>14

\* A 404 takes the mappings of the messages that are gone, of all that were asked for
\* or of the ones before the request that failed (fetch_flags).
LEMMA OlReleases ==
    ASSUME OlMapInv, OlFetchFlags
    PROVE  OlMapInv' /\ \E batch \in SUBSET OlDates : OutlookMap!Release(batch)
<1>1. PICK asked \in SUBSET OlDates :
        olUid' = [d \in OlDates |-> IF d \in OlGone(asked) THEN 0 ELSE olUid[d]]
  BY DEF OlFetchFlags, OlMapped
<1>2. OlGone(asked) \in SUBSET OlDates
  BY DEF OlGone
<1>3. OutlookMap!Release(OlGone(asked))
  BY <1>1 DEF OutlookMap!Release
<1>4. OlMapInv'
  BY <1>1 DEF OlMapInv, OlFetchFlags, olPass
<1> QED BY <1>2, <1>3, <1>4

\* A move of the user takes the mapping of its message, unless it is cut or refused.
LEMMA OlMoves ==
    ASSUME OlMapInv, NEW d \in OlDates, OlMove(d)
    PROVE  OlMapInv' /\ (UNCHANGED olUid \/ OutlookMap!Release({d}))
<1>1. UNCHANGED olUid \/ olUid' = [olUid EXCEPT ![d] = 0]
  BY DEF OlMove
<1>2. olUid' = [olUid EXCEPT ![d] = 0] => OutlookMap!Release({d})
  BY DEF OutlookMap!Release, OlMapInv
<1>3. OlMapInv'
  BY <1>1 DEF OlMapInv, OlMove, olPass
<1> QED BY <1>1, <1>2, <1>3

\* The other steps leave the map alone.
LEMMA OlStutters ==
    ASSUME OlMapInv, [OlNext]_olVars, ~OlAssign, ~OlFetchFlags, ~\E d \in OlDates : OlMove(d)
    PROVE  OlMapInv' /\ UNCHANGED olUid
<1> USE DEF OlMapInv, olStore, olPass
<1>1. ASSUME NEW d \in OlDates, OlArrive(d) PROVE OlMapInv' /\ UNCHANGED olUid
  BY <1>1 DEF OlArrive
<1>2. ASSUME NEW d \in OlDates, OlLeave(d) PROVE OlMapInv' /\ UNCHANGED olUid
  BY <1>2 DEF OlLeave
<1>3. CASE OlHideGone
  BY <1>3 DEF OlHideGone
<1>4. CASE OlBegin
  BY <1>4 DEF OlBegin
<1>5. CASE OlListPage
  BY <1>5 DEF OlListPage, OlPage, OlListed
<1>6. CASE OlPassFails
  BY <1>6 DEF OlPassFails, OlEndCycle, OlNoPass
<1>7. CASE OlImport
  BY <1>7 DEF OlImport
<1>8. CASE OlInterrupted
  BY <1>8 DEF OlInterrupted, OlEndCycle, OlNoPass
<1>9. CASE UNCHANGED olVars
  BY <1>9 DEF olVars
<1> QED BY <1>1, <1>2, <1>3, <1>4, <1>5, <1>6, <1>7, <1>8, <1>9 DEF OlNext

LEMMA OlMapStep ==
    ASSUME OlMapInv, [OlNext]_olVars
    PROVE  OlMapInv' /\ [OutlookMap!Next]_olUid
<1>1. CASE OlAssign
  BY <1>1, OlAssigns DEF OutlookMap!Next
<1>2. CASE OlFetchFlags
  BY <1>2, OlReleases DEF OutlookMap!Next
<1>3. ASSUME NEW d \in OlDates, OlMove(d) PROVE OlMapInv' /\ [OutlookMap!Next]_olUid
  BY <1>3, OlMoves DEF OutlookMap!Next
<1>4. CASE ~OlAssign /\ ~OlFetchFlags /\ ~\E d \in OlDates : OlMove(d)
  BY <1>4, OlStutters
<1> QED BY <1>1, <1>2, <1>3, <1>4

\* The mapping of an Outlook folder implements IdMap, whatever requests fail and
\* however the user's moves end (IdMap::assign, fetch_flags, move_message).
THEOREM OutlookImplementsIdMap == OlSpec => OutlookMap!Spec
<1>1. OlInit => OlMapInv /\ OutlookMap!Init
  BY OlMapInit
<1>2. OlMapInv /\ [OlNext]_olVars => OlMapInv' /\ [OutlookMap!Next]_olUid
  BY OlMapStep
<1> QED BY <1>1, <1>2, PTL DEF OlSpec, OutlookMap!Spec

-----------------------------------------------------------------------------
(* What an implementation of IdMap may rely on. *)

\* A batch numbered oldest first above all uids in use leaves no uid twice.
LEMMA BatchStaysDistinct ==
    ASSUME NEW I \in SUBSET Nat, NEW batch \in SUBSET I,
           NEW u \in [I -> Nat], NEW v \in [I -> Nat],
           \A i, j \in I : u[i] # 0 /\ u[i] = u[j] => i = j,
           \A i \in I \ batch : v[i] = u[i],
           \A i \in batch, j \in I : v[i] > u[j],
           \A i, j \in batch : i < j => v[i] < v[j]
    PROVE  \A i, j \in I : v[i] # 0 /\ v[i] = v[j] => i = j
<1> SUFFICES ASSUME NEW i \in I, NEW j \in I, v[i] # 0, v[i] = v[j] PROVE i = j
  OBVIOUS
<1>1. CASE i \in batch /\ j \in batch
  BY <1>1
<1>2. CASE i \notin batch /\ j \notin batch
  BY <1>2
<1>3. CASE (i \in batch) # (j \in batch)
  BY <1>3
<1> QED BY <1>1, <1>2, <1>3

\* No two messages of a label have one uid, so that a stored row is one message
\* (the primary key of remote_message_ids).
THEOREM GmailIdsDistinct == GmSpec => []GmailMap!Distinct
<1>1. GmailMap!Init => GmailMap!Distinct
  BY DEF GmailMap!Init, GmailMap!Distinct
<1>2. ASSUME GmailMap!Distinct, [GmailMap!Next]_uidOf PROVE GmailMap!Distinct'
  <2>1. ASSUME NEW batch \in SUBSET Msg, GmailMap!Assign(batch) PROVE GmailMap!Distinct'
    <3>1. Msg \in SUBSET Nat
      BY DEF Msg
    <3> QED BY <1>2, <2>1, <3>1, BatchStaysDistinct DEF GmailMap!Assign, GmailMap!Distinct
  <2>2. ASSUME NEW batch \in SUBSET Msg, GmailMap!Release(batch) PROVE GmailMap!Distinct'
    BY <1>2, <2>2 DEF GmailMap!Release, GmailMap!Distinct
  <2>3. CASE UNCHANGED uidOf
    BY <1>2, <2>3 DEF GmailMap!Distinct
  <2> QED BY <1>2, <2>1, <2>2, <2>3 DEF GmailMap!Next
<1> QED BY <1>1, <1>2, GmailImplementsIdMap, PTL DEF LabelHasIdMap, GmailMap!Spec

\* The same for the messages of an Outlook folder.
THEOREM OutlookIdsDistinct == OlSpec => []OutlookMap!Distinct
<1>1. OutlookMap!Init => OutlookMap!Distinct
  BY DEF OutlookMap!Init, OutlookMap!Distinct
<1>2. ASSUME OutlookMap!Distinct, [OutlookMap!Next]_olUid PROVE OutlookMap!Distinct'
  <2>1. ASSUME NEW batch \in SUBSET OlDates, OutlookMap!Assign(batch) PROVE OutlookMap!Distinct'
    <3>1. OlDates \in SUBSET Nat
      BY DEF OlDates
    <3> QED BY <1>2, <2>1, <3>1, BatchStaysDistinct DEF OutlookMap!Assign, OutlookMap!Distinct
  <2>2. ASSUME NEW batch \in SUBSET OlDates, OutlookMap!Release(batch) PROVE OutlookMap!Distinct'
    BY <1>2, <2>2 DEF OutlookMap!Release, OutlookMap!Distinct
  <2>3. CASE UNCHANGED olUid
    BY <1>2, <2>3 DEF OutlookMap!Distinct
  <2> QED BY <1>2, <2>1, <2>2, <2>3 DEF OutlookMap!Next
<1> QED BY <1>1, <1>2, OutlookImplementsIdMap, PTL DEF OutlookMap!Spec

-----------------------------------------------------------------------------
(* The discovery of a Gmail label. *)

Newer(m, ms) == \A k \in ms \cap label : m > k

Seen == Mapped \cup found

\* The part of the label that this pass, or else the next one, will still list.
ToList ==
    CASE pc = "page" -> Below(pageToken)
      [] pc \in {"assign", "state"} -> IF BackfillComplete THEN {} ELSE Below(pageToken)
      [] OTHER -> IF complete THEN {} ELSE Below(token)

\* What no pass has found is still to be listed, or newer than all that was found.
NothingSkipped == \A m \in label \ Seen : m \in ToList \/ Newer(m, Seen)

\* The locals of discover_new at each step of it.
PassLocals ==
    /\ pc \notin {"page", "assign", "state"} => found = {}
    /\ pc = "page" => known = Mapped /\ done = complete /\ ~stopped /\ (canReset => ~complete)
    /\ pc = "state" => found \subseteq Mapped

GmShape ==
    /\ GmMapInv /\ Seen \subseteq 1 .. arrived
    /\ token \in 1 .. NoToken /\ pageToken \in 1 .. NoToken
    /\ complete \in BOOLEAN /\ done \in BOOLEAN /\ stopped \in BOOLEAN
    /\ labelings = 0 /\ faults = 0

GmInv == GmShape /\ PassLocals /\ NothingSkipped /\ CompleteMeansKnown

\* The page that is listed next is the newest part of the label below the token.
LEMMA PageIsTop ==
    ASSUME GmShape
    PROVE  /\ Page \subseteq Below(pageToken)
           /\ \A m \in Page, n \in Below(pageToken) : n > m => n \in Page
           /\ Page # {} => Min(Page) \in Page /\ \A m \in Page : Min(Page) <= m
           /\ Page = {} => Below(pageToken) = {}
<1> DEFINE B == Below(pageToken)
<1>1. PageSize \in Nat \ {0} /\ MaxMsg \in Nat /\ arrived \in 0 .. MaxMsg
  BY GmConstantAssumption DEF GmShape, GmMapInv
<1>2. B \in SUBSET (1 .. arrived)
  BY DEF Below, GmShape, GmMapInv
<1>3. Page = Newest(B, PageSize)
  BY DEF Page, Newest
<1>4. arrived \in Nat
  BY <1>1
<1> HIDE DEF B
<1>5. /\ Page \subseteq B
      /\ \A m \in Page, n \in B : n > m => n \in Page
      /\ Page # {} => Min(Page) \in Page /\ \A m \in Page : Min(Page) <= m
      /\ Page = {} => B = {}
  BY <1>1, <1>2, <1>3, <1>4, NewestOnTop
<1> QED BY <1>5 DEF B

\* Nothing is mapped yet, and everything is to be listed.
LEMMA GmInvInit == GmInit => GmInv
<1> SUFFICES ASSUME GmInit PROVE GmInv
  OBVIOUS
<1>1. Mapped = {} /\ Seen = {}
  BY DEF GmInit, Mapped, Seen
<1>2. GmShape
  <2>1. NoToken \in 1 .. NoToken
    BY GmConstantAssumption DEF NoToken
  <2> QED BY <1>1, <2>1, GmMapInit DEF GmInit, GmShape
<1>3. PassLocals /\ CompleteMeansKnown
  BY DEF GmInit, PassLocals, CompleteMeansKnown
<1>4. NothingSkipped
  BY <1>1 DEF NothingSkipped, Newer
<1> QED BY <1>2, <1>3, <1>4 DEF GmInv

\* A message arrives: it is newer than all there are.
LEMMA ArriveKeeps == ASSUME GmInv, Arrive PROVE GmInv'
<1> USE DEF GmInv
<1>1. /\ arrived' = arrived + 1 /\ label' = label \cup {arrived + 1}
      /\ Mapped' = Mapped /\ Seen' = Seen /\ BackfillComplete' = BackfillComplete
      /\ UNCHANGED <<uidOf, token, complete, pc, known, pageToken, canReset, done, stopped,
                     found, labelings, faults>>
  BY DEF Arrive, durable, pass, Mapped, Seen, BackfillComplete
<1>2. arrived \in Nat /\ arrived < MaxMsg /\ MaxMsg \in Nat /\ Seen \subseteq 1 .. arrived
      /\ label \subseteq 1 .. arrived
  BY GmConstantAssumption DEF Arrive, GmShape, GmMapInv
<1>3. GmShape'
  <2>1. GmMapInv'
    BY <1>1, <1>2 DEF GmShape, GmMapInv
  <2>2. Seen' \subseteq 1 .. arrived'
    BY <1>1, <1>2
  <2> QED BY <1>1, <2>1, <2>2 DEF GmShape, NoToken
<1>4. PassLocals'
  BY <1>1 DEF PassLocals
<1>5. \A k \in Seen : k # arrived + 1 /\ arrived + 1 > k
  BY <1>2
<1>6. ASSUME NEW m \in label', m \notin label \/ Newer(m, Seen) PROVE Newer(m, Seen)'
  BY <1>1, <1>5, <1>6 DEF Newer
<1>7. ToList \subseteq ToList'
  BY <1>1 DEF ToList, Below
<1>8. NothingSkipped'
  <2> SUFFICES ASSUME NEW m \in label' \ Seen PROVE m \in ToList' \/ Newer(m, Seen)'
    BY <1>1 DEF NothingSkipped, Newer
  <2>1. CASE m \in label
    BY <1>1, <1>6, <1>7, <2>1 DEF NothingSkipped
  <2>2. CASE m \notin label
    BY <1>6, <2>2
  <2> QED BY <2>1, <2>2
<1>9. CompleteMeansKnown'
  <2> SUFFICES ASSUME complete, pc # "state",
                      NEW m \in label' \ Mapped, NEW k \in Mapped \cap label'
               PROVE  m > k
    BY <1>1 DEF CompleteMeansKnown
  <2>1. k \in 1 .. arrived /\ k \in label
    BY <1>1, <1>2 DEF Seen
  <2>2. CASE m \in label
    BY <2>1, <2>2 DEF CompleteMeansKnown
  <2>3. CASE m \notin label
    BY <1>1, <1>2, <2>1, <2>3
  <2> QED BY <2>2, <2>3
<1> QED BY <1>3, <1>4, <1>8, <1>9

\* A message leaves the label.
LEMMA UnlabelKeeps == ASSUME GmInv, NEW n \in Msg, Unlabel(n) PROVE GmInv'
<1> USE DEF GmInv
<1>1. /\ label' = label \ {n}
      /\ Mapped' = Mapped /\ Seen' = Seen /\ BackfillComplete' = BackfillComplete
      /\ UNCHANGED <<arrived, uidOf, token, complete, pc, known, pageToken, canReset, done,
                     stopped, found, labelings, faults>>
  BY DEF Unlabel, durable, pass, Mapped, Seen, BackfillComplete
<1>2. GmShape'
  BY <1>1 DEF GmShape, GmMapInv, NoToken
<1>3. PassLocals'
  BY <1>1 DEF PassLocals
<1>4. NothingSkipped'
  BY <1>1 DEF NothingSkipped, Newer, ToList, Below
<1>5. CompleteMeansKnown'
  BY <1>1 DEF CompleteMeansKnown
<1> QED BY <1>2, <1>3, <1>4, <1>5

\* fetch_flags takes mappings only from messages that left the label.
LEMMA FetchFlagsKeeps == ASSUME GmInv, FetchFlags PROVE GmInv'
<1> USE DEF GmInv
<1>1. /\ Mapped' \subseteq Mapped /\ Mapped' \cap label = Mapped \cap label
      /\ pc = "idle" /\ pc' = "hide" /\ found = {} /\ found' = {}
      /\ UNCHANGED <<arrived, label, token, complete, pageToken, done, stopped, labelings, faults>>
  <2>1. \A m \in Msg :
          uidOf'[m] = IF m \in {k \in Mapped : uidOf[k] <= lastUid} \ label THEN 0 ELSE uidOf[m]
    BY DEF FetchFlags
  <2>2. Mapped' \subseteq Mapped /\ Mapped' \cap label = Mapped \cap label
    BY <2>1 DEF Mapped
  <2> QED BY <2>2 DEF FetchFlags, pass, PassLocals
<1>2. GmShape'
  BY <1>1, GmReleases DEF GmShape, NoToken, Seen
<1>3. PassLocals'
  BY <1>1 DEF PassLocals
<1>4. NothingSkipped'
  BY <1>1 DEF NothingSkipped, Newer, ToList, Below, Seen
<1>5. CompleteMeansKnown'
  BY <1>1 DEF CompleteMeansKnown
<1> QED BY <1>2, <1>3, <1>4, <1>5

\* Outside a pass, the other steps of a cycle change nothing the invariant reads.
LEMMA OutsideKeeps == ASSUME GmInv, HideGone \/ ImportChunk PROVE GmInv'
<1> USE DEF GmInv
<1>1. /\ pc \notin {"page", "assign", "state"} /\ pc' \notin {"page", "assign", "state"}
      /\ UNCHANGED <<arrived, label, uidOf, token, complete, pageToken, done, stopped, found,
                     labelings, faults>>
  BY DEF HideGone, ImportChunk, pass
<1>2. GmShape'
  BY <1>1 DEF GmShape, GmMapInv, NoToken, Seen, Mapped
<1>3. PassLocals'
  BY <1>1 DEF PassLocals
<1>4. NothingSkipped'
  BY <1>1 DEF NothingSkipped, Newer, ToList, Below, Seen, Mapped
<1>5. CompleteMeansKnown'
  BY <1>1 DEF CompleteMeansKnown, Mapped
<1> QED BY <1>2, <1>3, <1>4, <1>5

\* A pass begins where the last one stopped, or at the newest message.
LEMMA BeginPassKeeps == ASSUME GmInv, BeginPass PROVE GmInv'
<1> USE DEF GmInv
<1>1. /\ pc \in {"idle", "discover"} /\ pc' = "page" /\ found = {} /\ found' = {}
      /\ known' = Mapped /\ done' = complete /\ stopped' = FALSE
      /\ pageToken' = (IF complete THEN NoToken ELSE token)
      /\ (canReset' => ~complete)
      /\ Mapped' = Mapped /\ Seen' = Mapped /\ Seen = Mapped
      /\ UNCHANGED <<arrived, label, uidOf, token, complete, labelings, faults>>
  BY DEF BeginPass, durable, PassLocals, Mapped, Seen
<1>2. GmShape'
  <2>1. NoToken \in 1 .. NoToken
    BY GmConstantAssumption DEF NoToken
  <2>2. GmMapInv'
    BY <1>1 DEF GmShape, GmMapInv
  <2> QED BY <1>1, <2>1, <2>2 DEF GmShape, NoToken
<1>3. PassLocals'
  BY <1>1 DEF PassLocals
<1>4. CompleteMeansKnown'
  BY <1>1 DEF CompleteMeansKnown
<1>5. NothingSkipped'
  <2> SUFFICES ASSUME NEW m \in label \ Mapped PROVE m \in Below(pageToken)' \/ Newer(m, Mapped)'
    BY <1>1 DEF NothingSkipped, ToList, Newer
  <2>1. CASE complete
    BY <1>1, <2>1 DEF CompleteMeansKnown, Newer
  <2>2. CASE ~complete
    BY <1>1, <2>2 DEF NothingSkipped, ToList, Newer, Below
  <2> QED BY <2>1, <2>2
<1> QED BY <1>2, <1>3, <1>4, <1>5

\* The token expired: everything is still to be listed.
LEMMA TokenExpiredKeeps == ASSUME GmInv, TokenExpired PROVE GmInv'
<1> USE DEF GmInv
<1>1. /\ pc = "page" /\ pc' \in {"page", "assign"}
      /\ token' = NoToken /\ complete' = FALSE /\ pageToken' = NoToken /\ canReset' = FALSE
      /\ done' = FALSE /\ stopped' = FALSE /\ Mapped' = Mapped /\ known' = Mapped /\ Seen' = Seen
      /\ UNCHANGED <<arrived, label, uidOf, found, labelings, faults>>
  BY DEF TokenExpired, PassLocals, GmShape, Mapped, Seen
<1>2. NoToken \in 1 .. NoToken /\ \A m \in label : m < NoToken
  BY GmConstantAssumption DEF NoToken, GmShape, GmMapInv
<1>3. GmShape'
  <2>1. GmMapInv'
    BY <1>1 DEF GmShape, GmMapInv
  <2> QED BY <1>1, <1>2, <2>1 DEF GmShape, NoToken
<1>4. PassLocals' /\ CompleteMeansKnown'
  BY <1>1 DEF PassLocals, CompleteMeansKnown
<1>5. ToList' = label
  BY <1>1, <1>2 DEF ToList, BackfillComplete, Below, NoToken
<1>6. NothingSkipped'
  BY <1>1, <1>5 DEF NothingSkipped
<1> QED BY <1>3, <1>4, <1>6

\* A page is listed.  What it leaves unseen is below it, or was already newer; if the
\* scan stops at a known message of a complete label, nothing unseen is older than that.
LEMMA ListPageKeeps == ASSUME GmInv, ListPage PROVE GmInv'
<1> USE DEF GmInv
<1>1. /\ pc = "page" /\ known = Mapped /\ done = complete
      /\ pc' \in {"page", "assign"} /\ found' = found \cup Collected /\ stopped' = StopsHere
      /\ Mapped' = Mapped /\ Seen' = Seen \cup Collected /\ canReset' = FALSE
      /\ UNCHANGED <<arrived, label, uidOf, token, complete, known, labelings, faults>>
  BY DEF ListPage, PassLocals, durable, Mapped, Seen
<1>2. /\ ~StopsHere /\ MorePages => pageToken' = Min(Page) /\ done' = done
      /\ StopsHere \/ ~MorePages =>
            pageToken' = NoToken /\ done' = (StopsHere => done) /\ pc' = "assign"
  BY DEF ListPage
<1>3. /\ MaxMsg \in Nat /\ arrived \in 0 .. MaxMsg /\ label \subseteq 1 .. arrived
      /\ NoToken \in 1 .. NoToken /\ NoToken = MaxMsg + 1 /\ pageToken \in 1 .. NoToken
  BY GmConstantAssumption DEF GmShape, GmMapInv, NoToken
<1>4. \A m \in label : /\ m \in Nat /\ m < NoToken
                      /\ m \in 0 .. arrived /\ m \in 1 .. arrived
                      /\ m \in 1 .. MaxMsg /\ m \in 1 .. NoToken
  BY <1>3
<1>5. Page \subseteq Below(pageToken) /\ Collected \subseteq Page /\ Below(pageToken) \subseteq label
  BY PageIsTop DEF Collected, Below
<1>6. GmShape'
  <2>1. Seen' \subseteq 1 .. arrived /\ GmMapInv'
    <3>1. Collected \subseteq 1 .. arrived /\ Collected \subseteq Msg
      BY <1>4, <1>5 DEF Msg
    <3> QED BY <1>1, <3>1 DEF GmShape, GmMapInv
  <2>2. Page # {} => Min(Page) \in 1 .. NoToken
    <3> SUFFICES ASSUME Page # {} PROVE Min(Page) \in 1 .. NoToken
      OBVIOUS
    <3>1. Min(Page) \in label
      BY <1>5, PageIsTop
    <3> QED BY <1>4, <3>1
  <2>3. pageToken' \in 1 .. NoToken
    BY <1>2, <1>3, <2>2 DEF MorePages
  <2>4. done' \in BOOLEAN /\ stopped' \in BOOLEAN
    BY <1>1, <1>2 DEF GmShape, StopsHere
  <2> QED BY <1>1, <2>1, <2>3, <2>4 DEF GmShape, NoToken
<1>7. PassLocals'
  BY <1>1, <1>2 DEF PassLocals
<1>8. CompleteMeansKnown'
  BY <1>1 DEF CompleteMeansKnown
<1>9. ASSUME NEW m \in label \ Seen, m \notin Below(pageToken) PROVE Newer(m, Seen)'
  <2>1. Newer(m, Seen)
    BY <1>1, <1>9 DEF NothingSkipped, ToList
  <2>2. \A k \in Collected : m > k
    BY <1>3, <1>5, <1>9 DEF Below
  <2> QED BY <1>1, <2>1, <2>2 DEF Newer
<1>10. ASSUME NEW m \in label \ Seen', m \in Below(pageToken) PROVE m \in ToList'
  <2>1. m \notin Page /\ ~StopsHere
    <3>1. CASE StopsHere
      <4> DEFINE top == Max(Page \cap known)
      <4>1. Page \cap known \in SUBSET (0 .. arrived)
        BY <1>4, <1>5
      <4>2. top \in Page \cap known
        <5>1. Page \cap known # {} /\ arrived \in Nat
          BY <1>3, <3>1 DEF StopsHere
        <5> QED BY <4>1, <5>1, Greatest
      <4>3. m > top
        BY <1>1, <1>5, <3>1, <4>2 DEF CompleteMeansKnown, StopsHere, Seen
      <4>4. m \in Page
        BY <1>10, <4>2, <4>3, PageIsTop
      <4> QED BY <1>1, <3>1, <4>3, <4>4 DEF Collected
    <3>2. CASE ~StopsHere
      BY <1>1, <3>2 DEF Collected, Seen
    <3> QED BY <3>1, <3>2
  <2>2. Min(Page) \in Page /\ m < Min(Page)
    <3>1. Min(Page) \in Page
      BY <1>10, PageIsTop
    <3>2. ~(m > Min(Page)) /\ m # Min(Page)
      BY <1>10, <2>1, <3>1, PageIsTop
    <3>3. m \in Nat /\ Min(Page) \in Nat
      BY <1>4, <1>5, <3>1
    <3> QED BY <3>1, <3>2, <3>3
  <2>3. MorePages /\ pageToken' = Min(Page) /\ pageToken' # NoToken
    <3>1. m \in Below(Min(Page))
      BY <2>2 DEF Below
    <3>2. Min(Page) # NoToken
      BY <1>3, <1>5, <2>2
    <3> QED BY <1>2, <2>1, <2>2, <3>1, <3>2 DEF MorePages
  <2>4. ~BackfillComplete'
    BY <1>1, <2>1, <2>3 DEF BackfillComplete, NoToken
  <2> QED BY <1>1, <2>2, <2>3, <2>4 DEF ToList, Below
<1>11. NothingSkipped'
  <2> SUFFICES ASSUME NEW m \in label \ Seen' PROVE m \in ToList' \/ Newer(m, Seen)'
    BY <1>1 DEF NothingSkipped, Newer
  <2> QED BY <1>1, <1>9, <1>10
<1> QED BY <1>6, <1>7, <1>8, <1>11

\* IdMap::assign maps all that was found.
LEMMA AssignIdsKeeps == ASSUME GmInv, AssignIds PROVE GmInv'
<1> USE DEF GmInv
<1>1. /\ pc = "assign" /\ pc' = "state" /\ BackfillComplete' = BackfillComplete
      /\ UNCHANGED <<arrived, label, token, complete, pageToken, done, stopped, found,
                     labelings, faults>>
  BY DEF AssignIds, pass, BackfillComplete
<1>2. Mapped' = Mapped \cup found
  <2> DEFINE rank(m) == Cardinality({n \in found : n <= m})
  <2>1. PICK top \in {uidOf[m] : m \in Msg} \cup {0} : uidOf' = Assigned(top)
    BY DEF AssignIds
  <2>2. top \in Nat /\ uidOf \in [Msg -> Nat] /\ found \subseteq Msg
    BY DEF GmShape, GmMapInv
  <2>3. \A m \in found : rank(m) \in Nat \ {0}
    BY <2>2, GmConstantAssumption, RankGrows DEF Msg
  <2>4. uidOf' = [m \in Msg |-> IF m \in found /\ uidOf[m] = 0 THEN top + rank(m) ELSE uidOf[m]]
    BY <2>1 DEF Assigned
  <2> HIDE DEF rank
  <2>5. \A m \in found : top + rank(m) # 0
    BY <2>2, <2>3
  <2>6. \A m \in Msg : uidOf'[m] # 0 <=> uidOf[m] # 0 \/ m \in found
    BY <2>2, <2>4, <2>5
  <2> QED BY <2>2, <2>6 DEF Mapped
<1>3. Seen' = Seen
  BY <1>1, <1>2 DEF Seen
<1>4. GmShape'
  BY <1>1, <1>3, GmAssigns DEF GmShape, NoToken
<1>5. PassLocals' /\ CompleteMeansKnown'
  BY <1>1, <1>2 DEF PassLocals, CompleteMeansKnown
<1>6. NothingSkipped'
  BY <1>1, <1>3 DEF NothingSkipped, Newer, ToList, Below
<1> QED BY <1>4, <1>5, <1>6

\* The state of the pass is stored, and what it did not list is left to the next.
LEMMA SetBackfillStateKeeps == ASSUME GmInv, SetBackfillState PROVE GmInv'
<1> USE DEF GmInv
<1>1. /\ pc = "state" /\ pc' \in {"import", "idle"} /\ found \subseteq Mapped /\ found' = {}
      /\ token' = pageToken /\ complete' = BackfillComplete
      /\ pageToken' = NoToken /\ done' = FALSE /\ stopped' = FALSE
      /\ Mapped' = Mapped /\ Seen' = Mapped /\ Seen = Mapped
      /\ UNCHANGED <<arrived, label, uidOf, labelings, faults>>
  BY DEF SetBackfillState, PassOutOfScope, PassLocals, Mapped, Seen
<1>2. GmShape'
  <2>1. NoToken \in 1 .. NoToken
    BY GmConstantAssumption DEF NoToken
  <2>2. GmMapInv'
    BY <1>1 DEF GmShape, GmMapInv
  <2>3. BackfillComplete \in BOOLEAN
    BY DEF BackfillComplete, GmShape
  <2> QED BY <1>1, <2>1, <2>2, <2>3 DEF GmShape, NoToken
<1>3. PassLocals'
  BY <1>1 DEF PassLocals
<1>4. NothingSkipped'
  BY <1>1 DEF NothingSkipped, Newer, ToList, Below
<1>5. CompleteMeansKnown'
  BY <1>1 DEF NothingSkipped, Newer, ToList, CompleteMeansKnown
<1> QED BY <1>2, <1>3, <1>4, <1>5

\* Every step, where no cycle is cut short and nothing is moved in.
LEMMA GmInvStep ==
    ASSUME GmInv, MaxLabelings = 0, MaxFaults = 0, [GmNext]_gmVars
    PROVE  GmInv'
<1>1. ~GmInterrupted /\ \A m \in Msg : ~Relabel(m)
  BY DEF GmInv, GmShape, GmInterrupted, Relabel
<1>2. CASE SyncStep
  BY <1>2, FetchFlagsKeeps, OutsideKeeps, BeginPassKeeps, ListPageKeeps, TokenExpiredKeeps,
     AssignIdsKeeps, SetBackfillStateKeeps DEF SyncStep
<1>3. CASE Gmail
  BY <1>1, <1>3, ArriveKeeps, UnlabelKeeps DEF Gmail
<1>4. CASE UNCHANGED gmVars
  BY <1>4 DEF gmVars, durable, pass, GmInv, GmShape, GmMapInv, PassLocals, NothingSkipped,
              CompleteMeansKnown, Newer, Seen, ToList, Below, BackfillComplete, Mapped
<1> QED BY <1>1, <1>2, <1>3, <1>4 DEF GmNext

-----------------------------------------------------------------------------
\* The inductive invariant of discover_new, where no pass is cut short and no older
\* message is moved into the label.
THEOREM DiscoveryInvariance ==
    ASSUME MaxLabelings = 0, MaxFaults = 0 PROVE GmSpec => []GmInv
BY GmInvInit, GmInvStep, PTL DEF GmSpec

\* The early stop of collect_page_ids is right in a complete label, whatever pages
\* run out, tokens expire or mail arrives.
THEOREM StopIsSafe ==
    ASSUME MaxLabelings = 0, MaxFaults = 0 PROVE GmSpec => []CompleteMeansKnown
<1>1. GmInv => CompleteMeansKnown
  BY DEF GmInv
<1> QED BY <1>1, DiscoveryInvariance, PTL

-----------------------------------------------------------------------------
(* What is kept of an Outlook folder. *)

\* The uids are those of messages that ever were.
OlTypes ==
    /\ olUsed \subseteq OlDates /\ olFolder \subseteq olUsed
    /\ olUid \in [OlDates -> Nat]
    /\ OlMapped \subseteq olUsed /\ olFound \subseteq olUsed
    /\ olRow \in [OlDates -> olUsed \cup {0}]
    /\ olHidden \subseteq OlStored
    /\ olLast \in 0 .. OlMaxDate /\ olBelow \in 1 .. OlTop

OlDistinct == \A d, e \in OlMapped : olUid[d] = olUid[e] => d = e

\* A pass works on the mapping as it is, and leaves nothing behind.
OlInPass == olPc \in {"page", "assign"}
OlPassClean ==
    /\ OlInPass => olKnown = OlMapped
    /\ ~OlInPass => olFound = {}

\* The row of a uid is its message's, or is not stored yet.
OlRowIsOwn ==
    \A d \in OlMapped \ olReused : olUid[d] \in OlStored => olRow[olUid[d]] = d

\* A message of the folder keeps the uid its row was stored under.
OlRowMapped ==
    \A u \in OlStored :
        olRow[u] \in olFolder \ (olAsked \cup olReused) => olUid[olRow[u]] = u

\* What the map does not know below a known message is accounted for, in every state.
OlOlderExplained ==
    \A d \in olFolder \ OlMapped :
        (\E k \in OlMapped \cap olFolder : d < k) => d \in olMoved \cup olLost

\* What a pass has not found below a message it found is accounted for, or still listed.
OlFoundExplained ==
    \A d \in olFolder \ (OlMapped \cup olFound) :
        (\E k \in olFound : d < k) =>
            d \in olMoved \cup olLost \/ (olPc = "page" /\ d < olBelow)

OlInv ==
    /\ OlTypes /\ OlDistinct /\ OlPassClean /\ OlRowIsOwn /\ OlRowMapped
    /\ OlOlderExplained /\ OlFoundExplained /\ OlHiddenIsGone /\ OlCoveredIsStored

\* The part of the invariant that speaks of the map and the rows.
OlRowsKept ==
    /\ OlDistinct /\ OlRowIsOwn /\ OlRowMapped /\ OlOlderExplained /\ OlCoveredIsStored

\* The folder, the map and the rows start empty.
LEMMA OlInvInit == OlInit => OlInv
<1> SUFFICES ASSUME OlInit PROVE OlInv
  OBVIOUS
<1>1. OlMapped = {} /\ OlStored = {}
  BY DEF OlInit, OlMapped, OlStored
<1>2. OlTypes
  BY <1>1, OlAssumption DEF OlInit, OlTypes, OlTop
<1>3. OlRowsKept
  BY <1>1 DEF OlInit, OlRowsKept, OlDistinct, OlRowIsOwn, OlRowMapped, OlOlderExplained,
     OlCoveredIsStored
<1>4. OlPassClean /\ OlFoundExplained /\ OlHiddenIsGone
  BY DEF OlInit, OlPassClean, OlInPass, OlFoundExplained, OlHiddenIsGone
<1> QED BY <1>2, <1>3, <1>4 DEF OlInv, OlRowsKept

\* The rows stay true to the map while messages leave the folder and mappings are
\* dropped, as long as a mapping is dropped only of a message that is gone.
LEMMA OlDropKeeps ==
    ASSUME OlInv, NEW gone \in SUBSET OlDates, gone \cap olFolder' = {},
           olFolder' \subseteq olFolder,
           olUid' = [d \in OlDates |-> IF d \in gone THEN 0 ELSE olUid[d]],
           UNCHANGED <<olUsed, olRow, olLast, olMoved, olReused>>,
           olAsked \subseteq olAsked', olLost \subseteq olLost'
    PROVE  /\ olUid' \in [OlDates -> Nat] /\ OlMapped' = OlMapped \ gone
           /\ OlStored' = OlStored /\ OlRowsKept'
<1>1. /\ olUid \in [OlDates -> Nat] /\ olRow \in [OlDates -> olUsed \cup {0}]
      /\ olUsed \subseteq OlDates /\ olFolder \subseteq olUsed
  BY DEF OlInv, OlTypes
<1>2. olUid' \in [OlDates -> Nat]
  BY <1>1
<1>3. OlMapped' = OlMapped \ gone /\ \A d \in OlMapped' : olUid'[d] = olUid[d]
  BY <1>1 DEF OlMapped
<1>4. OlStored' = OlStored
  BY DEF OlStored
<1>5. OlDistinct'
  BY <1>3 DEF OlInv, OlDistinct
<1>6. OlRowIsOwn'
  BY <1>3, <1>4 DEF OlInv, OlRowIsOwn
<1>7. OlRowMapped'
  <2> SUFFICES ASSUME NEW u \in OlStored, olRow[u] \in olFolder' \ (olAsked' \cup olReused)
               PROVE  olUid'[olRow[u]] = u
    BY <1>4 DEF OlRowMapped
  <2>1. olRow[u] \in olFolder \ (olAsked \cup olReused) /\ olRow[u] \notin gone
    OBVIOUS
  <2>2. olUid[olRow[u]] = u
    BY <2>1 DEF OlInv, OlRowMapped
  <2> QED BY <1>1, <2>1, <2>2
<1>8. OlOlderExplained'
  <2> SUFFICES ASSUME NEW d \in olFolder' \ OlMapped', NEW k \in OlMapped' \cap olFolder', d < k
               PROVE  d \in olMoved \cup olLost
    BY DEF OlOlderExplained
  <2>1. d \in olFolder \ OlMapped /\ k \in OlMapped \cap olFolder
    BY <1>3
  <2> QED BY <2>1 DEF OlInv, OlOlderExplained
<1>9. OlCoveredIsStored'
  BY <1>3 DEF OlInv, OlCoveredIsStored
<1> QED BY <1>2, <1>3, <1>4, <1>5, <1>6, <1>7, <1>8, <1>9 DEF OlRowsKept

\* A message that comes in has no row and no uid; below a known one it was moved in.
LEMMA OlArriveKeeps == ASSUME OlInv, NEW a \in OlDates, OlArrive(a) PROVE OlInv'
<1>1. /\ a \notin olUsed /\ olFolder' = olFolder \cup {a} /\ olUsed' = olUsed \cup {a}
      /\ UNCHANGED <<olUid, olRow, olHidden, olLast, olPc, olKnown, olFound, olBelow>>
      /\ UNCHANGED <<olLost, olAsked, olReused>>
  BY DEF OlArrive, olStore, olPass
<1>2. OlMapped' = OlMapped /\ OlStored' = OlStored
  BY <1>1 DEF OlMapped, OlStored
<1>3. /\ olUsed \subseteq OlDates /\ olFolder \subseteq olUsed /\ olFound \subseteq olUsed
      /\ OlMapped \subseteq olUsed /\ olHidden \subseteq OlStored
      /\ olRow \in [OlDates -> olUsed \cup {0}] /\ OlStored \subseteq OlDates
  BY DEF OlInv, OlTypes, OlStored
<1>4. \A u \in OlStored : olRow[u] # a
  <2>1. \A u \in OlStored : olRow[u] # 0
    BY DEF OlStored
  <2> QED BY <1>1, <1>3, <2>1
<1>5. olMoved \subseteq olMoved' /\ (\A e \in olUsed : e > a => a \in olMoved')
  BY DEF OlArrive
<1>6. OlTypes'
  BY <1>1, <1>2, <1>3 DEF OlInv, OlTypes
<1>7. OlDistinct' /\ OlPassClean' /\ OlRowIsOwn' /\ OlCoveredIsStored'
  <2>1. OlDistinct'
    BY <1>1, <1>2 DEF OlInv, OlDistinct
  <2>2. OlPassClean'
    BY <1>1, <1>2 DEF OlInv, OlPassClean, OlInPass
  <2>3. OlRowIsOwn'
    BY <1>1, <1>2 DEF OlInv, OlRowIsOwn
  <2>4. OlCoveredIsStored'
    BY <1>1, <1>2 DEF OlInv, OlCoveredIsStored
  <2> QED BY <2>1, <2>2, <2>3, <2>4
<1>8. OlRowMapped'
  BY <1>1, <1>2, <1>4 DEF OlInv, OlRowMapped
<1>9. OlHiddenIsGone'
  BY <1>1, <1>3, <1>4 DEF OlInv, OlHiddenIsGone
<1>10. OlOlderExplained'
  <2> SUFFICES ASSUME NEW d \in olFolder' \ OlMapped', NEW k \in OlMapped' \cap olFolder', d < k
               PROVE  d \in olMoved' \cup olLost'
    BY DEF OlOlderExplained
  <2>1. k \in OlMapped \cap olFolder /\ k \in olUsed
    BY <1>1, <1>2, <1>3
  <2>2. CASE d = a
    BY <1>3, <1>5, <2>1, <2>2 DEF OlDates
  <2>3. CASE d \in olFolder \ OlMapped
    BY <1>1, <1>5, <2>1, <2>3 DEF OlInv, OlOlderExplained
  <2> QED BY <1>1, <1>2, <2>2, <2>3
<1>11. OlFoundExplained'
  <2> SUFFICES ASSUME NEW d \in olFolder' \ (OlMapped' \cup olFound'), NEW k \in olFound', d < k
               PROVE  d \in olMoved' \cup olLost' \/ (olPc' = "page" /\ d < olBelow')
    BY DEF OlFoundExplained
  <2>1. k \in olFound /\ k \in olUsed
    BY <1>1, <1>3
  <2>2. CASE d = a
    BY <1>3, <1>5, <2>1, <2>2 DEF OlDates
  <2>3. CASE d \in olFolder \ (OlMapped \cup olFound)
    BY <1>1, <1>5, <2>1, <2>3 DEF OlInv, OlFoundExplained
  <2> QED BY <1>1, <1>2, <2>2, <2>3
<1> QED BY <1>6, <1>7, <1>8, <1>9, <1>10, <1>11 DEF OlInv

\* A message that leaves takes nothing along but itself.
LEMMA OlLeaveKeeps == ASSUME OlInv, NEW a \in OlDates, OlLeave(a) PROVE OlInv'
<1>1. /\ olFolder' = olFolder \ {a}
      /\ UNCHANGED <<olUsed, olUid, olRow, olHidden, olLast, olPc, olKnown, olFound, olBelow>>
      /\ UNCHANGED <<olMoved, olLost, olAsked, olReused>>
  BY DEF OlLeave, olStore, olPass, olHistory
<1>2. olUid' = [d \in OlDates |-> IF d \in {} THEN 0 ELSE olUid[d]]
  BY <1>1 DEF OlInv, OlTypes
<1>3. OlMapped' = OlMapped /\ OlStored' = OlStored /\ OlRowsKept'
  <2> DEFINE none == {}
  <2>1. none \in SUBSET OlDates /\ none \cap olFolder' = {} /\ olFolder' \subseteq olFolder
        /\ olAsked \subseteq olAsked' /\ olLost \subseteq olLost'
        /\ olUid' = [d \in OlDates |-> IF d \in none THEN 0 ELSE olUid[d]]
    BY <1>1, <1>2
  <2>2. OlMapped' = OlMapped \ none /\ OlStored' = OlStored /\ OlRowsKept'
    <3> HIDE DEF none
    <3> QED BY <1>1, <2>1, OlDropKeeps
  <2> QED BY <2>2
<1>4. OlTypes' /\ OlPassClean'
  BY <1>1, <1>3 DEF OlInv, OlTypes, OlPassClean, OlInPass
<1>5. OlHiddenIsGone'
  BY <1>1 DEF OlInv, OlHiddenIsGone
<1>6. OlFoundExplained'
  BY <1>1, <1>3 DEF OlInv, OlFoundExplained
<1> QED BY <1>3, <1>4, <1>5, <1>6 DEF OlInv, OlRowsKept

\* What the mailbox and the task leave alone, while a cycle takes its steps over the
\* map and the rows as they are.
LEMMA OlCycleKeeps ==
    ASSUME OlInv, UNCHANGED <<olFolder, olUsed, olUid, olRow, olLast, olMoved, olAsked, olReused>>,
           olLost \subseteq olLost'
    PROVE  OlMapped' = OlMapped /\ OlStored' = OlStored /\ OlRowsKept'
<1> DEFINE none == {}
<1>1. none \in SUBSET OlDates /\ none \cap olFolder' = {} /\ olFolder' \subseteq olFolder
      /\ olAsked \subseteq olAsked'
  OBVIOUS
<1>2. olUid' = [d \in OlDates |-> IF d \in none THEN 0 ELSE olUid[d]]
  BY DEF OlInv, OlTypes
<1>3. OlMapped' = OlMapped \ none /\ OlStored' = OlStored /\ OlRowsKept'
  <2> HIDE DEF none
  <2> QED BY <1>1, <1>2, OlDropKeeps
<1> QED BY <1>3

\* A move or deletion hides the row of its own message, which is asked for, and drops
\* the mapping only once the message has left (move_message, delete_permanently).
LEMMA OlMoveKeeps == ASSUME OlInv, NEW a \in OlDates, OlMove(a) PROVE OlInv'
<1>1. /\ olPc = "idle" /\ olUid[a] \in OlStored /\ olRow[olUid[a]] = a
      /\ olHidden' = olHidden \cup {olUid[a]} /\ olAsked' = olAsked \cup {a}
      /\ UNCHANGED <<olUsed, olRow, olLast, olPc, olKnown, olFound, olBelow>>
      /\ UNCHANGED <<olMoved, olLost, olReused>>
  BY DEF OlMove, olPass
<1>2. \E gone \in SUBSET OlDates :
        /\ gone \cap olFolder' = {} /\ olFolder' \subseteq olFolder
        /\ olUid' = [d \in OlDates |-> IF d \in gone THEN 0 ELSE olUid[d]]
  <2>0. olUid \in [OlDates -> Nat]
    BY DEF OlInv, OlTypes
  <2>1. CASE olFolder' = olFolder \ {a} /\ olUid' = [olUid EXCEPT ![a] = 0]
    <3>1. olUid' = [d \in OlDates |-> IF d \in {a} THEN 0 ELSE olUid[d]]
      BY <2>0, <2>1
    <3> QED BY <2>1, <3>1
  <2>2. CASE olFolder' \subseteq olFolder /\ olUid' = olUid
    <3> DEFINE none == {}
    <3>1. olUid' = [d \in OlDates |-> IF d \in none THEN 0 ELSE olUid[d]]
      BY <2>0, <2>2
    <3>2. none \in SUBSET OlDates /\ none \cap olFolder' = {}
      OBVIOUS
    <3> HIDE DEF none
    <3> QED BY <2>2, <3>1, <3>2
  <2> QED BY <2>1, <2>2 DEF OlMove
<1>3. PICK gone \in SUBSET OlDates :
        /\ gone \cap olFolder' = {} /\ olFolder' \subseteq olFolder
        /\ olUid' = [d \in OlDates |-> IF d \in gone THEN 0 ELSE olUid[d]]
  BY <1>2
<1>4. /\ olUid' \in [OlDates -> Nat] /\ OlMapped' \subseteq OlMapped
      /\ OlStored' = OlStored /\ OlRowsKept'
  BY <1>1, <1>3, OlDropKeeps
<1>5. ~OlInPass /\ ~OlInPass' /\ olFound = {} /\ olFound' = {}
  BY <1>1 DEF OlInv, OlPassClean, OlInPass
<1>6. OlTypes'
  BY <1>1, <1>3, <1>4 DEF OlInv, OlTypes
<1>7. OlPassClean' /\ OlFoundExplained'
  BY <1>5 DEF OlPassClean, OlFoundExplained
<1>8. OlHiddenIsGone'
  BY <1>1, <1>3 DEF OlInv, OlHiddenIsGone
<1> QED BY <1>4, <1>6, <1>7, <1>8 DEF OlInv, OlRowsKept

\* Only a 404 drops a mapping, of a message that is gone (fetch_flags).
LEMMA OlFetchKeeps == ASSUME OlInv, OlFetchFlags PROVE OlInv'
<1>1. /\ olPc \in {"idle", "hide"} /\ olPc' \in {"idle", "hide"}
      /\ UNCHANGED <<olFolder, olUsed, olRow, olHidden, olLast, olKnown, olFound, olBelow>>
      /\ UNCHANGED <<olMoved, olLost, olAsked, olReused>>
  BY DEF OlFetchFlags, olPass, olHistory
<1>2. PICK asked \in SUBSET OlDates :
        olUid' = [d \in OlDates |-> IF d \in OlGone(asked) THEN 0 ELSE olUid[d]]
  BY DEF OlFetchFlags, OlMapped
<1>3. OlGone(asked) \in SUBSET OlDates /\ OlGone(asked) \cap olFolder' = {}
  BY <1>1 DEF OlGone
<1>4. /\ olUid' \in [OlDates -> Nat] /\ OlMapped' \subseteq OlMapped
      /\ OlStored' = OlStored /\ OlRowsKept'
  BY <1>1, <1>2, <1>3, OlDropKeeps
<1>5. ~OlInPass /\ ~OlInPass' /\ olFound = {} /\ olFound' = {}
  BY <1>1 DEF OlInv, OlPassClean, OlInPass
<1>6. OlTypes'
  BY <1>1, <1>4 DEF OlInv, OlTypes
<1>7. OlPassClean' /\ OlFoundExplained'
  BY <1>5 DEF OlPassClean, OlFoundExplained
<1>8. OlHiddenIsGone'
  BY <1>1 DEF OlInv, OlHiddenIsGone
<1> QED BY <1>4, <1>6, <1>7, <1>8 DEF OlInv, OlRowsKept

\* A row without a mapping is of a message that is gone, since the message of a row
\* keeps its uid (reconcile_flags).
LEMMA OlHideKeeps == ASSUME OlInv, OlHideGone PROVE OlInv'
<1>1. /\ olPc = "hide" /\ olPc' = "discover"
      /\ UNCHANGED <<olFolder, olUsed, olUid, olRow, olLast, olKnown, olFound, olBelow>>
      /\ UNCHANGED <<olMoved, olLost, olAsked, olReused>>
  BY DEF OlHideGone, olPass, olHistory
<1>2. OlMapped' = OlMapped /\ OlStored' = OlStored /\ OlRowsKept'
  BY <1>1, OlCycleKeeps
<1>3. OlTypes'
  <2>1. olHidden' \subseteq OlStored
    BY DEF OlInv, OlTypes, OlHideGone
  <2> QED BY <1>1, <1>2, <2>1 DEF OlInv, OlTypes
<1>4. OlPassClean' /\ OlFoundExplained'
  BY <1>1 DEF OlInv, OlPassClean, OlInPass, OlFoundExplained
<1>5. ASSUME NEW u \in OlStored, ~\E d \in OlMapped : olUid[d] = u
      PROVE  olRow[u] \notin olFolder \/ olRow[u] \in olAsked \cup olReused
  <2> SUFFICES ASSUME olRow[u] \in olFolder \ (olAsked \cup olReused) PROVE FALSE
    OBVIOUS
  <2>1. olUid[olRow[u]] = u
    BY DEF OlInv, OlRowMapped
  <2>2. olRow[u] \in OlDates
    BY DEF OlInv, OlTypes
  <2>3. u # 0
    BY DEF OlStored, OlDates
  <2> QED BY <1>5, <2>1, <2>2, <2>3 DEF OlMapped
<1>6. OlHiddenIsGone'
  BY <1>1, <1>5 DEF OlInv, OlHiddenIsGone, OlHideGone
<1> QED BY <1>2, <1>3, <1>4, <1>6 DEF OlInv, OlRowsKept

\* A pass starts with the mapping as it is, and with nothing found.
LEMMA OlBeginKeeps == ASSUME OlInv, OlBegin PROVE OlInv'
<1>1. /\ olKnown' = OlMapped /\ ~OlInPass /\ olPc' = "page"
      /\ UNCHANGED <<olFolder, olUsed, olUid, olRow, olHidden, olLast, olFound, olBelow>>
      /\ UNCHANGED <<olMoved, olLost, olAsked, olReused>>
  BY DEF OlBegin, OlInPass, olStore, olHistory
<1>2. OlMapped' = OlMapped /\ OlStored' = OlStored /\ OlRowsKept'
  BY <1>1, OlCycleKeeps
<1>3. olFound = {} /\ olFound' = {}
  BY <1>1 DEF OlInv, OlPassClean
<1>4. OlTypes' /\ OlPassClean'
  BY <1>1, <1>2, <1>3 DEF OlInv, OlTypes, OlPassClean
<1>5. OlFoundExplained' /\ OlHiddenIsGone'
  BY <1>1, <1>3 DEF OlInv, OlFoundExplained, OlHiddenIsGone
<1> QED BY <1>2, <1>4, <1>5 DEF OlInv, OlRowsKept

\* The page that is listed next is the newest part of the folder below the nextLink.
LEMMA OlPageIsTop ==
    ASSUME OlTypes
    PROVE  /\ OlPage \subseteq OlListed
           /\ \A m \in OlPage, n \in OlListed : n > m => n \in OlPage
           /\ OlPage # {} => Min(OlPage) \in OlPage
           /\ OlPage = {} => OlListed = {}
<1>1. OlPageSize \in Nat \ {0} /\ OlMaxDate \in Nat
  BY OlAssumption
<1>2. OlListed \in SUBSET (1 .. OlMaxDate)
  BY DEF OlListed, OlTypes, OlDates
<1>3. OlPage = Newest(OlListed, OlPageSize)
  BY DEF OlPage, Newest
<1> QED BY <1>1, <1>2, <1>3, NewestOnTop

\* What a page leaves out below a message it lists: older than a known message, lost
\* with the last page, or on a page still to come (discover_new).
LEMMA OlPageExplained ==
    ASSUME OlInv, OlListPage, NEW d \in olFolder \ (OlMapped \cup olFound'),
           NEW k \in olFound', d < k
    PROVE  d \in olMoved' \cup olLost' \/ (olPc' = "page" /\ d < olBelow')
<1>1. /\ olPc = "page" /\ olKnown = OlMapped
      /\ olFound' = olFound \cup {e \in OlPage : \A q \in OlPage \cap olKnown : e > q}
      /\ olMoved' = olMoved /\ olLost \subseteq olLost'
  BY DEF OlInv, OlPassClean, OlInPass, OlListPage
<1>2. d \in Nat /\ k \in Nat /\ olBelow \in Nat /\ olFolder \subseteq Nat
  <2>1. olUsed \subseteq Nat /\ olFolder \subseteq olUsed /\ olFound \subseteq olUsed
    BY DEF OlInv, OlTypes, OlDates
  <2>2. OlPage \subseteq olFolder
    BY DEF OlPage, OlListed
  <2> QED BY <1>1, <2>1, <2>2 DEF OlInv, OlTypes
<1>3. \A q \in OlMapped \cap olFolder : d < q => d \in olMoved \cup olLost
  BY DEF OlInv, OlOlderExplained
<1>4. CASE d \in olMoved \cup olLost
  BY <1>1, <1>4
<1>5. CASE d \in OlListed /\ d \notin olMoved \cup olLost
  <2>1. \A q \in OlPage \cap OlMapped : ~(d < q)
    BY <1>3, <1>5 DEF OlPage, OlListed
  <2>2. d \notin OlPage
    <3> SUFFICES ASSUME d \in OlPage PROVE FALSE
      OBVIOUS
    <3>1. PICK q \in OlPage \cap OlMapped : ~(d > q)
      BY <1>1
    <3>2. q # d /\ q \in Nat
      BY <1>2 DEF OlPage, OlListed
    <3> QED BY <1>2, <2>1, <3>1, <3>2
  <2>3. \A m \in OlPage : d < m
    <3> SUFFICES ASSUME NEW m \in OlPage, ~(d < m) PROVE FALSE
      OBVIOUS
    <3>1. m \in Nat
      BY <1>2 DEF OlPage, OlListed
    <3>2. ~(d > m)
      BY <1>5, <2>2, OlPageIsTop DEF OlInv
    <3> QED BY <1>2, <2>2, <3>1, <3>2
  <2>4. d \in OlOlder /\ Min(OlPage) \in OlPage
    BY <1>5, <2>3, OlPageIsTop DEF OlInv, OlOlder
  <2>5. ~OlStopsHere
    BY <1>1, <2>1, <2>3 DEF OlStopsHere
  <2>6. /\ olBelow' = Min(OlPage)
        /\ olPc' = "page" \/ olLost' = olLost \cup (OlOlder \ olKnown)
    BY <2>4, <2>5 DEF OlListPage
  <2> QED BY <1>1, <2>3, <2>4, <2>6
<1>6. CASE d \notin OlListed /\ d \notin olMoved \cup olLost
  <2>1. ~(d < olBelow)
    BY <1>6 DEF OlListed
  <2>2. k \in olFound
    <3> SUFFICES ASSUME k \in OlPage PROVE FALSE
      BY <1>1
    <3>1. k < olBelow
      BY DEF OlPage, OlListed
    <3> QED BY <1>2, <2>1, <3>1
  <2> QED BY <1>1, <1>6, <2>1, <2>2 DEF OlInv, OlFoundExplained
<1> QED BY <1>4, <1>5, <1>6

\* A page changes only what the pass has found so far.
LEMMA OlListKeeps == ASSUME OlInv, OlListPage PROVE OlInv'
<1>1. /\ olPc = "page" /\ olPc' \in {"page", "assign"} /\ olLost \subseteq olLost'
      /\ UNCHANGED <<olFolder, olUsed, olUid, olRow, olHidden, olLast, olKnown>>
      /\ UNCHANGED <<olMoved, olAsked, olReused>>
  BY DEF OlListPage, olStore
<1>2. OlMapped' = OlMapped /\ OlStored' = OlStored /\ OlRowsKept'
  BY <1>1, OlCycleKeeps
<1>3. OlPage \subseteq olFolder /\ olFolder \subseteq olUsed /\ olUsed \subseteq OlDates
  BY DEF OlPage, OlListed, OlInv, OlTypes
<1>4. olFound' \subseteq olUsed
  BY <1>3 DEF OlListPage, OlInv, OlTypes
<1>5. olBelow' \in 1 .. OlTop
  <2>1. OlOlder # {} => OlPage # {}
    BY OlPageIsTop DEF OlInv, OlOlder
  <2>2. OlPage # {} => Min(OlPage) \in OlDates
    BY <1>3, OlPageIsTop DEF OlInv
  <2>3. OlDates \subseteq 1 .. OlTop
    BY OlAssumption DEF OlDates, OlTop
  <2>4. olBelow' = olBelow \/ (OlOlder # {} /\ olBelow' = Min(OlPage))
    BY DEF OlListPage
  <2> QED BY <2>1, <2>2, <2>3, <2>4 DEF OlInv, OlTypes
<1>6. OlTypes'
  BY <1>1, <1>2, <1>4, <1>5 DEF OlInv, OlTypes
<1>7. OlPassClean' /\ OlHiddenIsGone'
  BY <1>1, <1>2 DEF OlInv, OlPassClean, OlInPass, OlHiddenIsGone
<1>8. OlFoundExplained'
  BY <1>1, <1>2, OlPageExplained DEF OlFoundExplained
<1> QED BY <1>2, <1>6, <1>7, <1>8 DEF OlInv, OlRowsKept

\* A cycle that ends keeps what it has written.
LEMMA OlEndKeeps == ASSUME OlInv, OlPassFails \/ OlInterrupted PROVE OlInv'
<1>1. /\ olPc' = "idle" /\ olFound' = {} /\ olBelow' = OlTop
      /\ UNCHANGED <<olFolder, olUsed, olUid, olRow, olHidden, olLast>>
      /\ UNCHANGED <<olMoved, olLost, olAsked, olReused>>
  BY DEF OlPassFails, OlInterrupted, OlEndCycle, OlNoPass, olStore, olHistory
<1>2. OlMapped' = OlMapped /\ OlStored' = OlStored /\ OlRowsKept'
  BY <1>1, OlCycleKeeps
<1>3. OlTop \in 1 .. OlTop
  BY OlAssumption DEF OlTop
<1>4. OlTypes'
  BY <1>1, <1>2, <1>3 DEF OlInv, OlTypes
<1>5. OlPassClean' /\ OlFoundExplained' /\ OlHiddenIsGone'
  BY <1>1, <1>2 DEF OlInv, OlPassClean, OlInPass, OlFoundExplained, OlHiddenIsGone
<1> QED BY <1>2, <1>4, <1>5 DEF OlInv, OlRowsKept

\* The found ids get uids above all that are in use; one that gets the uid of an
\* earlier message is second-hand (IdMap::assign).
LEMMA OlAssignKeeps == ASSUME OlInv, OlAssign PROVE OlInv'
<1>1. /\ olPc = "assign" /\ olPc' \in {"import", "idle"} /\ olFound' = {} /\ olBelow' = OlTop
      /\ UNCHANGED <<olFolder, olUsed, olRow, olHidden, olLast, olMoved, olLost, olAsked>>
      /\ olReused' = olReused \cup
            {d \in olFound : olUid'[d] <= olLast \/ olUid'[d] \in OlStored}
  BY DEF OlAssign, OlNoPass
<1>2. PICK top \in {olUid[d] : d \in OlDates} \cup {0} :
        olUid' = OlAssigned(top)
  BY DEF OlAssign
<1>3. /\ olUid \in [OlDates -> Nat] /\ olFound \subseteq OlDates /\ olFound \subseteq olUsed
      /\ olUsed \subseteq OlDates /\ olFolder \subseteq olUsed /\ OlMapped \subseteq olUsed
  BY DEF OlInv, OlTypes
<1>4. OlMapInv
  BY <1>3 DEF OlMapInv
<1>5. \A d \in OlDates : olUid'[d] = olUid[d] \/ (d \in olFound /\ olUid[d] = 0)
  BY <1>2 DEF OlAssigned
<1>6. olUid' \in [OlDates -> Nat]
  BY <1>4, OlAssigns DEF OlMapInv
<1>7. olFound \subseteq OlMapped'
  <2>1. \A d \in olFound : Cardinality({e \in olFound : e <= d}) \in Nat \ {0}
    BY <1>3, OlAssumption, RankGrows DEF OlDates
  <2>2. top \in Nat
    BY <1>3
  <2>3. \A d \in olFound : olUid'[d] # 0
    BY <1>2, <1>3, <2>1, <2>2 DEF OlAssigned
  <2> QED BY <1>3, <2>3 DEF OlMapped
<1>8. OlMapped \subseteq OlMapped' /\ OlMapped' \subseteq OlMapped \cup olFound
  BY <1>5 DEF OlMapped
<1>9. OlStored' = OlStored
  BY <1>1 DEF OlStored
<1>10. OlTypes'
  <2>1. OlTop \in 1 .. OlTop
    BY OlAssumption DEF OlTop
  <2>2. OlMapped' \subseteq olUsed
    BY <1>3, <1>8
  <2> QED BY <1>1, <1>6, <1>9, <2>1, <2>2 DEF OlInv, OlTypes
<1>11. OlDistinct'
  <2>1. PICK batch \in SUBSET OlDates : OutlookMap!Assign(batch)
    BY <1>4, OlAssigns
  <2>2. \A i, j \in OlDates : olUid[i] # 0 /\ olUid[i] = olUid[j] => i = j
    BY DEF OlInv, OlDistinct, OlMapped
  <2>3. OlDates \in SUBSET Nat
    BY DEF OlDates
  <2>4. \A i, j \in OlDates : olUid'[i] # 0 /\ olUid'[i] = olUid'[j] => i = j
    BY <1>3, <2>1, <2>2, <2>3, BatchStaysDistinct DEF OutlookMap!Assign
  <2> QED BY <2>4 DEF OlDistinct, OlMapped
<1>12. OlPassClean' /\ OlFoundExplained'
  BY <1>1 DEF OlPassClean, OlInPass, OlFoundExplained
<1>13. ASSUME NEW d \in OlMapped' \ olReused', olUid'[d] <= olLast \/ olUid'[d] \in OlStored
       PROVE  d \in OlMapped \ olReused /\ olUid'[d] = olUid[d]
  <2>1. d \in OlDates /\ olUid'[d] # 0
    BY DEF OlMapped
  <2>2. olUid'[d] = olUid[d]
    BY <1>1, <1>5, <1>13, <2>1
  <2> QED BY <1>1, <2>1, <2>2 DEF OlMapped
<1>14. OlRowIsOwn'
  BY <1>1, <1>9, <1>13 DEF OlInv, OlRowIsOwn
<1>15. OlCoveredIsStored'
  BY <1>1, <1>13 DEF OlInv, OlCoveredIsStored
<1>16. OlRowMapped'
  <2> SUFFICES ASSUME NEW u \in OlStored, olRow[u] \in olFolder \ (olAsked \cup olReused)
               PROVE  olUid'[olRow[u]] = u
    BY <1>1, <1>9 DEF OlRowMapped
  <2>1. olUid[olRow[u]] = u /\ u # 0
    BY DEF OlInv, OlRowMapped, OlStored, OlDates
  <2> QED BY <1>3, <1>5, <2>1
<1>17. OlOlderExplained'
  <2> SUFFICES ASSUME NEW d \in olFolder \ OlMapped', NEW k \in OlMapped' \cap olFolder, d < k
               PROVE  d \in olMoved \cup olLost
    BY <1>1 DEF OlOlderExplained
  <2>1. d \in olFolder \ (OlMapped \cup olFound)
    BY <1>7, <1>8
  <2>2. CASE k \in OlMapped
    BY <2>1, <2>2 DEF OlInv, OlOlderExplained
  <2>3. CASE k \in olFound
    BY <1>1, <2>1, <2>3 DEF OlInv, OlFoundExplained
  <2> QED BY <1>8, <2>2, <2>3
<1>18. OlHiddenIsGone'
  BY <1>1 DEF OlInv, OlHiddenIsGone
<1> QED BY <1>10, <1>11, <1>12, <1>14, <1>15, <1>16, <1>17, <1>18 DEF OlInv

\* The cursor stops below the first uid without a row (contiguous_uid).
LEMMA OlCursorIsStored ==
    ASSUME OlTypes, NEW stored
    PROVE  /\ OlContiguous(stored) \in olLast .. OlMaxDate
           /\ olLast + 1 .. OlContiguous(stored) \subseteq stored
<1> DEFINE runs == {n \in olLast .. OlMaxDate : olLast + 1 .. n \subseteq stored}
<1>1. olLast \in 0 .. OlMaxDate /\ OlMaxDate \in Nat
  BY OlAssumption DEF OlTypes
<1>2. olLast \in runs /\ runs \in SUBSET (0 .. OlMaxDate)
  BY <1>1
<1>3. Max(runs) \in runs
  <2> HIDE DEF runs
  <2> QED BY <1>1, <1>2, Greatest
<1> QED BY <1>3 DEF OlContiguous

\* A fetched message gets its own row, and the cursor follows the rows that are there.
LEMMA OlImportKeeps == ASSUME OlInv, OlImport PROVE OlInv'
<1>1. /\ olPc = "import" /\ olPc' = "idle"
      /\ UNCHANGED <<olFolder, olUsed, olUid, olHidden, olFound, olBelow>>
      /\ UNCHANGED <<olMoved, olLost, olAsked, olReused>>
  BY DEF OlImport, olPass, olHistory
<1>2. PICK got \in SUBSET {d \in OlMapped \cap olFolder : olUid[d] > olLast} :
        olRow' = [u \in OlDates |-> IF \E d \in got : olUid[d] = u
                                    THEN CHOOSE d \in got : olUid[d] = u ELSE olRow[u]]
  BY DEF OlImport
<1>3. /\ olUid \in [OlDates -> Nat] /\ olLast \in 0 .. OlMaxDate /\ OlMaxDate \in Nat
      /\ olRow \in [OlDates -> olUsed \cup {0}] /\ OlMapped \subseteq olUsed
      /\ olUsed \subseteq OlDates /\ olHidden \subseteq OlStored /\ OlStored \subseteq OlDates
  BY OlAssumption DEF OlInv, OlTypes, OlStored
<1>4. \A u \in OlDates :
        olRow'[u] = olRow[u] \/ \E d \in got : olUid[d] = u /\ olRow'[u] = d
  <2> SUFFICES ASSUME NEW u \in OlDates, NEW e \in got, olUid[e] = u
               PROVE  \E d \in got : olUid[d] = u /\ olRow'[u] = d
    BY <1>2
  <2>1. olRow'[u] = CHOOSE d \in got : olUid[d] = u
    BY <1>2
  <2> QED BY <2>1
<1>5. \A d, e \in OlMapped : olUid[d] = olUid[e] => d = e
  BY DEF OlInv, OlDistinct
<1>6. OlMapped' = OlMapped
  BY <1>1 DEF OlMapped
<1>7. OlStored \subseteq OlStored' /\ olRow' \in [OlDates -> olUsed \cup {0}]
  <2>1. \A d \in got : d \in olUsed /\ d # 0
    BY <1>3 DEF OlDates
  <2>2. \A u \in OlDates : olRow'[u] \in olUsed \cup {0} /\ (olRow[u] # 0 => olRow'[u] # 0)
    BY <1>3, <1>4, <2>1
  <2> QED BY <1>2, <2>2 DEF OlStored
<1>8. /\ olLast' \in olLast .. OlMaxDate
      /\ olLast + 1 .. olLast' \subseteq OlStored'
  BY OlCursorIsStored DEF OlImport, OlInv, OlStored
<1>9. OlTypes'
  BY <1>1, <1>3, <1>6, <1>7, <1>8 DEF OlInv, OlTypes
<1>10. OlDistinct' /\ OlPassClean' /\ OlFoundExplained' /\ OlOlderExplained'
  <2>1. OlDistinct'
    BY <1>1, <1>6 DEF OlInv, OlDistinct
  <2>2. OlPassClean' /\ OlFoundExplained'
    BY <1>1 DEF OlInv, OlPassClean, OlInPass, OlFoundExplained
  <2>3. OlOlderExplained'
    BY <1>1, <1>6 DEF OlInv, OlOlderExplained
  <2> QED BY <2>1, <2>2, <2>3
<1>11. ASSUME NEW d \in OlMapped, olUid[d] \in OlDates
       PROVE  olRow'[olUid[d]] \in {d, olRow[olUid[d]]}
  BY <1>4, <1>5, <1>11
<1>12. OlRowIsOwn'
  <2> SUFFICES ASSUME NEW d \in OlMapped \ olReused, olUid[d] \in OlStored'
               PROVE  olRow'[olUid[d]] = d
    BY <1>1, <1>6 DEF OlRowIsOwn
  <2>1. olUid[d] \in OlDates /\ olRow'[olUid[d]] # 0
    BY DEF OlStored
  <2>2. olRow[olUid[d]] # 0 => olRow[olUid[d]] = d
    BY <2>1 DEF OlInv, OlRowIsOwn, OlStored
  <2> QED BY <1>11, <2>1, <2>2
<1>13. OlRowMapped'
  <2> SUFFICES ASSUME NEW u \in OlStored', olRow'[u] \in olFolder \ (olAsked \cup olReused)
               PROVE  olUid[olRow'[u]] = u
    BY <1>1 DEF OlRowMapped
  <2>1. u \in OlDates /\ olRow'[u] # 0
    BY DEF OlStored
  <2>2. CASE olRow'[u] = olRow[u]
    BY <2>1, <2>2 DEF OlInv, OlRowMapped, OlStored
  <2> QED BY <1>4, <2>1, <2>2
<1>14. OlCoveredIsStored'
  <2> SUFFICES ASSUME NEW d \in OlMapped, olUid[d] <= olLast', d \notin olReused
               PROVE  olRow'[olUid[d]] = d
    BY <1>1, <1>6 DEF OlCoveredIsStored
  <2>1. olUid[d] \in Nat \ {0} /\ olUid[d] \in OlDates
    BY <1>3, <1>8 DEF OlMapped, OlDates
  <2>2. CASE olUid[d] <= olLast
    BY <1>11, <2>1, <2>2 DEF OlInv, OlCoveredIsStored
  <2>3. CASE olUid[d] > olLast
    <3>1. olUid[d] \in olLast + 1 .. olLast'
      BY <1>3, <1>8, <2>1, <2>3
    <3> QED BY <1>1, <1>6, <1>8, <1>12, <3>1 DEF OlRowIsOwn
  <2> QED BY <1>3, <2>1, <2>2, <2>3
<1>15. OlHiddenIsGone'
  <2> SUFFICES ASSUME NEW u \in olHidden
               PROVE  olRow'[u] \notin olFolder \/ olRow'[u] \in olAsked \cup olReused
    BY <1>1 DEF OlHiddenIsGone
  <2>1. u \in OlStored /\ u \in OlDates
    BY <1>3
  <2>2. CASE olRow'[u] = olRow[u]
    BY <2>2 DEF OlInv, OlHiddenIsGone
  <2>3. ASSUME NEW d \in got, olUid[d] = u, olRow'[u] = d, d \notin olReused
        PROVE  olRow'[u] = olRow[u]
    BY <2>1, <2>3 DEF OlInv, OlRowIsOwn
  <2> QED BY <1>4, <2>1, <2>2, <2>3
<1> QED BY <1>9, <1>10, <1>12, <1>13, <1>14, <1>15 DEF OlInv

\* Every step keeps the invariant.
LEMMA OlInvStep == ASSUME OlInv, [OlNext]_olVars PROVE OlInv'
<1>1. CASE UNCHANGED olVars
  <2>1. UNCHANGED <<olFolder, olUsed, olUid, olRow, olHidden, olLast, olPc, olKnown, olFound,
                    olBelow, olMoved, olLost, olAsked, olReused>>
    BY <1>1 DEF olVars, olStore, olPass, olHistory
  <2>2. OlMapped' = OlMapped /\ OlStored' = OlStored /\ OlRowsKept'
    BY <2>1, OlCycleKeeps
  <2>3. OlTypes' /\ OlPassClean'
    BY <2>1, <2>2 DEF OlInv, OlTypes, OlPassClean, OlInPass
  <2>4. OlFoundExplained' /\ OlHiddenIsGone'
    BY <2>1, <2>2 DEF OlInv, OlFoundExplained, OlHiddenIsGone
  <2> QED BY <2>2, <2>3, <2>4 DEF OlInv, OlRowsKept
<1>2. ASSUME NEW d \in OlDates, OlArrive(d) \/ OlLeave(d) \/ OlMove(d) PROVE OlInv'
  BY <1>2, OlArriveKeeps, OlLeaveKeeps, OlMoveKeeps
<1>3. CASE OlFetchFlags \/ OlHideGone \/ OlBegin \/ OlListPage
  BY <1>3, OlFetchKeeps, OlHideKeeps, OlBeginKeeps, OlListKeeps
<1>4. CASE OlPassFails \/ OlAssign \/ OlImport \/ OlInterrupted
  BY <1>4, OlEndKeeps, OlAssignKeeps, OlImportKeeps
<1> QED BY <1>1, <1>2, <1>3, <1>4 DEF OlNext

\* What a synced Outlook folder keeps, whatever requests fail and wherever a cycle is
\* cut: between cycles an unknown message older than a known one was moved in below it
\* or fell off a pass out of pages, so that the discovery may stop at the first known
\* id; a hidden row is of a message that is gone, was removed by the user or got a
\* second-hand uid; and every mapped message up to the cursor has its row (discover_new,
\* fetch_flags, reconcile_flags, contiguous_uid).  Its mapping implements IdMap.
THEOREM FolderKept == OlSpec => OlFolderKept
<1>1. OlInit => OlInv
  BY OlInvInit
<1>2. OlInv /\ [OlNext]_olVars => OlInv'
  BY OlInvStep
<1>3. OlInv => OlMissedExplained /\ OlHiddenIsGone /\ OlCoveredIsStored
  BY DEF OlInv, OlOlderExplained, OlMissedExplained
<1> QED BY <1>1, <1>2, <1>3, OutlookImplementsIdMap, PTL DEF OlSpec, OlFolderKept

-----------------------------------------------------------------------------
(* The counters.  What the triggers do with a count is arithmetic on the   *)
(* sets it counts, once for both counters (TriggerKeepsCount); that a      *)
(* count taken earlier may be stored rests on nobody having touched the    *)
(* folder since (CountIsCurrent).                                          *)

\* The count a recount holds is still true of a folder nobody touched meanwhile.
CountIsCurrent ==
    recount.pc = "counted" /\ recount.folder \notin raced =>
        recount.count = Cardinality(UnreadIn(row)[recount.folder])

FcInv == FcTypeOK /\ LiveCountExact /\ DriftNeedsRace /\ CountIsCurrent

Tables == [Messages -> FcRow \cup {NoRow}]

-----------------------------------------------------------------------------
\* The messages a folder counts are finitely many, in any table.
LEMMA CountedFinite ==
    ASSUME NEW table, NEW f \in Folders
    PROVE  /\ IsFiniteSet(LiveIn(table)[f]) /\ Cardinality(LiveIn(table)[f]) \in Nat
           /\ IsFiniteSet(UnreadIn(table)[f]) /\ Cardinality(UnreadIn(table)[f]) \in Nat
<1>1. LiveIn(table)[f] \in SUBSET Messages /\ UnreadIn(table)[f] \in SUBSET Messages
  BY DEF LiveIn, UnreadIn
<1>2. IsFiniteSet(LiveIn(table)[f]) /\ IsFiniteSet(UnreadIn(table)[f])
  BY <1>1, FcConstantAssumption, FS_Subset
<1> QED BY <1>2, FS_CardinalityType

\* A trigger keeps an exact count exact, and its clamp never bites: what leaves was
\* counted, and what is not changed is counted before and after.
LEMMA TriggerKeepsCount ==
    ASSUME NEW from, NEW to, NEW changed, IsFiniteSet(from), IsFiniteSet(to),
           from \ changed = to \ changed
    PROVE  Clamped(Cardinality(from) - Cardinality(from \cap changed))
               + Cardinality(to \cap changed) = Cardinality(to)
<1>1. Cardinality(from \ changed) = Cardinality(from) - Cardinality(from \cap changed)
  BY FS_Difference
<1>2. Cardinality(to \ changed) = Cardinality(to) - Cardinality(to \cap changed)
  BY FS_Difference
<1>3. IsFiniteSet(from \ changed) /\ IsFiniteSet(to \cap changed) /\ IsFiniteSet(from \cap changed)
  BY FS_Difference, FS_Intersection
<1>4. Cardinality(from \ changed) \in Nat /\ Cardinality(to \cap changed) \in Nat
      /\ Cardinality(to) \in Nat /\ Cardinality(from) \in Nat /\ Cardinality(from \cap changed) \in Nat
  BY <1>3, FS_CardinalityType
<1> QED BY <1>1, <1>2, <1>4 DEF Clamped

\* Counts stay natural numbers, exact or not.
LEMMA AfterType ==
    ASSUME NEW count \in [Folders -> Nat], NEW from, NEW to, NEW changed,
           \A f \in Folders : IsFiniteSet(from[f]) /\ IsFiniteSet(to[f])
    PROVE  After(count, from, to, changed) \in [Folders -> Nat]
<1> SUFFICES ASSUME NEW f \in Folders
             PROVE  Clamped(count[f] - Cardinality(from[f] \cap changed))
                        + Cardinality(to[f] \cap changed) \in Nat
  BY DEF After
<1>1. IsFiniteSet(from[f] \cap changed) /\ IsFiniteSet(to[f] \cap changed)
  BY FS_Intersection
<1>2. Cardinality(from[f] \cap changed) \in Nat /\ Cardinality(to[f] \cap changed) \in Nat
  BY <1>1, FS_CardinalityType
<1> QED BY <1>2 DEF Clamped

-----------------------------------------------------------------------------
\* Every statement that writes rows: the triggers keep both counts as right as they
\* were, and a folder it touches during its recount counts as raced.
LEMMA WriteKeeps ==
    ASSUME FcInv, NEW new \in Tables, Write(new)
    PROVE  FcInv'
<1> DEFINE changed == {m \in Messages : new[m] # row[m]}
           touched == {r.folder : r \in {row[m] : m \in {n \in changed : Exists(n)}}
                                       \cup {new[m] : m \in {n \in changed : new[n] # NoRow}}}
<1>1. /\ row' = new /\ UNCHANGED recount
      /\ live' = After(live, LiveIn(row), LiveIn(new), changed)
      /\ unread' = After(unread, UnreadIn(row), UnreadIn(new), changed)
      /\ raced' = IF recount.pc = "counted" THEN raced \cup (touched \cap {recount.folder})
                  ELSE raced
  BY DEF Write
<1>2. \A f \in Folders : LiveIn(row)[f] \ changed = LiveIn(new)[f] \ changed
  BY DEF LiveIn
<1>3. \A f \in Folders : UnreadIn(row)[f] \ changed = UnreadIn(new)[f] \ changed
  BY DEF UnreadIn
<1>4. ASSUME NEW f \in Folders, f \notin touched PROVE UnreadIn(new)[f] = UnreadIn(row)[f]
  BY <1>4 DEF UnreadIn, IsUnread, Exists
<1> HIDE DEF changed, touched
<1>5. FcTypeOK'
  <2>1. live' \in [Folders -> Nat] /\ unread' \in [Folders -> Nat]
    BY <1>1, CountedFinite, AfterType DEF FcInv, FcTypeOK
  <2>2. raced' \subseteq Folders
    BY <1>1 DEF FcInv, FcTypeOK
  <2>3. edits' \in 0 .. MaxEdits /\ failures' \in 0 .. MaxFailures
    BY FcConstantAssumption DEF Write, FcInv, FcTypeOK
  <2> QED BY <1>1, <2>1, <2>2, <2>3 DEF FcInv, FcTypeOK, Tables
<1>6. LiveCountExact'
  <2> SUFFICES ASSUME NEW f \in Folders PROVE live'[f] = Cardinality(LiveIn(new)[f])
    BY <1>1 DEF LiveCountExact, LiveIn
  <2>1. live'[f] = Clamped(Cardinality(LiveIn(row)[f]) - Cardinality(LiveIn(row)[f] \cap changed))
                       + Cardinality(LiveIn(new)[f] \cap changed)
    BY <1>1 DEF After, FcInv, LiveCountExact
  <2> QED BY <2>1, <1>2, CountedFinite, TriggerKeepsCount
<1>7. ASSUME NEW f \in Folders, unread[f] = Cardinality(UnreadIn(row)[f])
      PROVE  unread'[f] = Cardinality(UnreadIn(new)[f])
  <2>1. unread'[f]
          = Clamped(Cardinality(UnreadIn(row)[f]) - Cardinality(UnreadIn(row)[f] \cap changed))
                + Cardinality(UnreadIn(new)[f] \cap changed)
    BY <1>1, <1>7 DEF After
  <2> QED BY <2>1, <1>3, CountedFinite, TriggerKeepsCount
<1>8. UnreadIn(row)' = UnreadIn(new)
  BY <1>1 DEF UnreadIn
<1>9. DriftNeedsRace'
  BY <1>1, <1>7, <1>8 DEF FcInv, DriftNeedsRace
<1>10. CountIsCurrent'
  BY <1>1, <1>4, <1>8 DEF FcInv, CountIsCurrent, FcTypeOK
<1> QED BY <1>5, <1>6, <1>9, <1>10 DEF FcInv

\* Each handler's and the sync task's statement writes a table of rows.
LEMMA EditKeeps == ASSUME FcInv, Edit PROVE FcInv'
<1> USE DEF Tables, FcRow
<1>0. row \in Tables /\ Inbox \in Folders
  BY FcConstantAssumption DEF FcInv, FcTypeOK
<1>1. ASSUME NEW m \in Messages, NEW f \in Folders, NEW read \in BOOLEAN, NEW deleted \in BOOLEAN,
             Import(m, f, read, deleted)
      PROVE  FcInv'
  <2>1. (Exists(m) /\ row[m].hidden) \in BOOLEAN
    OBVIOUS
  <2>2. [row EXCEPT ![m] = [folder |-> f, read |-> read,
                            hidden |-> deleted \/ (Exists(m) /\ row[m].hidden)]] \in Tables
    BY <1>0, <2>1
  <2> QED BY <1>1, <2>2, WriteKeeps DEF Import
<1>2. ASSUME NEW m \in Messages, NEW read \in BOOLEAN, MarkRead(m, read) PROVE FcInv'
  <2>1. [row EXCEPT ![m].read = read] \in Tables
    BY <1>0, <1>2 DEF MarkRead, Exists
  <2> QED BY <1>2, <2>1, WriteKeeps DEF MarkRead
<1>3. ASSUME NEW ms \in SUBSET Messages, BulkRead(ms) PROVE FcInv'
  <2>1. [m \in Messages |-> IF m \in ms THEN [row[m] EXCEPT !.read = TRUE] ELSE row[m]] \in Tables
    BY <1>0, <1>3 DEF BulkRead, Exists
  <2> QED BY <1>3, <2>1, WriteKeeps DEF BulkRead
<1>4. ASSUME NEW ms \in SUBSET Messages, Hide(ms) PROVE FcInv'
  <2>1. [m \in Messages |-> IF m \in ms THEN [row[m] EXCEPT !.hidden = TRUE] ELSE row[m]] \in Tables
    BY <1>0, <1>4 DEF Hide, Exists
  <2> QED BY <1>4, <2>1, WriteKeeps DEF Hide
<1>5. ASSUME NEW m \in Messages, NEW read \in BOOLEAN, NEW deleted \in BOOLEAN,
             ApplyFlags(m, read, deleted)
      PROVE  FcInv'
  <2>1. [row EXCEPT ![m].read = read, ![m].hidden = @ \/ deleted] \in Tables
    BY <1>0, <1>5 DEF ApplyFlags, Exists
  <2> QED BY <1>5, <2>1, WriteKeeps DEF ApplyFlags
<1>6. ASSUME NEW m \in Messages, Refile(m) PROVE FcInv'
  <2>1. [row EXCEPT ![m].folder = Inbox, ![m].hidden = FALSE] \in Tables
    BY <1>0, <1>6 DEF Refile, Exists
  <2> QED BY <1>6, <2>1, WriteKeeps DEF Refile
<1>7. ASSUME NEW m \in Messages, DeleteDraft(m) PROVE FcInv'
  <2>1. [row EXCEPT ![m] = NoRow] \in Tables
    BY <1>0
  <2> QED BY <1>7, <2>1, WriteKeeps DEF DeleteDraft
<1>8. ASSUME NEW f \in Folders, Purge(f) PROVE FcInv'
  <2>1. [m \in Messages |-> IF Exists(m) /\ row[m].folder = f THEN NoRow ELSE row[m]] \in Tables
    BY <1>0
  <2> QED BY <1>8, <2>1, WriteKeeps DEF Purge
<1>9. ASSUME NEW m \in Messages, NEW f \in Folders, FileDraft(m, f) PROVE FcInv'
  <2>1. [row EXCEPT ![m].folder = f] \in Tables
    BY <1>0, <1>9 DEF FileDraft, Exists
  <2> QED BY <1>9, <2>1, WriteKeeps DEF FileDraft
<1> QED BY <1>1, <1>2, <1>3, <1>4, <1>5, <1>6, <1>7, <1>8, <1>9 DEF Edit

\* Between its COUNT and its UPDATE a folder may drift, and the UPDATE ends the drift
\* unless the folder was touched.
LEMMA RecountKeeps == ASSUME FcInv, Recount PROVE FcInv'
<1> USE DEF FcInv
<1>1. ASSUME NEW f \in Folders, BeginRecount(f) PROVE FcInv'
  <2>1. Count(f) \in Nat
    BY CountedFinite DEF Count
  <2>2. FcTypeOK'
    BY <1>1, <2>1 DEF BeginRecount, FcTypeOK
  <2>3. LiveCountExact' /\ UnreadIn(row)' = UnreadIn(row)
    BY <1>1 DEF BeginRecount, LiveCountExact, LiveIn, UnreadIn
  <2>4. DriftNeedsRace'
    BY <1>1, <2>3 DEF BeginRecount, DriftNeedsRace
  <2>5. CountIsCurrent'
    BY <1>1, <2>3 DEF BeginRecount, CountIsCurrent, Count
  <2> QED BY <2>2, <2>3, <2>4, <2>5
<1>2. ASSUME NEW f \in Folders, CountFails(f) PROVE FcInv'
  <2>1. FcTypeOK'
    BY <1>2, FcConstantAssumption DEF CountFails, FcTypeOK
  <2>2. LiveCountExact' /\ UnreadIn(row)' = UnreadIn(row)
    BY <1>2 DEF CountFails, LiveCountExact, LiveIn, UnreadIn
  <2>3. DriftNeedsRace' /\ CountIsCurrent'
    BY <1>2, <2>2 DEF CountFails, DriftNeedsRace, CountIsCurrent
  <2> QED BY <2>1, <2>2, <2>3
<1>3. CASE Unchanged
  <2>1. FcTypeOK' /\ CountIsCurrent'
    BY <1>3, FcConstantAssumption DEF Unchanged, FcTypeOK, Idle, CountIsCurrent
  <2>2. LiveCountExact' /\ UnreadIn(row)' = UnreadIn(row)
    BY <1>3 DEF Unchanged, LiveCountExact, LiveIn, UnreadIn
  <2>3. DriftNeedsRace'
    BY <1>3, <2>2 DEF Unchanged, DriftNeedsRace, CountIsCurrent, Idle
  <2> QED BY <2>1, <2>2, <2>3
<1>4. CASE SaveCount
  <2>1. FcTypeOK' /\ CountIsCurrent'
    BY <1>4, FcConstantAssumption DEF SaveCount, FcTypeOK, Idle, CountIsCurrent
  <2>2. LiveCountExact' /\ UnreadIn(row)' = UnreadIn(row)
    BY <1>4 DEF SaveCount, LiveCountExact, LiveIn, UnreadIn
  <2>3. DriftNeedsRace'
    BY <1>4, <2>2 DEF SaveCount, DriftNeedsRace, CountIsCurrent, Idle, FcTypeOK
  <2> QED BY <2>1, <2>2, <2>3
<1> QED BY <1>1, <1>2, <1>3, <1>4 DEF Recount

LEMMA FcInvInit == FcInit => FcInv
<1> SUFFICES ASSUME FcInit PROVE FcInv
  OBVIOUS
<1>1. \A f \in Folders : LiveIn(row)[f] = {} /\ UnreadIn(row)[f] = {}
  BY DEF FcInit, LiveIn, UnreadIn, IsLive, IsUnread
<1>2. LiveCountExact /\ DriftNeedsRace
  BY <1>1, FS_EmptySet DEF FcInit, LiveCountExact, DriftNeedsRace
<1>3. FcTypeOK /\ CountIsCurrent
  BY FcConstantAssumption DEF FcInit, FcTypeOK, Idle, CountIsCurrent
<1> QED BY <1>2, <1>3 DEF FcInv

LEMMA FcInvStep == FcInv /\ [FcNext]_fcVars => FcInv'
<1> SUFFICES ASSUME FcInv, [FcNext]_fcVars PROVE FcInv'
  OBVIOUS
<1>1. CASE Edit
  BY <1>1, EditKeeps
<1>2. CASE Recount
  BY <1>2, RecountKeeps
<1>3. CASE UNCHANGED fcVars
  BY <1>3 DEF fcVars, FcInv, FcTypeOK, LiveCountExact, LiveIn, DriftNeedsRace, UnreadIn,
              CountIsCurrent
<1> QED BY <1>1, <1>2, <1>3 DEF FcNext

-----------------------------------------------------------------------------
\* The inductive invariant of the counters (triggers of 0038 and 0039, the recount).
THEOREM FcInvariance == FcSpec => []FcInv
BY FcInvInit, FcInvStep, PTL DEF FcSpec

\* live_message_count is exact at every moment, whatever statement writes rows
\* (migration 0038).
THEOREM LiveCountTheorem == FcSpec => []LiveCountExact
<1>1. FcInv => LiveCountExact
  BY DEF FcInv
<1> QED BY <1>1, FcInvariance, PTL

\* unread_count is wrong only in a folder touched between COUNT and UPDATE, or whose
\* COUNT failed (migration 0039, update_unread_count).
THEOREM DriftTheorem == FcSpec => []DriftNeedsRace
<1>1. FcInv => DriftNeedsRace
  BY DEF FcInv
<1> QED BY <1>1, FcInvariance, PTL
=============================================================================
