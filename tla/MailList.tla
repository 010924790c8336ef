------------------------------ MODULE MailList ------------------------------
(***************************************************************************)
(* The lists of mail: a client walks a view page by page under a cursor,   *)
(* the date of the last row it has, while the syncs import messages and    *)
(* others hide and mark them, and may act on "all N" of the list at once.  *)
(***************************************************************************)
EXTENDS Naturals, FiniteSets

CONSTANTS MlMessages,  \* messages that are imported sooner or later
          MlFolderOf,  \* the folder each is in: "in1", "in2" (the inboxes of
                       \*   two accounts) or "bin"
          MlWordOf,    \* the word each contains, by its distance to the one
                       \*   that is searched: 0, 1, 2 ...
          MlLimit,     \* rows of a page
          MlMaxFuzzy,  \* MAX_FUZZY_TERMS
          MlMaxDate,   \* dates are 1 .. MlMaxDate
          MlViews      \* the views a client opens

ASSUME MlAssumption ==
    /\ IsFiniteSet(MlMessages)
    /\ MlLimit \in Nat \ {0} /\ MlMaxFuzzy \in Nat \ {0} /\ MlMaxDate \in Nat
    /\ MlViews \subseteq {"inbox", "in1", "in2", "trash", "bin", "starred", "search"}

VARIABLES
    mlRow,   \* messages: [in, date, read, flagged, deleted] of each
    mlList,  \* the list a client has: [view, unread, cursor, shown, rows, always]
    mlHist   \* history: "tie" a page ended between rows of the same date

mlVars == <<mlRow, mlList, mlHist>>

MlNoRow == [in |-> FALSE, date |-> 0, read |-> FALSE, flagged |-> FALSE, deleted |-> FALSE]
MlHidden == [in |-> TRUE, date |-> 0, read |-> FALSE, flagged |-> FALSE, deleted |-> TRUE]
MlNoList == [view |-> "none", unread |-> FALSE, cursor |-> 0, shown |-> {}, rows |-> 0, always |-> {}]
MlOpen == mlList.view # "none"
MlEnded == 0
MlTop == MlMaxDate + 1

MlInit == mlRow = [m \in MlMessages |-> MlNoRow] /\ mlList = MlNoList /\ mlHist = {}

-----------------------------------------------------------------------------
MlLive == {m \in MlMessages : mlRow[m].in /\ ~mlRow[m].deleted}
MlUnread(s, unread) == {m \in s : unread => ~mlRow[m].read}

(* expand_fuzzy_query: the word and the indexed terms nearest to it. *)
MlVocabulary == {MlWordOf[m] : m \in {n \in MlMessages : mlRow[n].in}}
MlNearest ==
    {w \in MlVocabulary : w <= 2 /\ Cardinality({v \in MlVocabulary : v < w}) < MlMaxFuzzy}
MlTermsFound == MlNearest \cup {0}

(* The folders of a view, by their type, or the one folder. *)
MlFolders(view) ==
    CASE view = "inbox" -> {"in1", "in2"}
      [] view = "trash" -> {"bin"}
      [] OTHER -> {view}

MlOfSearch == {m \in MlLive : MlWordOf[m] \in MlTermsFound}
MlOfFolder(f) == {m \in MlLive : MlFolderOf[m] = f}
MlOfFolders(view) == {m \in MlLive : MlFolderOf[m] \in MlFolders(view)}
MlStarred == {m \in MlLive : mlRow[m].flagged}

(* What belongs to a view; in a search, what certainly does. *)
MlMatching(view, unread) ==
    CASE view = "starred" -> MlUnread(MlStarred, unread)
      [] view = "search" -> MlUnread({m \in MlLive : MlWordOf[m] = 0}, unread)
      [] OTHER -> MlUnread(MlOfFolders(view), unread)

-----------------------------------------------------------------------------
(* The first rows of s by date, newest first; rows of one date come in any *)
(* order.                                                                  *)
MlFirst(s, n) ==
    {t \in SUBSET s :
        /\ Cardinality(t) = (IF Cardinality(s) < n THEN Cardinality(s) ELSE n)
        /\ \A a \in t, b \in s \ t : mlRow[b].date <= mlRow[a].date}

MlBefore(s) == {m \in s : mlRow[m].date < mlList.cursor}

(* unified_view_branch_sql: one folder's newest rows. *)
MlBranchOfOne(f) == MlFirst(MlBefore(MlUnread(MlOfFolder(f), mlList.unread)), 1)
MlBranch(f) == MlFirst(MlBefore(MlUnread(MlOfFolder(f), mlList.unread)), MlLimit)

(* The pages that unified_page, folder_page and search may return.  A view *)
(* of several folders is merged from the first rows of each.               *)
MlMerged ==
    UNION {MlFirst(a \cup b, MlLimit) : a \in MlBranch("in1"), b \in MlBranch("in2")}

MlPages ==
    CASE mlList.view = "inbox" -> MlMerged
      [] mlList.view = "starred" -> MlFirst(MlBefore(MlUnread(MlStarred, mlList.unread)), MlLimit)
      [] mlList.view = "search" -> MlFirst(MlBefore(MlUnread(MlOfSearch, mlList.unread)), MlLimit)
      [] OTHER -> UNION {MlBranch(f) : f \in MlFolders(mlList.view)}

MlLast(page) == CHOOSE d \in {mlRow[m].date : m \in page} : \A m \in page : d <= mlRow[m].date
MlHasMore(page) == Cardinality(page) = MlLimit

(* next_cursor: the date of the last row, if the page is full. *)
MlNextCursor(page) == IF MlHasMore(page) THEN MlLast(page) ELSE MlEnded

MlLoad ==
    /\ MlOpen /\ mlList.cursor # MlEnded
    /\ \E page \in MlPages :
         /\ mlList' = [mlList EXCEPT !.cursor = MlNextCursor(page), !.shown = @ \cup page,
                                   !.rows = @ + Cardinality(page)]
         /\ mlHist' = IF MlHasMore(page) /\ \E m \in MlLive \ (page \cup mlList.shown) :
                           mlRow[m].date = MlLast(page)
                      THEN mlHist \cup {"tie"} ELSE mlHist
    /\ UNCHANGED mlRow

(* A client opens a view, with or without the filter for unread messages.  *)
MlOpenList(view, unread) ==
    /\ ~MlOpen
    /\ mlList' = [view |-> view, unread |-> unread, cursor |-> MlTop, shown |-> {}, rows |-> 0,
                  always |-> MlMatching(view, unread)]
    /\ UNCHANGED <<mlRow, mlHist>>

MlCloseList ==
    /\ MlOpen /\ mlList.cursor = MlEnded
    /\ mlList' = MlNoList
    /\ mlHist' = {}
    /\ UNCHANGED mlRow

-----------------------------------------------------------------------------
(* Everyone else.  What stops matching a view need not be shown in it.     *)
MlChange(row) ==
    /\ mlRow' = row
    /\ mlList' = [mlList EXCEPT !.always =
           {m \in @ : /\ ~row[m].deleted
                      /\ mlList.unread => ~row[m].read
                      /\ mlList.view = "starred" => row[m].flagged}]
    /\ UNCHANGED mlHist

MlImport(m, date) ==
    /\ ~mlRow[m].in
    /\ MlChange([mlRow EXCEPT ![m] = [MlNoRow EXCEPT !.in = TRUE, !.date = date]])

MlMark(m) ==
    /\ m \in MlLive
    /\ MlChange([mlRow EXCEPT ![m].read = ~@]) \/ MlChange([mlRow EXCEPT ![m].flagged = ~@])

MlHide(m) == m \in MlLive /\ MlChange([mlRow EXCEPT ![m] = MlHidden])

(* bulk_action, of the view or folder: the request does not say whether    *)
(* the list is filtered.  Its propagation to the server is another matter. *)
MlScope == MlMatching(mlList.view, FALSE)

MlBulk(action) ==
    /\ MlOpen /\ mlList.view # "search" /\ MlScope # {}
    /\ MlChange([m \in MlMessages |->
         IF m \notin MlScope THEN mlRow[m]
         ELSE CASE action = "read" -> [mlRow[m] EXCEPT !.read = TRUE]
                [] action = "flag" -> [mlRow[m] EXCEPT !.flagged = TRUE]
                [] action = "delete" -> MlHidden])

MlNext ==
    \/ \E view \in MlViews, unread \in BOOLEAN : MlOpenList(view, unread)
    \/ MlLoad \/ MlCloseList
    \/ \E m \in MlMessages : \/ \E date \in 1 .. MlMaxDate : MlImport(m, date)
                             \/ MlMark(m) \/ MlHide(m)
    \/ \E action \in {"read", "flag", "delete"} : MlBulk(action)

MlSpec == MlInit /\ [][MlNext]_mlVars

-----------------------------------------------------------------------------
(* A list that was loaded to its end has shown every message that matched  *)
(* it from its opening on, whatever was imported, hidden or marked between *)
(* the pages, unless a page ended between messages of the same date: the   *)
(* cursor is their date, and the rest of them is skipped.                  *)
MlWalkComplete ==
    MlOpen /\ mlList.cursor = MlEnded /\ "tie" \notin mlHist => mlList.always \subseteq mlList.shown

(* No page has a message of an earlier one: the list would show it twice.  *)
MlShownOnce == mlList.rows = Cardinality(mlList.shown)

(* Scrolling through a list shows each of its messages, once.              *)
MlListShown == MlWalkComplete /\ MlShownOnce
=============================================================================
