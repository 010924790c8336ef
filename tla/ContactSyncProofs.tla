-------------------------- MODULE ContactSyncProofs --------------------------
(***************************************************************************)
(* ContactSync for every set of contacts and books and every number of     *)
(* changes, requests and faults: no change of the provider is skipped, a   *)
(* contact that is gone is gone from the cache once no run is under way,   *)
(* and a cache removed with its source stays empty.                        *)
(*                                                                         *)
(* CInv speaks of the clock (Times), of who writes (OneWriter, Removed)    *)
(* and, as long as no run overlapped a request and no full run was         *)
(* abandoned, of what the cache and each run under way know of the         *)
(* provider (Copied): an incremental run still works from the cursors that *)
(* are stored, the listing in hand accounts for every change up to its     *)
(* moment (PageTrue), and the generation a full run stamps tells the books *)
(* it has done from those to come (Stamped).                               *)
(*                                                                         *)
(* Last come the tasks that make these runs (ContactTasks): one task at    *)
(* most while starts and stops do not overlap.                             *)
(***************************************************************************)
EXTENDS ContactSync, ContactTasks, TLAPS

\* A run and a contact request, field by field.
RunType == [pc : {"off", "paused", "plan", "books", "report"}, incremental : BOOLEAN,
            full : BOOLEAN, gen : Nat, todo : SUBSET Books,
            cursor : [Books -> Moments \cup {NoCursor}], book : Books \cup {"none"},
            upserts : SUBSET [contact : Contacts, version : Moments],
            tombstones : SUBSET Contacts, moment : Moments]
EditType == [pc : {"off", "generation", "persist", "reconcile"},
             op : {"none", "create", "update", "delete"}, contact : Contacts \cup {"none"},
             version : Moments, gen : Nat]

\* The types of every variable, the runs and the edit included.
Types == TypeOK /\ run \in [Runners -> RunType] /\ edit \in EditType

\* Nothing stored is younger than the provider, a contact that died stays dead,
\* and only a run that lists books has one in hand.
Times ==
    /\ \A c \in Contacts : changed[c] <= now
    /\ \A c \in alive : changed[c] > 0
    /\ \A b \in Books : book[b].cursor <= now \/ book[b].cursor = NoCursor
    /\ \A a \in Runners :
        /\ run[a].moment <= now
        /\ \A c \in run[a].tombstones : c \notin alive /\ changed[c] > 0
        /\ run[a].pc # "books" => run[a].book = "none"
        /\ run[a].pc = "books" => run[a].gen > 0

\* Without an overlap there is one writer at a time, and a contact request still
\* describes the provider's contact.
OneWriter ==
    ~overlap =>
        /\ ~(Running("task") /\ Editing)
        /\ edit.pc \in {"generation", "persist"} =>
            /\ edit.contact \in Contacts
            /\ edit.version = changed[edit.contact]
            /\ edit.contact \in alive <=> edit.op # "delete"

\* A removed cache is empty, and nobody is left to fill it.
Removed ==
    ~enabled /\ ~retained /\ ~overlap =>
        /\ \A c \in Contacts : ~HasRow(c)
        /\ \A b \in Books : ~HasBook(b)
        /\ ~Editing /\ ~Running("task")

Undisturbed == ~overlap /\ ~abandoned
Listing(a) == run[a].pc = "books"

\* An incremental run works from the stored cursors.
FromStoredCursors(a) ==
    Listing(a) /\ ~run[a].full =>
        \A b \in run[a].todo : book[b].cursor \in Moments /\ run[a].cursor[b] = book[b].cursor

\* The listing of the book in hand speaks of the provider at run.moment: what had
\* changed by then is still to be written or written.
PageTrue(a) ==
    Listing(a) /\ run[a].book # "none" =>
        /\ book[run[a].book].cursor <= run[a].moment \/ book[run[a].book].cursor = NoCursor
        /\ \A u \in run[a].upserts :
            /\ BookOf[u.contact] = run[a].book
            /\ changed[u.contact] <= run[a].moment =>
                 u.contact \in alive /\ u.version = changed[u.contact]
        /\ \A c \in Contacts : BookOf[c] = run[a].book /\ changed[c] <= run[a].moment =>
            /\ c \in alive =>
                 \/ \E u \in run[a].upserts : u.contact = c
                 \/ row[c].version = changed[c] /\ (run[a].full => row[c].gen = run[a].gen)
            /\ c \notin alive /\ changed[c] > 0 /\ HasRow(c) =>
                 \/ c \in run[a].tombstones
                 \/ run[a].full /\ row[c].gen # run[a].gen

\* The generation a full run stamps tells what it saw: nothing of a book it has not
\* reached, every contact of a book it has done, and no contact that is gone.
Stamped(a) ==
    Listing(a) /\ run[a].full =>
        /\ \A c \in Contacts : BookOf[c] \in run[a].todo \ {run[a].book} => row[c].gen # run[a].gen
        /\ \A c \in alive : BookOf[c] \notin run[a].todo /\ book[BookOf[c]].gen = run[a].gen
                            /\ Covered(c) => row[c].gen = run[a].gen
        /\ \A c \in Ghosts : row[c].gen # run[a].gen

\* Only a full run's books hold contacts that are gone, until it prunes them.
NoGhosts == (\A a \in Runners : ~(Listing(a) /\ run[a].full)) => Ghosts = {}

Copied ==
    Undisturbed =>
        /\ \A c \in alive : Covered(c) => row[c].version = changed[c]
        /\ \A a \in Runners : FromStoredCursors(a) /\ PageTrue(a) /\ Stamped(a)
        /\ NoGhosts

CInv == Types /\ Times /\ OneWriter /\ Removed /\ Copied

-----------------------------------------------------------------------------
\* The fields of a run, of an edit and of the cache, one by one.
LEMMA Fields ==
    ASSUME Types
    PROVE  /\ now \in Nat /\ now <= MaxChanges /\ NoCursor \in Nat /\ NoCursor > MaxChanges
           /\ \A c \in Contacts : BookOf[c] \in Books /\ changed[c] \in Nat
                 /\ row[c].version \in Nat /\ row[c].gen \in Nat /\ (~HasRow(c) => row[c].gen = 0)
           /\ \A b \in Books : book[b].gen \in Nat /\ book[b].cursor \in Nat
                 /\ (book[b].cursor \in Moments <=> book[b].cursor # NoCursor)
                 /\ (~HasBook(b) => book[b].cursor = NoCursor)
           /\ \A a \in Runners : run[a].moment \in Nat /\ run[a].gen \in Nat
                 /\ run[a].full \in BOOLEAN /\ run[a].todo \subseteq Books
                 /\ run[a].upserts \subseteq [contact : Contacts, version : Moments]
                 /\ run[a].tombstones \subseteq Contacts
<1> USE ContactAssumption DEF Types, TypeOK, Moments, NoCursor
<1>1. now \in Nat /\ now <= MaxChanges /\ NoCursor \in Nat /\ NoCursor > MaxChanges
  OBVIOUS
<1>2. \A c \in Contacts : BookOf[c] \in Books /\ changed[c] \in Nat
         /\ row[c].version \in Nat /\ row[c].gen \in Nat /\ (~HasRow(c) => row[c].gen = 0)
  BY DEF HasRow, NoRow
<1>3. \A b \in Books : book[b].gen \in Nat /\ book[b].cursor \in Nat
         /\ (book[b].cursor \in Moments <=> book[b].cursor # NoCursor)
         /\ (~HasBook(b) => book[b].cursor = NoCursor)
  BY DEF HasBook, NoBook
<1>4. \A a \in Runners : run[a].moment \in Nat /\ run[a].gen \in Nat
         /\ run[a].full \in BOOLEAN /\ run[a].todo \subseteq Books
         /\ run[a].upserts \subseteq [contact : Contacts, version : Moments]
         /\ run[a].tombstones \subseteq Contacts
  BY DEF RunType
<1>. QED  BY <1>1, <1>2, <1>3, <1>4

\* Replacing one run, or both, by runs keeps their type.
LEMMA BlankIsRun == Blank \in RunType /\ NoEdit \in EditType
BY ContactAssumption DEF Blank, RunType, NoEdit, EditType, Moments

\* A step that leaves the provider and the cache alone, starts no listing, changes
\* none and drops a full one only by abandoning it keeps what the cache promises.
LEMMA SameListings ==
    ASSUME Copied, UNCHANGED <<now, changed, alive, book, row>>,
           Undisturbed' => Undisturbed,
           \A a \in Runners : Listing(a)' => run'[a] = run[a] /\ Listing(a),
           Undisturbed' => \A a \in Runners : Listing(a) /\ run[a].full => Listing(a)'
    PROVE  Copied'
<1> SUFFICES ASSUME Undisturbed' PROVE Copied'
  BY DEF Copied
<1>1. \A c : Covered(c)' = Covered(c) /\ HasRow(c)' = HasRow(c)
  BY DEF Covered, HasBook, HasRow
<1>2. Ghosts' = Ghosts
  BY <1>1 DEF Ghosts
<1>3. \A c \in alive' : Covered(c)' => row'[c].version = changed'[c]
  BY <1>1 DEF Copied
<1>4. ASSUME NEW a \in Runners PROVE FromStoredCursors(a)' /\ PageTrue(a)' /\ Stamped(a)'
  <2>1. CASE ~Listing(a)'
    BY <2>1 DEF FromStoredCursors, PageTrue, Stamped
  <2>2. CASE Listing(a)'
    <3>1. run'[a] = run[a] /\ FromStoredCursors(a) /\ PageTrue(a) /\ Stamped(a)
      BY <2>2 DEF Copied
    <3>2. FromStoredCursors(a)'
      BY <2>2, <3>1 DEF FromStoredCursors
    <3>3. PageTrue(a)'
      BY <1>1, <2>2, <3>1 DEF PageTrue
    <3>4. Stamped(a)'
      BY <1>1, <1>2, <2>2, <3>1 DEF Stamped
    <3>. QED  BY <3>2, <3>3, <3>4
  <2>. QED  BY <2>1, <2>2
<1>5. NoGhosts'
  BY <1>2 DEF NoGhosts, Copied
<1>. QED  BY <1>3, <1>4, <1>5 DEF Copied

\* A change of the provider is later than every cursor and every listing.
LEMMA ProviderMoves ==
    ASSUME Types, Times, Copied, NEW c \in Contacts, Stamp(c), UNCHANGED <<book, row, run>>,
           Undisturbed' => Undisturbed, alive' \subseteq Contacts,
           \A d \in Contacts : d # c => (d \in alive' <=> d \in alive)
    PROVE  Copied'
<1> SUFFICES ASSUME Undisturbed' PROVE Copied'
  BY DEF Copied
<1>1. /\ changed'[c] = now + 1
      /\ \A d \in Contacts : d # c => changed'[d] = changed[d] /\ (d \in alive' <=> d \in alive)
      /\ \A b \in Books : book[b].cursor \in Moments => book[b].cursor < now + 1
      /\ \A a \in Runners : run[a].moment < now + 1
  BY Fields DEF Stamp, Types, TypeOK, Times
<1>2. ~Covered(c)'
  BY <1>1, Fields DEF Covered
<1>3. \A d \in Contacts : d # c => (Covered(d)' <=> Covered(d))
  BY <1>1 DEF Covered, HasBook
<1>4. \A d : HasRow(d)' = HasRow(d)
  BY DEF HasRow
<1>5. Ghosts' \subseteq Ghosts
  BY <1>1, <1>2, <1>3, <1>4 DEF Ghosts
<1>6. \A d \in Contacts : d \in alive' /\ Covered(d)' => row'[d].version = changed'[d]
  BY <1>1, <1>2, <1>3 DEF Copied
<1>7. ASSUME NEW a \in Runners PROVE FromStoredCursors(a)'
  BY DEF FromStoredCursors, Copied, Listing
<1>8. ASSUME NEW a \in Runners PROVE PageTrue(a)'
  <2> SUFFICES ASSUME Listing(a), run[a].book # "none" PROVE PageTrue(a)'
    BY DEF PageTrue, Listing
  <2>1. PageTrue(a) /\ run[a].moment \in Nat /\ now \in Nat
    BY Fields DEF Copied
  <2>2. ASSUME NEW d \in Contacts, changed'[d] <= run[a].moment
        PROVE  d # c /\ changed'[d] = changed[d] /\ (d \in alive' <=> d \in alive)
    BY <1>1, <2>1, <2>2
  <2>3. \A u \in run[a].upserts : u.contact \in Contacts
    BY Fields
  <2>. QED  BY <1>4, <2>1, <2>2, <2>3 DEF PageTrue, Listing
<1>9. ASSUME NEW a \in Runners PROVE Stamped(a)'
  <2>1. alive' \subseteq Contacts /\ alive \subseteq Contacts
    BY DEF Types, TypeOK
  <2>. QED  BY <1>1, <1>2, <1>3, <1>5, <2>1 DEF Stamped, Copied, Listing
<1>10. NoGhosts'
  BY <1>5 DEF NoGhosts, Copied, Listing
<1>. QED  BY <1>6, <1>7, <1>8, <1>9, <1>10 DEF Copied

\* An upserted row is stamped by a change of that contact, or is the row there was.
LEMMA UpsertedBy ==
    ASSUME NEW c, NEW ups, NEW g
    PROVE  \/ Upserted(c, ups, g) = row[c] /\ \A u \in ups : u.contact # c
           \/ \E u \in ups : u.contact = c
                /\ Upserted(c, ups, g) = [version |-> u.version, gen |-> g]
<1> DEFINE hits == {u \in ups : u.contact = c}
<1>1. CASE hits = {}
  BY <1>1 DEF Upserted
<1>2. CASE hits # {}
  <2>1. (CHOOSE u \in hits : TRUE) \in hits
    BY <1>2
  <2>. QED  BY <1>2, <2>1 DEF Upserted
<1>. QED  BY <1>1, <1>2

\* Without an overlap one runner at most is under way.
LEMMA OneRunner ==
    ASSUME Types, OneWriter, ~overlap, NEW a \in Runners, NEW x \in Runners,
           Running(a), Running(x)
    PROVE  a = x
BY DEF Types, TypeOK, OneWriter, Runners, Editing

\* With the provider and the cache unchanged nothing else is covered or gone.
LEMMA CacheSame ==
    ASSUME UNCHANGED <<now, changed, alive, book, row>>
    PROVE  /\ \A c : Covered(c)' = Covered(c) /\ HasRow(c)' = HasRow(c)
           /\ Ghosts' = Ghosts
<1>1. \A c : Covered(c)' = Covered(c) /\ HasRow(c)' = HasRow(c)
  BY DEF Covered, HasBook, HasRow
<1>. QED  BY <1>1 DEF Ghosts

\* What Plan does to its run.
LEMMA PlanEffect ==
    ASSUME Types, NEW a \in Runners, Plan(a)
    PROVE  /\ run' = [run EXCEPT ![a] = run'[a]] /\ \A x \in Runners : x # a => run'[x] = run[x]
           /\ run[a].pc = "plan" /\ run'[a].pc = "books" /\ run'[a].book = run[a].book
           /\ run'[a].gen = generation + 1 /\ run'[a].todo = selected
           /\ run'[a].moment = run[a].moment /\ run'[a].tombstones = run[a].tombstones
           /\ \A b \in Books : run'[a].cursor[b] = book[b].cursor
           /\ ~run'[a].full => \A b \in selected : book[b].cursor # NoCursor
           /\ run'[a].full /\ Undisturbed' => ~Reused
           /\ run'[a] \in RunType
<1> DEFINE full == ~run[a].incremental \/ \E b \in selected : book[b].cursor = NoCursor
<1>1. /\ run' = [run EXCEPT ![a].pc = "books", ![a].full = full, ![a].gen = NextGeneration,
                            ![a].todo = selected, ![a].cursor = [b \in Books |-> book[b].cursor]]
      /\ abandoned' = (abandoned \/ (full /\ Reused)) /\ run[a].pc = "plan"
  BY DEF Plan
<1>2. /\ NextGeneration \in Nat
           /\ [b \in Books |-> book[b].cursor] \in [Books -> Moments \cup {NoCursor}]
      /\ selected \in SUBSET Books /\ run[a] \in RunType /\ full \in BOOLEAN
  BY DEF NextGeneration, Types, TypeOK
<1>3. /\ run' = [run EXCEPT ![a] = run'[a]] /\ \A x \in Runners : x # a => run'[x] = run[x]
      /\ run'[a] = [run[a] EXCEPT !.pc = "books", !.full = full, !.gen = NextGeneration,
                       !.todo = selected, !.cursor = [b \in Books |-> book[b].cursor]]
  BY <1>1 DEF Types
<1>6. ~full => \A b \in selected : book[b].cursor # NoCursor
  OBVIOUS
<1> HIDE DEF full
<1>4. run'[a] \in RunType /\ run'[a].full = full
  BY <1>2, <1>3 DEF RunType
<1>5. /\ run'[a].pc = "books" /\ run'[a].book = run[a].book
      /\ run'[a].gen = generation + 1 /\ run'[a].todo = selected
      /\ run'[a].moment = run[a].moment /\ run'[a].tombstones = run[a].tombstones
      /\ \A b \in Books : run'[a].cursor[b] = book[b].cursor
  BY <1>2, <1>3 DEF RunType, NextGeneration
<1>7. full /\ Undisturbed' => ~Reused
  BY <1>1 DEF Undisturbed
<1>. QED  BY <1>1, <1>3, <1>4, <1>5, <1>6, <1>7

\* What Request does to its run: the listing of one book at this moment.
LEMMA RequestEffect ==
    ASSUME Types, NEW a \in Runners, NEW b \in Books, Request(a, b)
    PROVE  /\ run' = [run EXCEPT ![a] = run'[a]] /\ \A x \in Runners : x # a => run'[x] = run[x]
           /\ run[a].pc = "books" /\ run[a].book = "none" /\ b \in run[a].todo
           /\ run'[a].pc = "books" /\ run'[a].full = run[a].full /\ run'[a].gen = run[a].gen
           /\ run'[a].todo = run[a].todo /\ run'[a].cursor = run[a].cursor
           /\ run'[a].book = b /\ run'[a].moment = now
           /\ run'[a].upserts = Upserts(b, IF run[a].full THEN 0 ELSE run[a].cursor[b])
           /\ run'[a].tombstones = IF run[a].full THEN {} ELSE Tombstones(b, run[a].cursor[b])
           /\ run'[a] \in RunType
<1> DEFINE since == IF run[a].full THEN 0 ELSE run[a].cursor[b]
           tombs == IF run[a].full THEN {} ELSE Tombstones(b, since)
<1>1. /\ run' = [run EXCEPT ![a].book = b, ![a].moment = now,
                            ![a].upserts = Upserts(b, since), ![a].tombstones = tombs]
      /\ run[a].pc = "books" /\ run[a].book = "none" /\ b \in run[a].todo
  BY DEF Request
<1>2. /\ run' = [run EXCEPT ![a] = run'[a]] /\ \A x \in Runners : x # a => run'[x] = run[x]
      /\ run'[a] = [run[a] EXCEPT !.book = b, !.moment = now,
                                  !.upserts = Upserts(b, since), !.tombstones = tombs]
  BY <1>1 DEF Types
<1>3. /\ Upserts(b, since) \in SUBSET [contact : Contacts, version : Moments]
      /\ tombs \in SUBSET Contacts /\ run[a] \in RunType /\ now \in Moments
  BY DEF Upserts, Tombstones, Types, TypeOK
<1>8. run[a] \in RunType
  BY DEF Types
<1> HIDE DEF since, tombs
<1>4. run'[a] \in RunType
  BY <1>2, <1>3 DEF RunType
<1>5. /\ run'[a].pc = run[a].pc /\ run'[a].full = run[a].full /\ run'[a].gen = run[a].gen
      /\ run'[a].todo = run[a].todo /\ run'[a].cursor = run[a].cursor
  BY <1>2, <1>8 DEF RunType
<1>9. run'[a].book = b /\ run'[a].moment = now
  BY <1>2, <1>8 DEF RunType
<1>6. run'[a].upserts = Upserts(b, since) /\ run'[a].tombstones = tombs
  BY <1>2, <1>8 DEF RunType
<1>7. tombs = IF run[a].full THEN {} ELSE Tombstones(b, run[a].cursor[b])
  BY DEF since, tombs
<1>. QED  BY <1>1, <1>2, <1>4, <1>5, <1>6, <1>7, <1>9 DEF since

\* ApplyPage's page is the last of the listing.
LastPage(a, ups, tombs) == ups = run[a].upserts /\ tombs = run[a].tombstones

\* What ApplyPage does to its run, to the book row and to the contacts.
PageWritten(a, ups, tombs) ==
    /\ run' = [run EXCEPT ![a] = run'[a]] /\ \A x \in Runners : x # a => run'[x] = run[x]
    /\ run[a].pc = "books" /\ run[a].book \in Books /\ run[a].book \in run[a].todo
    /\ run[a].book # "none"
    /\ run'[a].pc = "books" /\ run'[a].full = run[a].full /\ run'[a].gen = run[a].gen
    /\ run'[a].cursor = run[a].cursor /\ run'[a].moment = run[a].moment
    /\ run'[a].upserts = run[a].upserts \ ups
    /\ run'[a].tombstones = run[a].tombstones \ tombs
    /\ \/ /\ LastPage(a, ups, tombs) /\ book'[run[a].book].cursor = run[a].moment
          /\ run'[a].book = "none" /\ run'[a].todo = run[a].todo \ {run[a].book}
       \/ /\ ~LastPage(a, ups, tombs) /\ book'[run[a].book].cursor = book[run[a].book].cursor
          /\ run'[a].book = run[a].book /\ run'[a].todo = run[a].todo
    /\ run'[a] \in RunType
    /\ \A c \in Contacts :
         row'[c] = IF c \in tombs THEN NoRow ELSE Upserted(c, ups, run[a].gen)
    /\ \A x \in Books : x # run[a].book => book'[x] = book[x]
    /\ book'[run[a].book].gen = run[a].gen

\* The handler's step does just that.
LEMMA PageEffect ==
    ASSUME Types, NEW a \in Runners, NEW ups \in SUBSET run[a].upserts,
           NEW tombs \in SUBSET run[a].tombstones, ApplyPage(a, ups, tombs)
    PROVE  PageWritten(a, ups, tombs)
<1> DEFINE b == run[a].book
           last == LastPage(a, ups, tombs)
           left == [run[a] EXCEPT !.upserts = @ \ ups, !.tombstones = @ \ tombs,
                                  !.book = IF last THEN "none" ELSE @,
                                  !.todo = IF last THEN @ \ {b} ELSE @]
<1>1. /\ run' = [run EXCEPT ![a].upserts = @ \ ups, ![a].tombstones = @ \ tombs,
                            ![a].book = IF last THEN "none" ELSE @,
                            ![a].todo = IF last THEN @ \ {b} ELSE @]
      /\ run[a].pc = "books" /\ b # "none"
  BY DEF ApplyPage, LastPage
<1>2. b \in Books /\ b \in run[a].todo /\ run[a] \in RunType
  BY <1>1 DEF Types, TypeOK
<1>3. /\ run' = [run EXCEPT ![a] = run'[a]] /\ \A x \in Runners : x # a => run'[x] = run[x]
      /\ run'[a] = left
  BY <1>1 DEF Types
<1>4. /\ (run[a].upserts \ ups) \in SUBSET [contact : Contacts, version : Moments]
      /\ (run[a].tombstones \ tombs) \in SUBSET Contacts
      /\ (IF last THEN run[a].todo \ {b} ELSE run[a].todo) \in SUBSET Books
      /\ (IF last THEN "none" ELSE b) \in Books \cup {"none"}
  BY <1>2 DEF RunType
<1>5. left \in RunType
  BY <1>2, <1>4 DEF RunType
<1>6. /\ left.pc = "books" /\ left.full = run[a].full /\ left.gen = run[a].gen
      /\ left.cursor = run[a].cursor /\ left.moment = run[a].moment
      /\ left.upserts = run[a].upserts \ ups
      /\ left.tombstones = run[a].tombstones \ tombs
      /\ left.book = (IF last THEN "none" ELSE b)
      /\ left.todo = (IF last THEN run[a].todo \ {b} ELSE run[a].todo)
  BY <1>1, <1>2 DEF RunType
<1>7. \A c \in Contacts : row'[c] = IF c \in tombs THEN NoRow ELSE Upserted(c, ups, run[a].gen)
  BY DEF ApplyPage
<1>8. /\ \A x \in Books : x # b => book'[x] = book[x]
      /\ book'[b].gen = run[a].gen
      /\ book'[b].cursor = IF last THEN run[a].moment ELSE book[b].cursor
  BY <1>2 DEF ApplyPage, LastPage, Types, TypeOK
<1>. QED  BY <1>1, <1>2, <1>3, <1>5, <1>6, <1>7, <1>8 DEF PageWritten

\* A change at the provider keeps every variable in its type.
LEMMA RemoteWriteTypes ==
    ASSUME Types, Times, NEW c \in Contacts, RemoteWrite(c)
    PROVE  Types'
<1> USE ContactAssumption, BlankIsRun DEF Types
<1>1. run' \in [Runners -> RunType]
  BY DEF RemoteWrite
<1>2. edit' \in EditType
  BY DEF RemoteWrite
<1>3. edit'.pc = "reconcile" <=> Running("handler")'
  BY DEF RemoteWrite, Running, TypeOK
<1>4. TypeOK'
  BY <1>1, <1>2, <1>3 DEF RemoteWrite, Stamp, account, cache, TypeOK, Moments
<1>. QED  BY <1>1, <1>2, <1>4

\* So does a deletion there.
LEMMA RemoteDeleteTypes ==
    ASSUME Types, Times, NEW c \in Contacts, RemoteDelete(c)
    PROVE  Types'
<1> USE ContactAssumption, BlankIsRun DEF Types
<1>1. run' \in [Runners -> RunType]
  BY DEF RemoteDelete
<1>2. edit' \in EditType
  BY DEF RemoteDelete
<1>3. edit'.pc = "reconcile" <=> Running("handler")'
  BY DEF RemoteDelete, Running, TypeOK
<1>4. TypeOK'
  BY <1>1, <1>2, <1>3 DEF RemoteDelete, Stamp, account, cache, TypeOK, Moments
<1>. QED  BY <1>1, <1>2, <1>4

\* The task's run starts blank.
LEMMA StartSyncTypes ==
    ASSUME Types, Times, StartSync
    PROVE  Types'
<1> USE ContactAssumption, BlankIsRun DEF Types
<1>1. run' \in [Runners -> RunType]
  BY DEF StartSync, RunType, Runners
<1>2. edit' \in EditType
  BY DEF StartSync
<1>3. edit'.pc = "reconcile" <=> Running("handler")'
  BY DEF StartSync, Running, TypeOK
<1>4. TypeOK'
  BY <1>1, <1>2, <1>3 DEF StartSync, provider, cache, TypeOK
<1>. QED  BY <1>1, <1>2, <1>4

\* Planning chooses a generation and books among the selected ones.
LEMMA PlanTypes ==
    ASSUME Types, Times, NEW a \in Runners, Plan(a)
    PROVE  Types'
<1> USE ContactAssumption DEF Types
<1>1. run' \in [Runners -> RunType]
  BY PlanEffect
<1>2. edit'.pc = "reconcile" <=> Running("handler")'
  <2>1. Running("handler")' <=> Running("handler")
    BY PlanEffect DEF Running, Runners
  <2>. QED  BY <2>1 DEF Plan, TypeOK
<1>3. \A x \in Runners : run'[x].book \in run'[x].todo \cup {"none"} /\ run'[x].todo \subseteq Books
  BY PlanEffect DEF TypeOK, Times
<1>4. TypeOK'
  BY <1>2, <1>3 DEF Plan, TypeOK, account, cache, provider
<1>. QED  BY <1>1, <1>4 DEF Plan

\* A listing holds contacts and versions of this moment.
LEMMA RequestTypes ==
    ASSUME Types, Times, NEW a \in Runners, NEW b \in Books, Request(a, b)
    PROVE  Types'
<1> USE ContactAssumption DEF Types
<1>1. run' \in [Runners -> RunType]
  BY RequestEffect
<1>2. edit'.pc = "reconcile" <=> Running("handler")'
  <2>1. Running("handler")' <=> Running("handler")
    BY RequestEffect DEF Running, Runners
  <2>. QED  BY <2>1 DEF Request, TypeOK
<1>3. \A x \in Runners : run'[x].book \in run'[x].todo \cup {"none"} /\ run'[x].todo \subseteq Books
  BY RequestEffect DEF TypeOK
<1>4. TypeOK'
  BY <1>2, <1>3 DEF Request, TypeOK, account, cache, provider, history
<1>. QED  BY <1>1, <1>4 DEF Request

\* A page writes versions the listing held.
LEMMA ApplyPageTypes ==
    ASSUME Types, Times, NEW a \in Runners, NEW ups \in SUBSET run[a].upserts,
           NEW tombs \in SUBSET run[a].tombstones, ApplyPage(a, ups, tombs)
    PROVE  Types'
<1>p. PageWritten(a, ups, tombs) BY PageEffect
<1> USE ContactAssumption DEF Types
<1>0. /\ run' = [run EXCEPT ![a] = run'[a]] /\ \A x \in Runners : x # a => run'[x] = run[x]
      /\ run'[a] \in RunType /\ run'[a].pc = "books" /\ run[a].pc = "books"
      /\ run'[a].book \in run'[a].todo \cup {"none"} /\ run'[a].todo \subseteq Books
  <2>1. run[a].book \in run[a].todo \cup {"none"} /\ run[a].todo \subseteq Books
    BY DEF TypeOK
  <2>2. /\ run' = [run EXCEPT ![a] = run'[a]] /\ \A x \in Runners : x # a => run'[x] = run[x]
        /\ run'[a] \in RunType /\ run'[a].pc = "books" /\ run[a].pc = "books"
        /\ \/ run'[a].book = "none" /\ run'[a].todo = run[a].todo \ {run[a].book}
           \/ run'[a].book = run[a].book /\ run'[a].todo = run[a].todo
    BY <1>p DEF PageWritten
  <2>. QED  BY <2>1, <2>2
<1>1. run' \in [Runners -> RunType]
  BY <1>0
<1>2. edit'.pc = "reconcile" <=> Running("handler")'
  <2>1. Running("handler")' <=> Running("handler")
    BY <1>0 DEF Running, Runners
  <2>. QED  BY <2>1 DEF ApplyPage, TypeOK
<1>3. \A x \in Runners : run'[x].book \in run'[x].todo \cup {"none"} /\ run'[x].todo \subseteq Books
  BY <1>0 DEF TypeOK
<1>4. row' \in [Contacts -> [version : Moments, gen : Nat]]
  <2>1. \A c \in Contacts : Upserted(c, ups, run[a].gen) \in [version : Moments, gen : Nat]
    <3>1. row \in [Contacts -> [version : Moments, gen : Nat]] /\ run[a].gen \in Nat
      BY DEF TypeOK, RunType
    <3>2. \A u \in ups : u.version \in Moments
      BY DEF RunType
    <3>. QED  BY <3>1, <3>2, UpsertedBy
  <2>. QED  BY <2>1 DEF ApplyPage, NoRow, Moments
<1>5. book' \in [Books -> [gen : Nat, cursor : Moments \cup {NoCursor}]]
  BY DEF ApplyPage, TypeOK, RunType
<1>6. TypeOK'
  BY <1>2, <1>3, <1>4, <1>5 DEF ApplyPage, TypeOK, account, provider, history
<1>. QED  BY <1>1, <1>6 DEF ApplyPage

\* Pruning leaves rows and books in their types.
LEMMA FinishFullSyncTypes ==
    ASSUME Types, Times, NEW a \in Runners, FinishFullSync(a)
    PROVE  Types'
<1> USE ContactAssumption, BlankIsRun DEF Types
<1>1. run' \in [Runners -> RunType]
  BY DEF FinishFullSync, RunType, Moments, Runners
<1>2. edit' \in EditType
  BY DEF FinishFullSync
<1>3. edit'.pc = "reconcile" <=> Running("handler")'
  BY DEF FinishFullSync, Done, Running, TypeOK
<1>4. TypeOK'
  BY <1>1, <1>2, <1>3 DEF FinishFullSync, Keep, provider, history, TypeOK, RunType, Moments,
     NoRow, NoBook
<1>. QED  BY <1>1, <1>2, <1>4

\* Dropping the books of earlier generations does too.
LEMMA FinishBookDiscoveryTypes ==
    ASSUME Types, Times, NEW a \in Runners, FinishBookDiscovery(a)
    PROVE  Types'
<1> USE ContactAssumption, BlankIsRun DEF Types
<1>1. run' \in [Runners -> RunType]
  BY DEF FinishBookDiscovery, RunType, Runners
<1>2. edit' \in EditType
  BY DEF FinishBookDiscovery
<1>3. edit'.pc = "reconcile" <=> Running("handler")'
  BY DEF FinishBookDiscovery, Done, Running, TypeOK
<1>4. TypeOK'
  BY <1>1, <1>2, <1>3 DEF FinishBookDiscovery, Keep, provider, account, history, TypeOK,
     Moments, NoRow, NoBook
<1>. QED  BY <1>1, <1>2, <1>4

\* Only the reporting run and its request end.
LEMMA ReportTypes ==
    ASSUME Types, Times, NEW a \in Runners, Report(a)
    PROVE  Types'
<1> USE ContactAssumption, BlankIsRun DEF Types
<1>1. run' \in [Runners -> RunType]
  BY DEF Report, Stops
<1>2. edit' \in EditType
  BY DEF Report, Stops
<1>3. edit'.pc = "reconcile" <=> Running("handler")'
  BY DEF Report, Stops, Running, TypeOK, Blank, NoEdit
<1>4. TypeOK'
  BY <1>1, <1>2, <1>3 DEF Report, Stops, provider, cache, history, TypeOK, EditType, Blank
<1>. QED  BY <1>1, <1>2, <1>4

\* An expired cursor restarts the run as a full one.
LEMMA CursorExpiresTypes ==
    ASSUME Types, Times, NEW a \in Runners, CursorExpires(a)
    PROVE  Types'
<1> USE ContactAssumption, BlankIsRun DEF Types
<1>1. run' \in [Runners -> RunType]
  BY DEF CursorExpires, RunType
<1>2. edit' \in EditType
  BY DEF CursorExpires
<1>3. edit'.pc = "reconcile" <=> Running("handler")'
  BY DEF CursorExpires, Running, TypeOK
<1>4. TypeOK'
  BY <1>1, <1>2, <1>3 DEF CursorExpires, Fault, provider, account, cache, history, TypeOK,
     Blank
<1>. QED  BY <1>1, <1>2, <1>4

\* A failed run ends blank or paused.
LEMMA SyncFailsTypes ==
    ASSUME Types, Times, NEW a \in Runners, NEW s \in {"error", "unavailable"}, NEW p \in BOOLEAN,
           SyncFails(a, s, p)
    PROVE  Types'
<1> USE ContactAssumption, BlankIsRun DEF Types
<1>1. run' \in [Runners -> RunType]
  BY DEF SyncFails, RunType
<1>2. edit' \in EditType
  BY DEF SyncFails
<1>3. edit'.pc = "reconcile" <=> Running("handler")'
  BY DEF SyncFails, Running, TypeOK, NoEdit
<1>4. TypeOK'
  BY <1>1, <1>2, <1>3 DEF SyncFails, Fault, provider, cache, TypeOK, EditType, Blank
<1>. QED  BY <1>1, <1>2, <1>4

\* The task's run is replaced by a blank one.
LEMMA TriggerSyncTypes ==
    ASSUME Types, Times, TriggerSync
    PROVE  Types'
<1> USE ContactAssumption, BlankIsRun DEF Types
<1>1. run' \in [Runners -> RunType]
  BY DEF TriggerSync, Aborted
<1>2. edit' \in EditType
  BY DEF TriggerSync
<1>3. edit'.pc = "reconcile" <=> Running("handler")'
  BY DEF TriggerSync, Aborted, Running, TypeOK
<1>4. TypeOK'
  BY <1>1, <1>2, <1>3 DEF TriggerSync, UserRequest, Aborted, provider, account, cache, TypeOK,
     Blank
<1>. QED  BY <1>1, <1>2, <1>4

\* A selection is a set of books.
LEMMA SelectBooksTypes ==
    ASSUME Types, Times, NEW books \in SUBSET Books, SelectBooks(books)
    PROVE  Types'
<1> USE ContactAssumption, BlankIsRun DEF Types
<1>1. run' \in [Runners -> RunType]
  BY DEF SelectBooks
<1>2. edit' \in EditType
  BY DEF SelectBooks
<1>3. edit'.pc = "reconcile" <=> Running("handler")'
  BY DEF SelectBooks, Running, TypeOK
<1>4. TypeOK'
  BY <1>1, <1>2, <1>3 DEF SelectBooks, UserRequest, provider, account, cache, TypeOK
<1>. QED  BY <1>1, <1>2, <1>4

\* Disabling keeps the cache or empties it.
LEMMA DisableContactsTypes ==
    ASSUME Types, Times, NEW keep \in BOOLEAN, DisableContacts(keep)
    PROVE  Types'
<1> USE ContactAssumption, BlankIsRun DEF Types
<1>1. run' \in [Runners -> RunType] /\ edit' = edit
  BY DEF DisableContacts, Aborted
<1>2. run'["handler"] = run["handler"] /\ run'["task"] = Blank
  BY DEF DisableContacts, Aborted, Runners
<1>3. edit'.pc = "reconcile" <=> Running("handler")'
  BY <1>1, <1>2 DEF Running, TypeOK
<1>4. /\ row' \in [Contacts -> [version : Moments, gen : Nat]]
      /\ book' \in [Books -> [gen : Nat, cursor : Moments \cup {NoCursor}]]
  BY DEF DisableContacts, Keep, cache, TypeOK, NoRow, NoBook, Moments
<1>5. \A x \in Runners : run'[x].book \in run'[x].todo \cup {"none"} /\ run'[x].todo \subseteq Books
  BY <1>2 DEF Runners, TypeOK, Blank
<1>6. overlap' \in BOOLEAN /\ abandoned' \in BOOLEAN /\ edits' \in 0 .. MaxEdits /\ edit' = edit
  BY DEF DisableContacts, UserRequest, TypeOK
<1>7. TypeOK'
  BY <1>3, <1>4, <1>5, <1>6 DEF DisableContacts, TypeOK, provider
<1>. QED  BY <1>1, <1>7

\* Enabling resets the capability and the task's run.
LEMMA EnableContactsTypes ==
    ASSUME Types, Times, EnableContacts
    PROVE  Types'
<1> USE ContactAssumption, BlankIsRun DEF Types
<1>1. run' \in [Runners -> RunType]
  BY DEF EnableContacts, Aborted
<1>2. edit' \in EditType
  BY DEF EnableContacts
<1>3. edit'.pc = "reconcile" <=> Running("handler")'
  BY DEF EnableContacts, Aborted, Running, TypeOK
<1>4. TypeOK'
  BY <1>1, <1>2, <1>3 DEF EnableContacts, UserRequest, Aborted, provider, cache, TypeOK, Blank
<1>. QED  BY <1>1, <1>2, <1>4

\* A contact request changes one contact at the provider.
LEMMA EditTypes ==
    ASSUME Types, Times, NEW op \in {"create", "update", "delete"}, NEW c \in Contacts, Edit(op, c)
    PROVE  Types'
<1> USE ContactAssumption DEF Types
<1>1. run' = run /\ changed' \in [Contacts -> Moments] /\ now' \in Moments
      /\ alive' \in SUBSET Contacts
  <2>1. CASE Stamp(c) /\ alive' \in {alive, alive \cup {c}, alive \ {c}}
    BY <2>1 DEF Edit, Stamp, TypeOK, Moments
  <2>2. CASE UNCHANGED provider
    BY <2>2 DEF Edit, provider, TypeOK
  <2>3. (Stamp(c) /\ alive' \in {alive, alive \cup {c}, alive \ {c}}) \/ UNCHANGED provider
    BY DEF Edit
  <2>. QED  BY <2>1, <2>2, <2>3
<1>2. edit' = [pc |-> "generation", op |-> op, contact |-> c, version |-> changed'[c], gen |-> 0]
  BY DEF Edit
<1>3. edit' \in EditType
  BY <1>1, <1>2 DEF EditType
<1>4. edit'.pc = "reconcile" <=> Running("handler")'
  BY <1>1, <1>2 DEF Edit, Editing, Running, TypeOK
<1>5. TypeOK'
  BY <1>1, <1>2, <1>4 DEF Edit, UserRequest, TypeOK, account, cache
<1>. QED  BY <1>1, <1>3, <1>5

\* The request reads the generation its row will carry.
LEMMA ReadGenerationTypes ==
    ASSUME Types, Times, ReadGeneration
    PROVE  Types'
<1> USE ContactAssumption, BlankIsRun DEF Types
<1>1. run' \in [Runners -> RunType]
  BY DEF ReadGeneration
<1>2. edit' \in EditType
  BY DEF ReadGeneration, EditType, TypeOK
<1>3. edit'.pc = "reconcile" <=> Running("handler")'
  BY DEF ReadGeneration, Running, TypeOK
<1>4. TypeOK'
  BY <1>1, <1>2, <1>3 DEF ReadGeneration, provider, account, cache, history, TypeOK
<1>. QED  BY <1>1, <1>2, <1>4

\* Its row has the provider's version.
LEMMA PersistTypes ==
    ASSUME Types, Times, Persist
    PROVE  Types'
<1> USE ContactAssumption, BlankIsRun DEF Types
<1>1. run' \in [Runners -> RunType]
  BY DEF Persist
<1>2. edit' \in EditType
  BY DEF Persist
<1>3. edit'.pc = "reconcile" <=> Running("handler")'
  BY DEF Persist, Running, TypeOK, NoEdit
<1>4. TypeOK'
  BY <1>1, <1>2, <1>3 DEF Persist, provider, account, cache, history, TypeOK, RunType,
     EditType, Moments, NoCursor, NoRow, NoBook, Blank
<1>. QED  BY <1>1, <1>2, <1>4

\* A failed write hands the request over to a run of the handler.
LEMMA PersistFailsTypes ==
    ASSUME Types, Times, PersistFails
    PROVE  Types'
<1> USE ContactAssumption, BlankIsRun DEF Types
<1>1. run' \in [Runners -> RunType]
  BY DEF PersistFails, RunType, Runners
<1>2. edit' \in EditType
  BY DEF PersistFails, EditType
<1>3. edit'.pc = "reconcile" <=> Running("handler")'
  BY DEF PersistFails, Running, Runners
<1>4. TypeOK'
  BY <1>1, <1>2, <1>3 DEF PersistFails, Fault, provider, cache, TypeOK
<1>. QED  BY <1>1, <1>2, <1>4

\* A restart blanks the runs and the request.
LEMMA RestartTypes ==
    ASSUME Types, Times, Restart
    PROVE  Types'
<1> USE ContactAssumption, BlankIsRun DEF Types
<1>1. run' \in [Runners -> RunType]
  BY DEF Restart
<1>2. edit' \in EditType
  BY DEF Restart
<1>3. edit'.pc = "reconcile" <=> Running("handler")'
  BY DEF Restart, Running, Blank, NoEdit, Runners
<1>4. TypeOK'
  BY <1>1, <1>2, <1>3 DEF Restart, Fault, provider, cache, TypeOK, EditType, Blank
<1>. QED  BY <1>1, <1>2, <1>4


\* A change at the provider is later than every cursor and every listing, and so due
\* to be listed.
LEMMA RemoteWriteKeeps ==
    ASSUME CInv, NEW c \in Contacts, RemoteWrite(c)
    PROVE  CInv'
<1> USE ContactAssumption DEF CInv
<1>1. Types'
  BY RemoteWriteTypes
<1>2. Times'
  BY <1>1 DEF RemoteWrite, Stamp, cache, Types, TypeOK, Times, RunType, Moments
<1>3. OneWriter'
  BY <1>1 DEF RemoteWrite, Stamp, Types, TypeOK, OneWriter, Running, Editing
<1>4. Removed'
  BY <1>1 DEF RemoteWrite, account, cache, Removed, Running, Editing, HasRow, HasBook
<1>5. Undisturbed' => Undisturbed
  BY DEF RemoteWrite, Undisturbed
<1>6. Copied'
  <2>1. Stamp(c) /\ UNCHANGED <<book, row, run>> /\ alive' \subseteq Contacts
    BY <1>1 DEF RemoteWrite, cache, Types, TypeOK
  <2>2. \A x \in Contacts : x # c => (x \in alive' <=> x \in alive)
    BY DEF RemoteWrite
  <2>. QED  BY <1>5, <2>1, <2>2, ProviderMoves
<1>. QED  BY <1>1, <1>2, <1>3, <1>4, <1>6

\* So is a deletion: the contact becomes no ghost, for no cursor covers it.
LEMMA RemoteDeleteKeeps ==
    ASSUME CInv, NEW c \in Contacts, RemoteDelete(c)
    PROVE  CInv'
<1> USE ContactAssumption DEF CInv
<1>1. Types'
  BY RemoteDeleteTypes
<1>2. Times'
  BY <1>1 DEF RemoteDelete, Stamp, cache, Types, TypeOK, Times, RunType, Moments
<1>3. OneWriter'
  BY <1>1 DEF RemoteDelete, Stamp, Types, TypeOK, OneWriter, Running, Editing
<1>4. Removed'
  BY <1>1 DEF RemoteDelete, account, cache, Removed, Running, Editing, HasRow, HasBook
<1>5. Undisturbed' => Undisturbed
  BY DEF RemoteDelete, Undisturbed
<1>6. Copied'
  <2>1. Stamp(c) /\ UNCHANGED <<book, row, run>> /\ alive' \subseteq Contacts
    BY <1>1 DEF RemoteDelete, cache, Types, TypeOK
  <2>2. \A x \in Contacts : x # c => (x \in alive' <=> x \in alive)
    BY DEF RemoteDelete
  <2>. QED  BY <1>5, <2>1, <2>2, ProviderMoves
<1>. QED  BY <1>1, <1>2, <1>3, <1>4, <1>6

\* A run that starts lists nothing yet, and no other run is under way unless they
\* overlap.
LEMMA StartSyncKeeps ==
    ASSUME CInv, StartSync
    PROVE  CInv'
<1> USE ContactAssumption DEF CInv
<1>1. Types'
  BY StartSyncTypes
<1>2. Times'
  BY <1>1 DEF StartSync, provider, cache, Times
<1>3. OneWriter'
  BY <1>1 DEF StartSync, OneWriter, Editing
<1>4. Removed'
  BY <1>1 DEF StartSync, Removed
<1>5. Undisturbed' => Undisturbed
  BY DEF StartSync, Undisturbed
<1>6. Copied'
  <2>1. UNCHANGED <<now, changed, alive, book, row>>
    BY DEF StartSync, provider, cache
  <2>2. \A x \in Runners : Listing(x)' => run'[x] = run[x] /\ Listing(x)
    BY DEF StartSync, Listing
  <2>3. Undisturbed' => \A x \in Runners : Listing(x) /\ run[x].full => Listing(x)'
    BY DEF StartSync, Listing
  <2>. QED  BY <1>5, <2>1, <2>2, <2>3, SameListings
<1>. QED  BY <1>1, <1>2, <1>3, <1>4, <1>6

\* The generation chosen is on no row, unless it is reused, and an incremental run
\* takes the stored cursors.
LEMMA PlanKeeps ==
    ASSUME CInv, NEW a \in Runners, Plan(a)
    PROVE  CInv'
<1> USE ContactAssumption DEF CInv
<1>1. Types'
  BY PlanTypes
<1>2. Times'
  <2>1. UNCHANGED <<now, changed, alive, book, row>> /\ run'[a].gen > 0
    <3>1. generation \in Nat /\ run'[a].gen = generation + 1
      BY PlanEffect DEF Types, TypeOK
    <3>2. UNCHANGED <<now, changed, alive, book, row>>
      BY DEF Plan, provider, cache
    <3>. QED  BY <3>1, <3>2
  <2>2. ASSUME NEW x \in Runners
        PROVE  /\ run'[x].moment = run[x].moment /\ run'[x].tombstones = run[x].tombstones
               /\ run'[x].book = run[x].book
               /\ x # a => run'[x] = run[x]
    BY PlanEffect
  <2>. QED  BY <2>1, <2>2, PlanEffect DEF Times
<1>3. OneWriter'
  BY <1>1 DEF Plan, NextGeneration, Reused, provider, account, cache, history, Types, TypeOK,
     OneWriter, Times, Running, Editing, Runners, EditType, Blank, NoEdit
<1>4. Removed'
  BY <1>1 DEF Plan, NextGeneration, Reused, provider, account, cache, history, Types, TypeOK,
     Removed, OneWriter, Running, Editing, HasRow, HasBook, Runners, Blank, NoEdit, RunType
<1>5. Undisturbed' => Undisturbed
  BY DEF Plan, NextGeneration, Reused, provider, account, cache, history, Undisturbed, Types,
     TypeOK
<1>6. Copied'
  <2> SUFFICES ASSUME Undisturbed' PROVE Copied'
    BY DEF Copied
  <2>1. UNCHANGED <<now, changed, alive, book, row>>
    BY DEF Plan, provider, cache
  <2>2. Undisturbed /\ ~overlap
    BY <1>5 DEF Undisturbed
  <2>3. \A x \in Runners : ~Listing(x)
    BY <2>2, OneRunner, PlanEffect DEF Listing, Running
  <2>4. \A x \in Runners : x # a => ~Listing(x)'
    BY <2>3, PlanEffect DEF Listing
  <2>5. Ghosts' = {}
    BY <2>1, <2>2, <2>3, CacheSame DEF Copied, NoGhosts
  <2>6. FromStoredCursors(a)'
    BY <2>1, PlanEffect, Fields DEF FromStoredCursors, Types, TypeOK
  <2>7. PageTrue(a)'
    BY PlanEffect DEF PageTrue, Times
  <2>8. Stamped(a)'
    <3> SUFFICES ASSUME run'[a].full PROVE Stamped(a)'
      BY DEF Stamped
    <3>1. ~Reused /\ run'[a].gen = NextGeneration /\ run'[a].todo = selected
      BY PlanEffect DEF NextGeneration
    <3>2. \A c \in Contacts : row[c].gen # run'[a].gen
      BY <3>1 DEF Reused
    <3>3. \A c \in alive : BookOf[c] \notin run'[a].todo => book[BookOf[c]].gen # run'[a].gen
      BY <3>1, Fields DEF Reused, Types, TypeOK
    <3>. QED  BY <2>1, <2>5, <3>2, <3>3 DEF Stamped
  <2>9. \A x \in Runners : FromStoredCursors(x)' /\ PageTrue(x)' /\ Stamped(x)'
    BY <2>4, <2>6, <2>7, <2>8 DEF FromStoredCursors, PageTrue, Stamped
  <2>. QED  BY <2>1, <2>2, <2>5, <2>9, CacheSame DEF Copied, NoGhosts
<1>. QED  BY <1>1, <1>2, <1>3, <1>4, <1>6

\* A listing is true at the moment it is taken: the change log from the cursor, or
\* all there is.
LEMMA RequestKeeps ==
    ASSUME CInv, NEW a \in Runners, NEW b \in Books, Request(a, b)
    PROVE  CInv'
<1> USE ContactAssumption DEF CInv
<1>1. Types'
  BY RequestTypes
<1>2. Times'
  <2>1. \A c \in Contacts : changed'[c] = changed[c]
    BY DEF Request, provider
  <2>2. \A c \in run'[a].tombstones : c \notin alive /\ changed[c] > 0
    <3>1. \A since \in Nat : \A c \in Tombstones(b, since) : c \notin alive /\ changed[c] > 0
      BY Fields DEF Tombstones
    <3>2. run[a].cursor[b] \in Nat
      BY DEF Types, RunType, Moments, NoCursor
    <3>. QED  BY <3>1, <3>2, RequestEffect
  <2>3. now \in Nat
    BY Fields
  <2>4. UNCHANGED <<now, changed, alive, book>> /\ run'[a].moment = now
        /\ run'[a].pc = "books" /\ run[a].pc = "books" /\ run'[a].gen = run[a].gen
        /\ \A x \in Runners : x # a => run'[x] = run[x]
    BY RequestEffect DEF Request, provider, cache
  <2>. QED  BY <2>2, <2>3, <2>4 DEF Times
<1>3. OneWriter'
  BY <1>1 DEF Request, Upserts, Tombstones, provider, account, cache, history, Types, TypeOK,
     OneWriter, Times, Running, Editing, Runners, EditType, Blank, NoEdit
<1>4. Removed'
  BY <1>1 DEF Request, Upserts, Tombstones, provider, account, cache, history, Types, TypeOK,
     Removed, OneWriter, Running, Editing, HasRow, HasBook, Runners, Blank, NoEdit, RunType
<1>5. Undisturbed' => Undisturbed
  BY DEF Request, Upserts, Tombstones, provider, account, cache, history, Undisturbed, Types,
     TypeOK
<1>6. Copied'
  <2> SUFFICES ASSUME Undisturbed' PROVE Copied'
    BY DEF Copied
  <2> DEFINE since == IF run[a].full THEN 0 ELSE run[a].cursor[b]
  <2>1. UNCHANGED <<now, changed, alive, book, row>>
    BY DEF Request, provider, cache
  <2>2. Undisturbed /\ ~overlap
    BY <1>5 DEF Undisturbed
  <2>3. Listing(a) /\ Listing(a)' /\ run'[a].full = run[a].full /\ b \in run[a].todo
    BY RequestEffect DEF Listing
  <2>4. \A x \in Runners : x # a => ~Listing(x)
    BY <2>2, <2>3, OneRunner DEF Listing, Running
  <2>5. \A x \in Runners : x # a => ~Listing(x)'
    BY <2>4, RequestEffect DEF Listing
  <2>6. Ghosts' = Ghosts
    BY <2>1, CacheSame
  <2>7. FromStoredCursors(a)'
    BY <2>1, <2>2, <2>3, RequestEffect DEF FromStoredCursors, Copied
  <2>8. Stamped(a)'
    <3>1. Stamped(a) /\ run'[a].gen = run[a].gen /\ run'[a].todo = run[a].todo
          /\ run'[a].todo \ {run'[a].book} \subseteq run[a].todo \ {run[a].book}
      <4>1. run[a].book \notin run[a].todo
        BY RequestEffect, ContactAssumption DEF Types, TypeOK
      <4>. QED  BY <2>2, <4>1, RequestEffect DEF Copied
    <3>. QED  BY <2>1, <2>3, <2>6, <3>1, CacheSame DEF Stamped
  <2>9. PageTrue(a)'
    <3>1. run'[a].book = b /\ run'[a].moment = now /\ run'[a].gen = run[a].gen
          /\ run'[a].upserts = Upserts(b, since)
          /\ (~run[a].full => run'[a].tombstones = Tombstones(b, since))
      BY RequestEffect
    <3>2. book[b].cursor <= now \/ book[b].cursor = NoCursor
      BY DEF Times
    <3>3. \A u \in Upserts(b, since) : u.contact \in Contacts /\ BookOf[u.contact] = b
             /\ u.contact \in alive /\ u.version = changed[u.contact]
      BY DEF Upserts, Types, TypeOK
    <3>4. \A c \in alive : BookOf[c] = b /\ changed[c] > since =>
             \E u \in Upserts(b, since) : u.contact = c
      <4>1. ASSUME NEW c \in alive, BookOf[c] = b, changed[c] > since
            PROVE  [contact |-> c, version |-> changed[c]] \in Upserts(b, since)
        BY <4>1 DEF Upserts
      <4>. QED  BY <4>1
    <3>5. ASSUME NEW c \in Contacts, BookOf[c] = b, c \in alive
          PROVE  \/ \E u \in Upserts(b, since) : u.contact = c
                 \/ ~run[a].full /\ row[c].version = changed[c]
      <4>1. CASE changed[c] > since
        BY <3>4, <3>5, <4>1
      <4>2. CASE ~(changed[c] > since)
        <5>1. ~run[a].full
          BY <3>5, <4>2 DEF Times
        <5>2. book[b].cursor \in Moments /\ since = book[b].cursor
          BY <2>2, <2>3, <5>1 DEF Copied, FromStoredCursors
        <5>3. Covered(c)
          BY <3>5, <4>2, <5>2, Fields DEF Covered
        <5>. QED  BY <2>2, <3>5, <5>1, <5>3 DEF Copied
      <4>. QED  BY <4>1, <4>2
    <3>6. ASSUME NEW c \in Contacts, BookOf[c] = b, c \notin alive, changed[c] > 0, HasRow(c)
          PROVE  \/ c \in run'[a].tombstones
                 \/ run[a].full /\ row[c].gen # run[a].gen
      <4>1. CASE run[a].full
        <5>1. b \in run[a].todo \ {run[a].book}
          BY <2>3, RequestEffect, ContactAssumption
        <5>. QED  BY <2>2, <2>3, <3>6, <4>1, <5>1 DEF Copied, Stamped
      <4>2. CASE ~run[a].full /\ changed[c] > since
        BY <3>1, <3>6, <4>2 DEF Tombstones
      <4>3. CASE ~run[a].full /\ ~(changed[c] > since)
        <5>1. book[b].cursor \in Moments /\ since = book[b].cursor
          BY <2>2, <2>3, <4>3 DEF Copied, FromStoredCursors
        <5>2. Covered(c)
          BY <3>6, <4>3, <5>1, Fields DEF Covered
        <5>3. c \in Ghosts
          BY <3>6, <5>2 DEF Ghosts
        <5>4. Ghosts = {}
          BY <2>2, <2>4, <4>3 DEF Copied, NoGhosts
        <5>. QED  BY <5>3, <5>4
      <4>. QED  BY <4>1, <4>2, <4>3
    <3> HIDE DEF since
    <3>. QED  BY <2>1, <2>3, <3>1, <3>2, <3>3, <3>5, <3>6, CacheSame DEF PageTrue
  <2>10. \A x \in Runners : FromStoredCursors(x)' /\ PageTrue(x)' /\ Stamped(x)'
    BY <2>5, <2>7, <2>8, <2>9 DEF FromStoredCursors, PageTrue, Stamped
  <2>11. NoGhosts'
    BY <2>2, <2>3, <2>4, <2>6 DEF NoGhosts, Copied
  <2>. QED  BY <2>1, <2>2, <2>10, <2>11, CacheSame DEF Copied
<1>. QED  BY <1>1, <1>2, <1>3, <1>4, <1>6

\* A page writes what the listing said and stores its moment only with the last one.
LEMMA ApplyPageKeeps ==
    ASSUME CInv, NEW a \in Runners, NEW ups \in SUBSET run[a].upserts,
           NEW tombs \in SUBSET run[a].tombstones, ApplyPage(a, ups, tombs)
    PROVE  CInv'
<1>p. PageWritten(a, ups, tombs) BY PageEffect DEF CInv
<1> USE ContactAssumption DEF CInv
<1>1. Types'
  BY ApplyPageTypes
<1>2. Times'
  <2>1. UNCHANGED <<now, changed, alive>> /\ now \in Nat
    BY Fields DEF ApplyPage, provider
  <2>2. /\ \A x \in Runners : x # a => run'[x] = run[x]
        /\ run[a].pc = "books" /\ run'[a].pc = "books" /\ run'[a].gen = run[a].gen
        /\ run'[a].moment = run[a].moment /\ run'[a].tombstones \subseteq run[a].tombstones
    BY <1>p DEF PageWritten
  <2>3. ASSUME NEW x \in Books PROVE book'[x].cursor <= now \/ book'[x].cursor = NoCursor
    <3>1. \/ book'[x].cursor = book[x].cursor
          \/ book'[x].cursor = run[a].moment
      <4>1. CASE x = run[a].book
        BY <4>1, <1>p DEF PageWritten
      <4>2. CASE x # run[a].book
        BY <4>2, <1>p DEF PageWritten
      <4>. QED  BY <4>1, <4>2
    <3>. QED  BY <3>1 DEF Times
  <2>. QED  BY <2>1, <2>2, <2>3 DEF Times
<1>3. OneWriter'
  BY <1>1 DEF ApplyPage, Upserted, provider, account, cache, history, Types, TypeOK,
     OneWriter, Times, Running, Editing, Runners, EditType, Blank, NoEdit
<1>4. Removed'
  BY <1>1 DEF ApplyPage, Upserted, provider, account, cache, history, Types, TypeOK, Removed,
     OneWriter, Running, Editing, HasRow, HasBook, Runners, Blank, NoEdit, RunType
<1>5. Undisturbed' => Undisturbed
  BY DEF ApplyPage, history, Undisturbed
<1>6. Copied'
  <2> SUFFICES ASSUME Undisturbed' PROVE Copied'
    BY DEF Copied
  <2>0. /\ \A x \in Runners : x # a => run'[x] = run[x]
        /\ run'[a].upserts = run[a].upserts \ ups /\ run'[a].tombstones = run[a].tombstones \ tombs
        /\ \A c \in Contacts :
             row'[c] = IF c \in tombs THEN NoRow ELSE Upserted(c, ups, run[a].gen)
        /\ \A x \in Books : x # run[a].book => book'[x] = book[x]
        /\ book'[run[a].book].gen = run[a].gen
    <3>1. \A x \in Runners : x # a => run'[x] = run[x]
      BY DEF ApplyPage, Types
    <3>2. run'[a].upserts = run[a].upserts \ ups /\ run'[a].tombstones = run[a].tombstones \ tombs
      BY <1>p DEF PageWritten
    <3>3. \A c \in Contacts :
             row'[c] = IF c \in tombs THEN NoRow ELSE Upserted(c, ups, run[a].gen)
      BY DEF ApplyPage
    <3>4. \A x \in Books : x # run[a].book => book'[x] = book[x]
      BY <1>p DEF PageWritten
    <3>5. book'[run[a].book].gen = run[a].gen
      BY <1>p DEF PageWritten
    <3>. QED  BY <3>1, <3>2, <3>3, <3>4, <3>5
  <2> DEFINE b == run[a].book
             g == run[a].gen
             m == run[a].moment
             last == LastPage(a, ups, tombs)
  <2>1. UNCHANGED <<now, changed, alive>> /\ alive \subseteq Contacts
    BY DEF ApplyPage, provider, Types, TypeOK
  <2>2. Undisturbed /\ ~overlap
    BY <1>5 DEF Undisturbed
  <2>3. Listing(a) /\ Listing(a)' /\ run'[a].full = run[a].full /\ run'[a].gen = g
        /\ run'[a].moment = m
        /\ run'[a].cursor = run[a].cursor
        /\ b \in run[a].todo /\ b # "none" /\ b \in Books /\ g > 0 /\ g \in Nat /\ m \in Nat
    BY <1>p, Fields DEF PageWritten, Listing, Times
  <2>4. \A x \in Runners : x # a => ~Listing(x) /\ ~Listing(x)'
    <3>1. \A x \in Runners : x # a => ~Listing(x)
      BY <2>2, <2>3, OneRunner DEF Listing, Running
    <3>. QED  BY <2>0, <3>1 DEF Listing
  <2>5. FromStoredCursors(a) /\ PageTrue(a) /\ Stamped(a)
    BY <2>2 DEF Copied
  <2>6. /\ \A x \in Books : x # b => book'[x] = book[x]
        /\ book'[b].gen = g
        /\ \A c \in Contacts : row'[c] = IF c \in tombs THEN NoRow ELSE Upserted(c, ups, g)
        /\ run'[a].upserts = run[a].upserts \ ups /\ run'[a].tombstones = run[a].tombstones \ tombs
    BY <2>0
  <2>7. \/ last /\ run'[a].book = "none" /\ run'[a].todo = run[a].todo \ {b} /\ book'[b].cursor = m
        \/ ~last /\ run'[a].book = b /\ run'[a].todo = run[a].todo
             /\ book'[b].cursor = book[b].cursor
    BY <1>p DEF PageWritten
  <2>8. /\ book[b].cursor <= m \/ book[b].cursor = NoCursor
        /\ \A u \in ups : u.contact \in Contacts /\ u.version \in Nat /\ BookOf[u.contact] = b
             /\ (changed[u.contact] <= m =>
                   u.contact \in alive /\ u.version = changed[u.contact])
        /\ \A c \in tombs : c \in Contacts /\ c \notin alive
    <3>1. /\ book[b].cursor <= m \/ book[b].cursor = NoCursor
          /\ \A u \in run[a].upserts : BookOf[u.contact] = b
               /\ (changed[u.contact] <= m =>
                     u.contact \in alive /\ u.version = changed[u.contact])
      BY <2>3, <2>5 DEF PageTrue
    <3>2. \A u \in run[a].upserts : u.contact \in Contacts /\ u.version \in Nat
      BY Fields DEF Moments
    <3>3. \A c \in run[a].tombstones : c \in Contacts /\ c \notin alive
      BY Fields DEF Times
    <3>. QED  BY <3>1, <3>2, <3>3
  <2>9. ASSUME NEW c \in Contacts
        PROVE  \/ c \in tombs /\ row'[c] = NoRow
               \/ c \notin tombs /\ row'[c] = row[c] /\ \A u \in ups : u.contact # c
               \/ c \notin tombs /\ BookOf[c] = b /\ row'[c].gen = g
                  /\ (changed[c] <= m => c \in alive /\ row'[c].version = changed[c])
    BY <2>6, <2>8, UpsertedBy
  <2>10. ASSUME NEW c \in Contacts, Covered(c)'
         PROVE  IF BookOf[c] = b THEN changed[c] <= m /\ (~last => Covered(c)) ELSE Covered(c)
    <3>1. CASE BookOf[c] # b
      BY <2>1, <2>6, <2>10, <3>1, Fields DEF Covered, HasBook
    <3>2. CASE BookOf[c] = b /\ last
      BY <2>1, <2>3, <2>6, <2>7, <2>10, <3>2 DEF Covered
    <3>3. CASE BookOf[c] = b /\ ~last
      <4>1. book[b].cursor \in Moments /\ changed[c] <= book[b].cursor
        BY <2>1, <2>6, <2>7, <2>10, <3>3 DEF Covered
      <4>2. HasBook(b) /\ book[b].cursor <= m /\ changed[c] \in Nat /\ book[b].cursor \in Nat
        BY <2>3, <2>8, <4>1, Fields
      <4>. QED  BY <2>3, <3>3, <4>1, <4>2 DEF Covered
    <3>. QED  BY <3>1, <3>2, <3>3
  <2>11. ASSUME NEW c \in Contacts, BookOf[c] = b, changed[c] <= m, c \in alive,
                \A u \in ups : u.contact # c
         PROVE  \/ \E u \in run'[a].upserts : u.contact = c
                \/ row[c].version = changed[c] /\ (run[a].full => row[c].gen = g)
    BY <2>3, <2>5, <2>6, <2>11 DEF PageTrue
  <2>12. ASSUME NEW c \in Contacts, BookOf[c] = b, changed[c] <= m, c \notin alive, changed[c] > 0,
                HasRow(c)'
         PROVE  \/ c \in run'[a].tombstones
                \/ run[a].full /\ row'[c].gen # g
    <3>1. row'[c] = row[c] /\ c \notin tombs
      BY <2>9, <2>12 DEF HasRow
    <3>2. HasRow(c)
      BY <2>12, <3>1 DEF HasRow
    <3>. QED  BY <2>3, <2>5, <2>6, <2>12, <3>1, <3>2 DEF PageTrue
  <2>13. \A c \in alive' : Covered(c)' => row'[c].version = changed'[c]
    <3> SUFFICES ASSUME NEW c \in alive, Covered(c)' PROVE row'[c].version = changed[c]
      BY <2>1
    <3>1. c \in Contacts /\ c \notin tombs
      BY <2>1, <2>8
    <3>2. CASE BookOf[c] # b
      BY <2>2, <2>9, <2>10, <3>1, <3>2 DEF Copied
    <3>3. CASE BookOf[c] = b /\ \A u \in ups : u.contact # c
      <4>1. changed[c] <= m /\ row'[c] = row[c] /\ (~last => Covered(c))
        BY <2>6, <2>8, <2>10, <3>1, <3>3, UpsertedBy
      <4>2. CASE last
        BY <2>6, <2>11, <3>1, <3>3, <4>1, <4>2 DEF LastPage
      <4>3. CASE ~last
        BY <2>2, <4>1, <4>3 DEF Copied
      <4>. QED  BY <4>2, <4>3
    <3>4. CASE BookOf[c] = b /\ \E u \in ups : u.contact = c
      BY <2>9, <2>10, <3>1, <3>4
    <3>. QED  BY <3>2, <3>3, <3>4
  <2>14. FromStoredCursors(a)'
    BY <2>3, <2>5, <2>6, <2>7, Fields DEF FromStoredCursors
  <2>15. PageTrue(a)'
    <3> SUFFICES ASSUME ~last PROVE PageTrue(a)'
      BY <2>7 DEF PageTrue
    <3>1. run'[a].book = b /\ book'[b].cursor = book[b].cursor
      BY <2>6, <2>7
    <3>2. \A u \in run'[a].upserts : BookOf[u.contact] = b /\
            (changed[u.contact] <= m => u.contact \in alive /\ u.version = changed[u.contact])
      BY <2>3, <2>5, <2>6 DEF PageTrue
    <3>3. ASSUME NEW c \in Contacts, BookOf[c] = b, changed[c] <= m, c \in alive
          PROVE  \/ \E u \in run'[a].upserts : u.contact = c
                 \/ row'[c].version = changed[c] /\ (run[a].full => row'[c].gen = g)
      <4>1. CASE \A u \in ups : u.contact # c
        <5>1. row'[c] = row[c]
          BY <2>6, <2>8, <3>3, <4>1, UpsertedBy
        <5>. QED  BY <2>11, <3>3, <4>1, <5>1
      <4>2. CASE \E u \in ups : u.contact = c
        BY <2>8, <2>9, <3>3, <4>2
      <4>. QED  BY <4>1, <4>2
    <3>. QED  BY <2>1, <2>3, <2>8, <2>12, <3>1, <3>2, <3>3 DEF PageTrue
  <2>16. ASSUME run[a].full, NEW c \in Contacts, c \notin alive, changed[c] > 0, Covered(c)',
                HasRow(c)'
         PROVE  row'[c].gen # g
    <3>1. CASE BookOf[c] # b
      <4>1. row'[c] = row[c]
        BY <2>9, <2>16, <3>1 DEF HasRow
      <4>2. c \in Ghosts
        BY <2>10, <2>16, <3>1, <4>1 DEF Ghosts, HasRow
      <4>. QED  BY <2>3, <2>5, <2>16, <4>1, <4>2 DEF Stamped
    <3>2. CASE BookOf[c] = b /\ last
      BY <2>6, <2>10, <2>12, <2>16, <3>2 DEF LastPage
    <3>3. CASE BookOf[c] = b /\ ~last
      <4>1. changed[c] <= m /\ Covered(c)
        BY <2>10, <2>16, <3>3
      <4>2. row'[c] = row[c]
        BY <2>9, <2>16, <4>1 DEF HasRow
      <4>3. c \in Ghosts
        BY <2>16, <4>1, <4>2 DEF Ghosts, HasRow
      <4>. QED  BY <2>3, <2>5, <2>16, <4>2, <4>3 DEF Stamped
    <3>. QED  BY <3>1, <3>2, <3>3
  <2>17. Stamped(a)'
    <3> SUFFICES ASSUME run[a].full PROVE Stamped(a)'
      BY <2>3 DEF Stamped
    <3>1. ASSUME NEW c \in Contacts, BookOf[c] \in run'[a].todo \ {run'[a].book}
          PROVE  row'[c].gen # g
      <4>1. BookOf[c] # b /\ BookOf[c] \in run[a].todo \ {b}
        BY <2>7, <3>1
      <4>2. row'[c] = row[c] \/ row'[c] = NoRow
        BY <2>9, <4>1
      <4>3. row[c].gen # g /\ NoRow.gen = 0
        BY <2>3, <2>5, <4>1 DEF Stamped, NoRow
      <4>. QED  BY <2>3, <4>2, <4>3
    <3>2. ASSUME NEW c \in alive, BookOf[c] \notin run'[a].todo, book'[BookOf[c]].gen = g,
                 Covered(c)'
          PROVE  row'[c].gen = g
      <4>1. c \in Contacts /\ c \notin tombs /\ BookOf[c] \in Books
        BY <2>1, <2>8, Fields
      <4>2. CASE BookOf[c] # b
        <5>1. row'[c] = row[c] /\ Covered(c) /\ book[BookOf[c]].gen = g
              /\ BookOf[c] \notin run[a].todo
          BY <2>6, <2>7, <2>9, <2>10, <3>2, <4>1, <4>2
        <5>. QED  BY <2>3, <2>5, <5>1 DEF Stamped
      <4>3. CASE BookOf[c] = b
        <5>1. last /\ changed[c] <= m
          BY <2>3, <2>7, <2>10, <3>2, <4>1, <4>3
        <5>2. CASE \A u \in ups : u.contact # c
          <6>1. row'[c] = row[c]
            BY <2>6, <4>1, <5>2, UpsertedBy
          <6>. QED  BY <2>6, <2>11, <3>2, <4>1, <4>3, <5>1, <5>2, <6>1 DEF LastPage
        <5>3. CASE \E u \in ups : u.contact = c
          BY <2>9, <4>1, <5>3
        <5>. QED  BY <5>2, <5>3
      <4>. QED  BY <4>2, <4>3
    <3>3. \A c \in Ghosts' : row'[c].gen # g
      BY <2>1, <2>16 DEF Ghosts
    <3>. QED  BY <2>1, <2>3, <3>1, <3>2, <3>3 DEF Stamped
  <2>18. NoGhosts'
    <3> SUFFICES ASSUME ~run[a].full, NEW c \in Ghosts' PROVE FALSE
      BY <2>3 DEF NoGhosts
    <3>1. c \in Contacts /\ c \notin alive /\ changed[c] > 0 /\ Covered(c)' /\ HasRow(c)'
      BY <2>1 DEF Ghosts
    <3>2. Ghosts = {}
      BY <2>2, <2>3, <2>4 DEF NoGhosts, Copied
    <3>3. BookOf[c] = b /\ last
      <4> SUFFICES ASSUME ~(BookOf[c] = b /\ last) PROVE FALSE
        OBVIOUS
      <4>1. Covered(c)
        BY <2>10, <3>1
      <4>2. row'[c] = row[c]
        <5>1. BookOf[c] = b => changed[c] <= m
          BY <2>10, <3>1
        <5>. QED  BY <2>9, <3>1, <5>1 DEF HasRow
      <4>. QED  BY <3>1, <3>2, <4>1, <4>2 DEF Ghosts, HasRow
    <3>4. changed[c] <= m
      BY <2>10, <3>1, <3>3
    <3>. QED  BY <2>6, <2>12, <3>1, <3>3, <3>4 DEF LastPage
  <2>. QED
    BY <2>4, <2>13, <2>14, <2>15, <2>17, <2>18 DEF Copied, FromStoredCursors, PageTrue, Stamped
<1>. QED  BY <1>1, <1>2, <1>3, <1>4, <1>6

\* Pruning removes what the full run did not stamp, and so every ghost and no
\* contact that lives.
LEMMA FinishFullSyncKeeps ==
    ASSUME CInv, NEW a \in Runners, FinishFullSync(a)
    PROVE  CInv'
<1> USE ContactAssumption DEF CInv
<1>1. Types'
  BY FinishFullSyncTypes
<1>2. Times'
  BY <1>1 DEF FinishFullSync, Keep, Done, provider, Types, TypeOK, Times, NoBook
<1>3. OneWriter'
  BY <1>1 DEF FinishFullSync, Done, provider, history, OneWriter, Running, Editing
<1>4. Removed'
  BY <1>1 DEF FinishFullSync, Keep, Done, history, Removed, Running, Editing, HasRow, HasBook
<1>5. Undisturbed' => Undisturbed
  BY DEF FinishFullSync, history, Undisturbed
<1>6. Copied'
  <2> SUFFICES ASSUME Undisturbed' PROVE Copied'
    BY DEF Copied
  <2> DEFINE g == run[a].gen
  <2>1. /\ UNCHANGED <<now, changed, alive>> /\ alive \subseteq Contacts
        /\ Listing(a) /\ run[a].full /\ run[a].todo = {} /\ ~Listing(a)'
        /\ \A x \in Runners : x # a => run'[x] = run[x]
    BY DEF FinishFullSync, Done, Listing, provider, Types, TypeOK
  <2>2. Undisturbed /\ ~overlap
    BY <1>5 DEF Undisturbed
  <2>3. \A x \in Runners : ~Listing(x)'
    BY <2>1, <2>2, OneRunner DEF Listing, Running
  <2>4. ASSUME NEW x \in Books, HasBook(x)'
        PROVE  HasBook(x) /\ book'[x] = book[x] /\ book[x].gen = g
    BY <2>4 DEF FinishFullSync, Keep, OfGeneration, HasBook
  <2>5. ASSUME NEW c \in Contacts, Covered(c)'
        PROVE  Covered(c) /\ book[BookOf[c]].gen = g /\ BookOf[c] \in OfGeneration(g)
    BY <2>1, <2>4, <2>5, Fields DEF Covered, OfGeneration
  <2>6. ASSUME NEW c \in Contacts, Covered(c)'
        PROVE  row'[c] = IF row[c].gen = g THEN row[c] ELSE NoRow
    BY <2>5, <2>6 DEF FinishFullSync, Keep
  <2>7. Stamped(a)
    BY <2>2 DEF Copied
  <2>8. \A c \in alive : Covered(c)' => row'[c].version = changed[c]
    BY <2>1, <2>2, <2>5, <2>6, <2>7 DEF Copied, Stamped
  <2>9. Ghosts' = {}
    <3> SUFFICES ASSUME NEW c \in Ghosts' PROVE FALSE
      OBVIOUS
    <3>1. c \in Contacts /\ c \notin alive /\ changed[c] > 0 /\ Covered(c)' /\ HasRow(c)'
      BY <2>1 DEF Ghosts
    <3>2. row[c].gen = g /\ HasRow(c)
      BY <2>6, <3>1 DEF HasRow
    <3>3. c \in Ghosts
      BY <2>5, <3>1, <3>2 DEF Ghosts
    <3>. QED  BY <2>1, <2>7, <3>2, <3>3 DEF Stamped
  <2>. QED
    BY <2>1, <2>3, <2>8, <2>9 DEF Copied, FromStoredCursors, PageTrue, Stamped, NoGhosts
<1>. QED  BY <1>1, <1>2, <1>3, <1>4, <1>6

\* Rows of books that are dropped go with their cursors.
LEMMA FinishBookDiscoveryKeeps ==
    ASSUME CInv, NEW a \in Runners, FinishBookDiscovery(a)
    PROVE  CInv'
<1> USE ContactAssumption DEF CInv
<1>1. Types'
  BY FinishBookDiscoveryTypes
<1>2. Times'
  BY <1>1 DEF FinishBookDiscovery, Keep, OfGeneration, Done, provider, Types, TypeOK, Times,
     NoBook, Blank
<1>3. OneWriter'
  BY <1>1 DEF FinishBookDiscovery, Done, provider, history, OneWriter, Running, Editing
<1>4. Removed'
  BY <1>1 DEF FinishBookDiscovery, Keep, Done, account, history, Removed, Running, Editing,
     HasRow, HasBook
<1>5. Undisturbed' => Undisturbed
  BY DEF FinishBookDiscovery, history, Undisturbed
<1>6. Copied'
  <2> SUFFICES ASSUME Undisturbed' PROVE Copied'
    BY DEF Copied
  <2>1. /\ UNCHANGED <<now, changed, alive>> /\ alive \subseteq Contacts
        /\ Listing(a) /\ ~run[a].full /\ ~Listing(a)'
        /\ \A x \in Runners : x # a => run'[x] = run[x]
    BY DEF FinishBookDiscovery, Done, Listing, provider, Types, TypeOK
  <2>2. Undisturbed /\ ~overlap
    BY <1>5 DEF Undisturbed
  <2>3. \A x \in Runners : ~Listing(x)' /\ ~(Listing(x) /\ run[x].full)
    BY <2>1, <2>2, OneRunner DEF Listing, Running
  <2>4. ASSUME NEW x \in Books, HasBook(x)'
        PROVE  HasBook(x) /\ book'[x] = book[x] /\ x \in OfGeneration(run[a].gen)
    BY <2>4 DEF FinishBookDiscovery, Keep, OfGeneration, HasBook
  <2>5. ASSUME NEW c \in Contacts, Covered(c)'
        PROVE  Covered(c) /\ row'[c] = row[c]
    BY <2>1, <2>4, <2>5, Fields DEF Covered, FinishBookDiscovery, Keep
  <2>6. \A c \in alive : Covered(c)' => row'[c].version = changed[c]
    BY <2>1, <2>2, <2>5 DEF Copied
  <2>7. Ghosts' \subseteq Ghosts
    BY <2>1, <2>5 DEF Ghosts, HasRow
  <2>8. Ghosts = {}
    BY <2>2, <2>3 DEF Copied, NoGhosts
  <2>. QED
    BY <2>1, <2>3, <2>6, <2>7, <2>8 DEF Copied, FromStoredCursors, PageTrue, Stamped, NoGhosts
<1>. QED  BY <1>1, <1>2, <1>3, <1>4, <1>6

\* A run that reports has no listing left to account for.
LEMMA ReportKeeps ==
    ASSUME CInv, NEW a \in Runners, Report(a)
    PROVE  CInv'
<1> USE ContactAssumption DEF CInv
<1>1. Types'
  BY ReportTypes
<1>2. Times'
  BY <1>1 DEF Report, Stops, provider, cache, Types, TypeOK, Times, Moments, Blank
<1>3. OneWriter'
  BY <1>1 DEF Report, Stops, provider, history, OneWriter, Running, Editing, NoEdit
<1>4. Removed'
  BY <1>1 DEF Report, Stops, cache, history, Types, TypeOK, Removed, Running, Editing, HasRow,
     HasBook
<1>5. Undisturbed' => Undisturbed
  BY DEF Report, history, Undisturbed
<1>6. Copied'
  <2>1. UNCHANGED <<now, changed, alive, book, row>>
    BY DEF Report, provider, cache
  <2>2. \A x \in Runners : Listing(x)' => run'[x] = run[x] /\ Listing(x)
    BY DEF Report, Stops, Listing, Blank
  <2>3. Undisturbed' => \A x \in Runners : Listing(x) /\ run[x].full => Listing(x)'
    BY DEF Report, Stops, Listing
  <2>. QED  BY <1>5, <2>1, <2>2, <2>3, SameListings
<1>. QED  BY <1>1, <1>2, <1>3, <1>4, <1>6

\* The run that starts over lists every book, with all of its contacts.
LEMMA CursorExpiresKeeps ==
    ASSUME CInv, NEW a \in Runners, CursorExpires(a)
    PROVE  CInv'
<1> USE ContactAssumption DEF CInv
<1>1. Types'
  BY CursorExpiresTypes
<1>2. Times'
  BY <1>1 DEF CursorExpires, provider, cache, Types, TypeOK, Times, Moments, Blank
<1>3. OneWriter'
  BY <1>1 DEF CursorExpires, provider, history, OneWriter, Running, Editing
<1>4. Removed'
  BY <1>1 DEF CursorExpires, account, cache, history, Removed, Running, Editing, HasRow,
     HasBook
<1>5. Undisturbed' => Undisturbed
  BY DEF CursorExpires, history, Undisturbed
<1>6. Copied'
  <2>1. UNCHANGED <<now, changed, alive, book, row>>
    BY DEF CursorExpires, provider, cache
  <2>2. \A x \in Runners : Listing(x)' => run'[x] = run[x] /\ Listing(x)
    BY DEF CursorExpires, Listing
  <2>3. Undisturbed' => \A x \in Runners : Listing(x) /\ run[x].full => Listing(x)'
    BY DEF CursorExpires, Listing
  <2>. QED  BY <1>5, <2>1, <2>2, <2>3, SameListings
<1>. QED  BY <1>1, <1>2, <1>3, <1>4, <1>6

\* A run that fails leaves no listing; if it was full it is recorded as abandoned.
LEMMA SyncFailsKeeps ==
    ASSUME CInv, NEW a \in Runners, NEW s \in {"error", "unavailable"}, NEW p \in BOOLEAN,
           SyncFails(a, s, p)
    PROVE  CInv'
<1> USE ContactAssumption DEF CInv
<1>1. Types'
  BY SyncFailsTypes
<1>2. Times'
  BY <1>1 DEF SyncFails, Fault, Abandons, provider, account, cache, history, Types, TypeOK,
     Times, RunType, Runners, Moments, NoCursor, NoRow, NoBook, Blank
<1>3. OneWriter'
  BY <1>1 DEF SyncFails, provider, OneWriter, Running, Editing, NoEdit
<1>4. Removed'
  BY <1>1 DEF SyncFails, cache, Types, TypeOK, Removed, Running, Editing, HasRow, HasBook
<1>5. Undisturbed' => Undisturbed
  BY DEF SyncFails, Undisturbed
<1>6. Copied'
  <2>1. UNCHANGED <<now, changed, alive, book, row>>
    BY DEF SyncFails, provider, cache
  <2>2. \A x \in Runners : Listing(x)' => run'[x] = run[x] /\ Listing(x)
    BY DEF SyncFails, Listing
  <2>3. Undisturbed' => \A x \in Runners : Listing(x) /\ run[x].full => Listing(x)'
    BY DEF SyncFails, Abandons, Listing, Undisturbed, Types
  <2>. QED  BY <1>5, <2>1, <2>2, <2>3, SameListings
<1>. QED  BY <1>1, <1>2, <1>3, <1>4, <1>6

\* The aborted task's listing is forgotten; a full one is recorded as abandoned.
LEMMA TriggerSyncKeeps ==
    ASSUME CInv, TriggerSync
    PROVE  CInv'
<1> USE ContactAssumption DEF CInv
<1>1. Types'
  BY TriggerSyncTypes
<1>2. Times'
  BY <1>1 DEF TriggerSync, Aborted, provider, cache, Types, TypeOK, Times, Moments, Blank
<1>3. OneWriter'
  BY <1>1 DEF TriggerSync, Aborted, provider, Types, OneWriter, Running, Blank
<1>4. Removed'
  BY <1>1 DEF TriggerSync, Aborted, account, cache, Removed, Running, Editing, HasRow,
     HasBook, Blank
<1>5. Undisturbed' => Undisturbed
  BY DEF TriggerSync, Undisturbed
<1>6. Copied'
  <2>1. UNCHANGED <<now, changed, alive, book, row>>
    BY DEF TriggerSync, provider, cache
  <2>2. \A x \in Runners : Listing(x)' => run'[x] = run[x] /\ Listing(x)
    BY DEF TriggerSync, Aborted, Listing, Blank
  <2>3. Undisturbed' => \A x \in Runners : Listing(x) /\ run[x].full => Listing(x)'
    BY DEF TriggerSync, Aborted, Abandons, Listing, Undisturbed, Types
  <2>. QED  BY <1>5, <2>1, <2>2, <2>3, SameListings
<1>. QED  BY <1>1, <1>2, <1>3, <1>4, <1>6

\* A selection changes what later runs plan, never what is stored.
LEMMA SelectBooksKeeps ==
    ASSUME CInv, NEW books \in SUBSET Books, SelectBooks(books)
    PROVE  CInv'
<1> USE ContactAssumption DEF CInv
<1>1. Types'
  BY SelectBooksTypes
<1>2. Times'
  BY <1>1 DEF SelectBooks, provider, cache, Times
<1>3. OneWriter'
  BY <1>1 DEF SelectBooks, provider, OneWriter, Running, Editing
<1>4. Removed'
  BY <1>1 DEF SelectBooks, account, cache, Removed, Running, Editing, HasRow, HasBook
<1>5. Undisturbed' => Undisturbed
  BY DEF SelectBooks, Undisturbed
<1>6. Copied'
  <2>1. UNCHANGED <<now, changed, alive, book, row>>
    BY DEF SelectBooks, provider, cache
  <2>2. \A x \in Runners : Listing(x)' => run'[x] = run[x] /\ Listing(x)
    BY DEF SelectBooks, Listing
  <2>3. Undisturbed' => \A x \in Runners : Listing(x) /\ run[x].full => Listing(x)'
    BY DEF SelectBooks, Listing
  <2>. QED  BY <1>5, <2>1, <2>2, <2>3, SameListings
<1>. QED  BY <1>1, <1>2, <1>3, <1>4, <1>6

\* Nothing is covered in a cache that is removed, and the task is aborted.
LEMMA DisableContactsKeeps ==
    ASSUME CInv, NEW keep \in BOOLEAN, DisableContacts(keep)
    PROVE  CInv'
<1> USE ContactAssumption DEF CInv
<1>1. Types'
  BY DisableContactsTypes
<1>2. Times'
  BY <1>1 DEF DisableContacts, Aborted, Keep, provider, cache, Types, TypeOK, Times, Moments,
     NoBook, Blank
<1>3. OneWriter'
  BY <1>1 DEF DisableContacts, OneWriter, Editing
<1>4. Removed'
  <2> SUFFICES ASSUME ~retained', ~overlap' PROVE Removed'
    BY DEF Removed
  <2>1. Keep({}, {}) /\ ~Editing /\ ~overlap /\ run'["task"] = Blank /\ edit' = edit
    BY DEF DisableContacts, Aborted, Types, Runners
  <2>2. \A c \in Contacts : row'[c] = NoRow
    BY <2>1 DEF Keep
  <2>3. \A x \in Books : book'[x] = NoBook
    BY <2>1 DEF Keep
  <2>. QED  BY <2>1, <2>2, <2>3 DEF Removed, HasRow, HasBook, Editing, Running, Blank
<1>5. Undisturbed' => Undisturbed
  BY DEF DisableContacts, Undisturbed
<1>6. Copied'
  <2> SUFFICES ASSUME Undisturbed' PROVE Copied'
    BY DEF Copied
  <2>1. run' = [run EXCEPT !["task"] = Blank] /\ UNCHANGED provider
        /\ \/ UNCHANGED cache
           \/ Keep({}, {})
    BY DEF DisableContacts, Aborted
  <2>2. \A x \in Runners : Listing(x)' => run'[x] = run[x] /\ Listing(x)
    BY <2>1 DEF Listing, Blank, Types, Runners
  <2>3. \A x \in Runners : Listing(x) /\ run[x].full => Listing(x)'
    BY <2>1 DEF DisableContacts, Abandons, Undisturbed, Listing, Types
  <2>4. CASE UNCHANGED cache
    BY <1>5, <2>1, <2>2, <2>3, <2>4, SameListings DEF provider, cache
  <2>5. CASE Keep({}, {})
    <3>1. /\ \A x \in Books : ~HasBook(x)'
          /\ \A c \in Contacts : ~HasRow(c)'
      BY <2>5 DEF Keep, HasBook, HasRow
    <3>2. \A c \in Contacts : ~Covered(c)'
      BY <3>1, ContactAssumption DEF Covered
    <3>3. \A x \in Runners : ~Listing(x)'
      <4>1. ~Editing /\ edit' = edit
        BY DEF DisableContacts, Undisturbed
      <4>2. ~Running("handler")
        BY <4>1 DEF Editing, Types, TypeOK
      <4>. QED  BY <2>1, <2>2, <4>2 DEF Listing, Running, Blank, Types, Runners
    <3>4. Ghosts' = {} /\ alive' \subseteq Contacts
      BY <1>1, <3>2 DEF Ghosts, Types, TypeOK
    <3>. QED  BY <3>2, <3>3, <3>4 DEF Copied, FromStoredCursors, PageTrue, Stamped, NoGhosts
  <2>. QED  BY <2>1, <2>4, <2>5
<1>. QED  BY <1>1, <1>2, <1>3, <1>4, <1>6

\* Enabling forgets the task's listing, a full one as abandoned, and lifts what disabling promised.
LEMMA EnableContactsKeeps ==
    ASSUME CInv, EnableContacts
    PROVE  CInv'
<1> USE ContactAssumption DEF CInv
<1>1. Types'
  BY EnableContactsTypes
<1>2. Times'
  BY <1>1 DEF EnableContacts, Aborted, provider, cache, Types, TypeOK, Times, Moments, Blank
<1>3. OneWriter'
  BY <1>1 DEF EnableContacts, Aborted, provider, Types, OneWriter, Running, Blank
<1>4. Removed'
  BY <1>1 DEF EnableContacts, Removed
<1>5. Undisturbed' => Undisturbed
  BY DEF EnableContacts, Undisturbed
<1>6. Copied'
  <2>1. UNCHANGED <<now, changed, alive, book, row>>
    BY DEF EnableContacts, provider, cache
  <2>2. \A x \in Runners : Listing(x)' => run'[x] = run[x] /\ Listing(x)
    BY DEF EnableContacts, Aborted, Listing, Blank
  <2>3. Undisturbed' => \A x \in Runners : Listing(x) /\ run[x].full => Listing(x)'
    BY DEF EnableContacts, Aborted, Abandons, Listing, Undisturbed, Types
  <2>. QED  BY <1>5, <2>1, <2>2, <2>3, SameListings
<1>. QED  BY <1>1, <1>2, <1>3, <1>4, <1>6

\* A contact request changes the provider first; the row it will write is of that
\* version.
LEMMA EditKeeps ==
    ASSUME CInv, NEW op \in {"create", "update", "delete"}, NEW c \in Contacts, Edit(op, c)
    PROVE  CInv'
<1> USE ContactAssumption DEF CInv
<1>1. Types'
  BY EditTypes
<1>2. Times'
  <2>1. run' = run /\ book' = book /\ now' \in Nat /\ now <= now'
        /\ (\A x \in alive' : x \in Contacts /\ (x \in alive \/ x = c))
        /\ (\A x \in Contacts : x # c => changed'[x] = changed[x])
        /\ (changed'[c] = now' \/ (changed'[c] = changed[c] /\ alive' = alive))
        /\ (\A x \in Contacts \ alive : x \in alive' => x = c /\ changed[c] = 0)
        /\ (c \in alive' => changed'[c] > 0) /\ changed'[c] >= changed[c]
    <3>1. CASE Stamp(c) /\ \/ changed[c] = 0 /\ alive' = alive \cup {c}
                           \/ c \in alive /\ alive' \in {alive, alive \ {c}}
      BY <3>1, Fields DEF Edit, cache, Stamp, Types, TypeOK, Times
    <3>2. CASE UNCHANGED provider
      BY <3>2, Fields DEF Edit, cache, provider, Types, TypeOK, Times
    <3>3. \/ Stamp(c) /\ \/ changed[c] = 0 /\ alive' = alive \cup {c}
                         \/ c \in alive /\ alive' \in {alive, alive \ {c}}
          \/ UNCHANGED provider
      BY DEF Edit
    <3>. QED  BY <3>1, <3>2, <3>3
  <2>. QED  BY <2>1, Fields DEF Times
<1>3. OneWriter'
  BY <1>1 DEF Edit, UserRequest, Stamp, provider, account, cache, history, Types, TypeOK,
     OneWriter, Times, Running, Editing, Runners, EditType, Blank, NoEdit
<1>4. Removed'
  BY <1>1 DEF Edit, account, Removed
<1>5. Undisturbed' => Undisturbed
  BY DEF Edit, Undisturbed
<1>6. Copied'
  <2>1. UNCHANGED <<book, row, run>> /\ alive' \subseteq Contacts
    BY <1>1 DEF Edit, cache, Types, TypeOK
  <2>2. CASE Stamp(c) /\ \A x \in Contacts : x # c => (x \in alive' <=> x \in alive)
    BY <1>5, <2>1, <2>2, ProviderMoves
  <2>3. CASE UNCHANGED provider
    <3>1. UNCHANGED <<now, changed, alive, book, row>>
      BY <2>1, <2>3 DEF provider
    <3>2. \A x \in Runners : Listing(x)' <=> Listing(x)
      BY <2>1 DEF Listing
    <3>. QED  BY <1>5, <2>1, <3>1, <3>2, SameListings
  <2>4. \/ Stamp(c) /\ \A x \in Contacts : x # c => (x \in alive' <=> x \in alive)
        \/ UNCHANGED provider
    BY DEF Edit
  <2>. QED  BY <2>2, <2>3, <2>4
<1>. QED  BY <1>1, <1>2, <1>3, <1>4, <1>6

\* Reading the generation stores nothing.
LEMMA ReadGenerationKeeps ==
    ASSUME CInv, ReadGeneration
    PROVE  CInv'
<1> USE ContactAssumption DEF CInv
<1>1. Types'
  BY ReadGenerationTypes
<1>2. Times'
  BY <1>1 DEF ReadGeneration, provider, cache, Times
<1>3. OneWriter'
  BY <1>1 DEF ReadGeneration, provider, history, OneWriter, Running, Editing
<1>4. Removed'
  BY <1>1 DEF ReadGeneration, account, history, Removed, Editing
<1>5. Undisturbed' => Undisturbed
  BY DEF ReadGeneration, history, Undisturbed
<1>6. Copied'
  <2>1. UNCHANGED <<now, changed, alive, book, row>>
    BY DEF ReadGeneration, provider, cache
  <2>2. \A x \in Runners : Listing(x)' => run'[x] = run[x] /\ Listing(x)
    BY DEF ReadGeneration, Listing
  <2>3. Undisturbed' => \A x \in Runners : Listing(x) /\ run[x].full => Listing(x)'
    BY DEF ReadGeneration, Listing
  <2>. QED  BY <1>5, <2>1, <2>2, <2>3, SameListings
<1>. QED  BY <1>1, <1>2, <1>3, <1>4, <1>6

\* The row stored is the provider's contact, so it hides no change.
LEMMA PersistKeeps ==
    ASSUME CInv, Persist
    PROVE  CInv'
<1> USE ContactAssumption DEF CInv
<1>1. Types'
  BY PersistTypes
<1>2. Times'
  BY <1>1 DEF Persist, provider, Times
<1>3. OneWriter'
  BY <1>1 DEF Persist, OneWriter, Editing, NoEdit
<1>4. Removed'
  BY <1>1 DEF Persist, account, history, Removed, Editing
<1>5. Undisturbed' => Undisturbed
  BY DEF Persist, history, Undisturbed
<1>6. Copied'
  <2> SUFFICES ASSUME Undisturbed' PROVE Copied'
    BY DEF Copied
  <2>1. /\ UNCHANGED <<now, changed, alive, run>> /\ alive \subseteq Contacts
        /\ edit.pc = "persist"
    BY DEF Persist, provider, Types, TypeOK
  <2>2. Undisturbed /\ ~overlap
    BY <1>5 DEF Undisturbed
  <2>3. /\ edit.contact \in Contacts /\ edit.version = changed[edit.contact]
        /\ edit.contact \in alive <=> edit.op # "delete"
    BY <2>1, <2>2 DEF OneWriter
  <2>4. \A x \in Runners : ~Listing(x)
    BY <2>1, <2>2 DEF OneWriter, Editing, Running, Listing, Runners, Types, TypeOK
  <2>5. /\ \A c \in Contacts : c # edit.contact => row'[c] = row[c]
        /\ edit.op = "delete" => row'[edit.contact] = NoRow
        /\ edit.op # "delete" => row'[edit.contact].version = changed[edit.contact]
    BY <2>3 DEF Persist, Types, TypeOK
  <2>6. \A x \in Books : book'[x].cursor = book[x].cursor
    BY DEF Persist, Types, TypeOK
  <2>7. \A c \in Contacts : Covered(c)' => Covered(c)
    BY <2>1, <2>6, Fields DEF Covered
  <2>8. \A c \in alive : Covered(c)' => row'[c].version = changed[c]
    BY <2>1, <2>2, <2>3, <2>5, <2>7 DEF Copied
  <2>9. Ghosts' \subseteq Ghosts
    BY <2>1, <2>3, <2>5, <2>7 DEF Ghosts, HasRow
  <2>10. Ghosts = {}
    BY <2>2, <2>4 DEF Copied, NoGhosts
  <2>11. \A x \in Runners : ~Listing(x)'
    BY <2>1, <2>4 DEF Listing
  <2>. QED
    BY <2>1, <2>8, <2>9, <2>10, <2>11 DEF Copied, FromStoredCursors, PageTrue, Stamped,
       NoGhosts
<1>. QED  BY <1>1, <1>2, <1>3, <1>4, <1>6

\* A write that failed leaves the contact to the handler's run, for no cursor covers it.
LEMMA PersistFailsKeeps ==
    ASSUME CInv, PersistFails
    PROVE  CInv'
<1> USE ContactAssumption DEF CInv
<1>1. Types'
  BY PersistFailsTypes
<1>2. Times'
  <2>1. run' = [run EXCEPT !["handler"].pc = "plan"] /\ ~Running("handler")
    BY DEF PersistFails, Types, TypeOK
  <2>2. run["handler"].book = "none" /\ "handler" \in Runners
    BY <2>1 DEF Times, Running, Runners
  <2>. QED  BY <1>1, <2>1, <2>2 DEF PersistFails, provider, cache, Times
<1>3. OneWriter'
  BY <1>1 DEF PersistFails, Types, TypeOK, OneWriter, Running, Editing
<1>4. Removed'
  BY <1>1 DEF PersistFails, Removed, Editing
<1>5. Undisturbed' => Undisturbed
  BY DEF PersistFails, Undisturbed
<1>6. Copied'
  <2>1. UNCHANGED <<now, changed, alive, book, row>>
    BY DEF PersistFails, provider, cache
  <2>2. run' = [run EXCEPT !["handler"].pc = "plan"] /\ ~Running("handler")
        /\ run \in [Runners -> RunType]
    BY DEF PersistFails, Types, TypeOK
  <2>3. ASSUME NEW x \in Runners
        PROVE  (Listing(x)' => run'[x] = run[x] /\ Listing(x)) /\ (Listing(x) => Listing(x)')
    BY <2>2 DEF Listing, Running, RunType
  <2>. QED  BY <1>5, <2>1, <2>3, SameListings
<1>. QED  BY <1>1, <1>2, <1>3, <1>4, <1>6

\* A restart forgets the listings and keeps the cache; a full run it cuts short is
\* abandoned.
LEMMA RestartKeeps ==
    ASSUME CInv, Restart
    PROVE  CInv'
<1> USE ContactAssumption DEF CInv
<1>1. Types'
  BY RestartTypes
<1>2. Times'
  BY <1>1 DEF Restart, provider, cache, Types, TypeOK, Times, Moments, Blank
<1>3. OneWriter'
  BY <1>1 DEF Restart, OneWriter, Editing, NoEdit
<1>4. Removed'
  BY <1>1 DEF Restart, cache, Types, TypeOK, Removed, Running, Editing, HasRow, HasBook,
     Runners, NoEdit
<1>5. Undisturbed' => Undisturbed
  BY DEF Restart, Undisturbed
<1>6. Copied'
  <2>1. UNCHANGED <<now, changed, alive, book, row>>
    BY DEF Restart, provider, cache
  <2>2. \A x \in Runners : Listing(x)' => run'[x] = run[x] /\ Listing(x)
    BY DEF Restart, Listing, Blank
  <2>3. Undisturbed' => \A x \in Runners : Listing(x) /\ run[x].full => Listing(x)'
    BY DEF Restart, Abandons, Listing, Undisturbed
  <2>. QED  BY <1>5, <2>1, <2>2, <2>3, SameListings
<1>. QED  BY <1>1, <1>2, <1>3, <1>4, <1>6

\* An unsynced source and an empty cache satisfy the invariant.
LEMMA InitCInv == Init => CInv
<1> SUFFICES ASSUME Init PROVE CInv
  OBVIOUS
<1> USE ContactAssumption
<1>1. \A a \in Runners : run[a] = Blank /\ edit = NoEdit
  BY DEF Init
<1>2. \A a \in Runners : ~Listing(a) /\ ~Running(a)
  BY <1>1 DEF Listing, Running, Blank
<1>3. Types
  <2>1. run \in [Runners -> RunType] /\ edit \in EditType
    BY BlankIsRun DEF Init
  <2>2. now \in Moments /\ changed \in [Contacts -> Moments] /\ alive \subseteq Contacts
    BY DEF Init, Moments
  <2>3. /\ selected \subseteq Books /\ generation \in Nat /\ enabled \in BOOLEAN
        /\ capability \in {"pending", "syncing", "idle", "error", "unavailable", "disabled"}
        /\ retained \in BOOLEAN /\ overlap \in BOOLEAN /\ abandoned \in BOOLEAN
    BY DEF Init
  <2>4. edits \in 0 .. MaxEdits /\ faults \in 0 .. MaxFaults
    BY DEF Init
  <2>5. book \in [Books -> [gen : Nat, cursor : Moments \cup {NoCursor}]]
    BY DEF Init, NoBook
  <2>6. row \in [Contacts -> [version : Moments, gen : Nat]]
    BY DEF Init, NoRow, Moments
  <2>7. \A a \in Runners : run[a].book \in run[a].todo \cup {"none"} /\ run[a].todo \subseteq Books
    BY <1>1 DEF Blank
  <2>8. /\ edit.pc \in {"off", "generation", "persist", "reconcile"}
        /\ edit.pc = "reconcile" <=> Running("handler")
    BY <1>1, <1>2 DEF NoEdit, Runners
  <2>9. TypeOK
    BY <2>2, <2>3, <2>4, <2>5, <2>6, <2>7, <2>8 DEF TypeOK
  <2>. QED  BY <2>1, <2>9 DEF Types
<1>4. Times
  BY <1>1 DEF Init, Times, Blank, NoBook
<1>5. OneWriter /\ Removed
  BY <1>2 DEF Init, OneWriter, Removed, NoEdit, Runners
<1>6. Copied
  BY <1>2 DEF Init, Copied, FromStoredCursors, PageTrue, Stamped, NoGhosts, Ghosts
<1>. QED  BY <1>3, <1>4, <1>5, <1>6 DEF CInv

\* Every step keeps the invariant.
LEMMA NextCInv == ASSUME CInv, [Next]_vars PROVE CInv'
<1>1. CASE ServerStep
  <2>1. CASE StartSync \/ ReadGeneration \/ Persist
    BY <2>1, StartSyncKeeps, ReadGenerationKeeps, PersistKeeps
  <2>2. ASSUME NEW a \in Runners, SyncStep(a) PROVE CInv'
    <3>1. CASE Plan(a) \/ \E b \in Books : Request(a, b)
      BY <3>1, PlanKeeps, RequestKeeps
    <3>2. CASE \E ups \in SUBSET run[a].upserts, tombs \in SUBSET run[a].tombstones :
                  ApplyPage(a, ups, tombs)
      BY <3>2, ApplyPageKeeps
    <3>3. CASE FinishFullSync(a) \/ FinishBookDiscovery(a) \/ Report(a)
      BY <3>3, FinishFullSyncKeeps, FinishBookDiscoveryKeeps, ReportKeeps
    <3>. QED  BY <2>2, <3>1, <3>2, <3>3 DEF SyncStep
  <2>. QED  BY <1>1, <2>1, <2>2 DEF ServerStep
<1>2. CASE \E c \in Contacts : RemoteWrite(c) \/ RemoteDelete(c)
  BY <1>2, RemoteWriteKeeps, RemoteDeleteKeeps
<1>3. CASE \E a \in Runners : \/ CursorExpires(a)
                              \/ \E s \in {"error", "unavailable"},
                                   p \in BOOLEAN : SyncFails(a, s, p)
  BY <1>3, CursorExpiresKeeps, SyncFailsKeeps
<1>4. CASE \/ TriggerSync \/ Restart \/ EnableContacts \/ PersistFails
           \/ \E books \in SUBSET Books : SelectBooks(books)
           \/ \E keep \in BOOLEAN : DisableContacts(keep)
  BY <1>4, TriggerSyncKeeps, RestartKeeps, EnableContactsKeeps, PersistFailsKeeps,
     SelectBooksKeeps, DisableContactsKeeps
<1>5. CASE \E op \in {"create", "update", "delete"}, c \in Contacts : Edit(op, c)
  BY <1>5, EditKeeps
<1>6. CASE UNCHANGED vars
  <2>1. Types' /\ Times' /\ OneWriter' /\ Removed'
    <3> USE <1>6 DEF CInv, vars
    <3>1. Types'
      BY DEF Types, TypeOK, Running
    <3>2. Times'
      BY DEF Times
    <3>3. OneWriter'
      BY DEF OneWriter, Running, Editing
    <3>4. Removed'
      BY DEF Removed, HasRow, HasBook, Editing, Running
    <3>. QED  BY <3>1, <3>2, <3>3, <3>4
  <2>2. UNCHANGED <<now, changed, alive, book, row, run, overlap, abandoned>>
    BY <1>6 DEF vars
  <2>3. \A a \in Runners : (Listing(a)' <=> Listing(a)) /\ run'[a] = run[a]
    BY <2>2 DEF Listing
  <2>4. Undisturbed' => Undisturbed
    BY <2>2 DEF Undisturbed
  <2>5. Copied'
    BY <2>2, <2>3, <2>4, SameListings DEF CInv
  <2>. QED  BY <2>1, <2>5 DEF CInv
<1>. QED  BY <1>1, <1>2, <1>3, <1>4, <1>5, <1>6 DEF Next

\* The invariant holds throughout: every run, listing, row and cursor keeps what the
\* synchronisation relies on between its steps (sync_source_attempt).
THEOREM ContactInvariance == Spec => []CInv
BY InitCInv, NextCInv, PTL DEF Spec

\* No change of the provider is skipped: a contact it has, changed before the stored
\* cursor, is in the cache at that version, whatever pages failed or were replayed,
\* while requests and syncs do not overlap (sync_source_attempt, apply_change_page).
THEOREM ChangesReachTheCache == Spec => []NoChangeSkipped
<1>1. CInv => NoChangeSkipped
  BY DEF CInv, Copied, Undisturbed, NoChangeSkipped
<1>. QED  BY <1>1, ContactInvariance, PTL

\* Between runs the cache holds no contact the provider deleted before the cursor,
\* unless a full run was cut short or reused a generation (finish_full_sync).
THEOREM DeletionsReachTheCache == Spec => []GhostsNeedAbandonedRun
<1>1. CInv => GhostsNeedAbandonedRun
  BY DEF CInv, Copied, Undisturbed, NoGhosts, GhostsNeedAbandonedRun, Quiet, Listing, Running
<1>. QED  BY <1>1, ContactInvariance, PTL

\* A cache removed when its source was disabled stays empty until it is enabled.
THEOREM RemovedCacheIsNotRefilled == Spec => []RemovedCacheStaysEmpty
<1>1. CInv => RemovedCacheStaysEmpty
  BY DEF CInv, Removed, RemovedCacheStaysEmpty
<1>. QED  BY <1>1, ContactInvariance, PTL

-----------------------------------------------------------------------------
(* Contact tasks: ctRaced says that calls of start_account, or one and a   *)
(* stop, have overlapped; until then one request at a time replaces the    *)
(* task, and the task that runs is the one the handle names.               *)
CtTypes ==
    /\ ctRow \in {"enabled", "disabled", "none"}
    /\ ctTask \in [CtTasks -> {"unborn", "due", "syncing", "waiting", "ended"}]
    /\ ctCall \in [CtCalls -> [pc : {"idle", "spawn", "insert"}, task : CtTasks \cup {CtNone}]]
    /\ ctStop \in {"idle", "disable", "delete"} /\ ctRaced \in BOOLEAN

\* Without an overlap one request at a time is starting or stopping the task, and while
\* it does no handle is set.
CtOneRequest ==
    /\ \A r, q \in CtCalls : CtUnder(r) /\ CtUnder(q) => r = q
    /\ \A r \in CtCalls : CtUnder(r) => ctHandle = CtNone /\ ctStop = "idle"
    /\ ctStop # "idle" => ctHandle = CtNone

\* A live task has a handle, or the call that spawned it is about to insert one.
CtHandled ==
    \A t \in CtTasks : CtLive(t) =>
      t = ctHandle \/ \E r \in CtCalls : ctCall[r].pc = "insert" /\ ctCall[r].task = t

\* No run is under way for a disabled source.
CtIdleWhenDisabled ==
    ctRow = "disabled" =>
      ctState \in {"disabled", "unavailable"} /\ \A t \in CtTasks : ctTask[t] # "syncing"

CtInv == CtTypes /\ (~ctRaced => CtOneRequest /\ CtHandled /\ CtIdleWhenDisabled)

LEMMA CtInitInv == CtInit => CtInv
<1> SUFFICES ASSUME CtInit PROVE CtInv OBVIOUS
<1> USE DEF CtInit
<1>1. CtTypes BY DEF CtTypes, CtIdleCall
<1>2. CtOneRequest BY DEF CtOneRequest, CtUnder, CtIdleCall
<1>3. CtHandled BY DEF CtHandled, CtLive
<1>4. CtIdleWhenDisabled BY DEF CtIdleWhenDisabled
<1> QED BY <1>1, <1>2, <1>3, <1>4 DEF CtInv

\* Every step of a call of start_account, of a stop and of a task keeps it.
LEMMA CtStep == ASSUME CtInv, [CtNext]_ctVars PROVE CtInv'
<1> USE DEF CtInv
<1>t. CtTypes'
  <2> USE CtAssumption DEF CtTypes, CtIdleCall, CtNone
  <2>1. CASE \E r \in CtCalls : CtTrigger(r) \/ CtEnableGranted(r)
    <3> PICK r \in CtCalls : CtTrigger(r) \/ CtEnableGranted(r) BY <2>1
    <3>1. CtBeginStart(r) /\ ctRow' \in {"enabled", "disabled", "none"}
      BY DEF CtTrigger, CtEnableGranted
    <3>2. ctRaced' \in BOOLEAN BY <3>1 DEF CtBeginStart
    <3>3. ctTask' \in [CtTasks -> {"unborn", "due", "syncing", "waiting", "ended"}]
      BY <3>1 DEF CtBeginStart, CtStopAccount, CtAborted
    <3>4. ctCall' \in [CtCalls -> [pc : {"idle", "spawn", "insert"}, task : CtTasks \cup {CtNone}]]
      BY <3>1 DEF CtBeginStart
    <3> QED BY <3>1, <3>2, <3>3, <3>4 DEF CtBeginStart
  <2>2. CASE \E r \in CtCalls : CtSpawn(r)
    BY <2>2 DEF CtSpawn
  <2>3. CASE \E r \in CtCalls : CtInsert(r)
    BY <2>3 DEF CtInsert
  <2>4. CASE \E s \in {"consent_required", "unavailable"} : CtEnableWithoutGrant(s)
    BY <2>4 DEF CtEnableWithoutGrant
  <2>5. CASE \E kind \in {"disable", "delete"} : CtBeginStop(kind)
    BY <2>5 DEF CtBeginStop, CtStopAccount, CtAborted
  <2>6. CASE CtDisableRow \/ CtDeleteRow
    BY <2>6 DEF CtDisableRow, CtDeleteRow
  <2>7. CASE \E t \in CtTasks : CtTaskStep(t)
    BY <2>7 DEF CtTaskStep, CtRun, CtSucceeds, CtWakes, CtFails, CtMove, CtRest
  <2>8. CASE UNCHANGED ctVars BY <2>8 DEF ctVars
  <2> QED BY <2>1, <2>2, <2>3, <2>4, <2>5, <2>6, <2>7, <2>8 DEF CtNext
<1> SUFFICES ASSUME ~ctRaced' PROVE (CtOneRequest /\ CtHandled /\ CtIdleWhenDisabled)'
  BY <1>t
<1>n. CtNone \notin CtTasks BY CtAssumption DEF CtNone, CtTasks
<1> USE DEF CtOneRequest, CtHandled, CtIdleWhenDisabled, CtUnder, CtLive, CtTypes
<1>1. ASSUME NEW r \in CtCalls, CtBeginStart(r), ctRow' = "disabled" => UNCHANGED <<ctRow, ctState>>
      PROVE (CtOneRequest /\ CtHandled /\ CtIdleWhenDisabled)'
  <2> USE <1>1 DEF CtBeginStart, CtStopAccount, CtAborted
  <2>1. ~ctRaced /\ ctStop = "idle" /\ \A q \in CtCalls : ~CtUnder(q) OBVIOUS
  <2>2. \A t \in CtTasks : ~CtLive(t)' /\ ctTask'[t] # "syncing" BY <2>1
  <2>3. \A q \in CtCalls : CtUnder(q)' => q = r BY <2>1
  <2> QED BY <2>1, <2>2, <2>3
<1>2. CASE \E r \in CtCalls : CtTrigger(r) \/ CtEnableGranted(r)
  BY <1>1, <1>2 DEF CtTrigger, CtEnableGranted
<1>3. CASE \E s \in {"consent_required", "unavailable"} : CtEnableWithoutGrant(s)
  <2> PICK s \in {"consent_required", "unavailable"} : CtEnableWithoutGrant(s) BY <1>3
  <2> USE DEF CtEnableWithoutGrant
  <2>1. ~ctRaced /\ \A t \in CtTasks : ~CtLive(t) OBVIOUS
  <2>2. UNCHANGED <<ctTask, ctHandle, ctCall, ctStop>> OBVIOUS
  <2>3. CtIdleWhenDisabled' BY <2>1, <2>2
  <2>4. CtOneRequest' /\ CtHandled' BY <2>1, <2>2
  <2> QED BY <2>3, <2>4
<1>4. CASE \E r \in CtCalls : CtSpawn(r) 
  BY <1>4, <1>n, <1>t DEF CtSpawn
<1>5. CASE \E r \in CtCalls : CtInsert(r) 
  BY <1>5, <1>n, <1>t DEF CtInsert, CtIdleCall
<1>6. CASE \E kind \in {"disable", "delete"} : CtBeginStop(kind)
  <2> PICK kind \in {"disable", "delete"} : CtBeginStop(kind) BY <1>6
  <2> USE DEF CtBeginStop, CtStopAccount, CtAborted
  <2>1. ~ctRaced /\ UNCHANGED <<ctRow, ctState, ctCall>> /\ ctHandle' = CtNone
    OBVIOUS
  <2>2. \A q \in CtCalls : ~CtUnder(q) OBVIOUS
  <2>3. \A t \in CtTasks : ~CtLive(t)' /\ ctTask'[t] # "syncing"
    BY <2>1, <2>2
  <2>4. CtOneRequest' BY <2>1, <2>2
  <2>5. CtHandled' BY <2>3
  <2>6. CtIdleWhenDisabled' BY <2>1, <2>3
  <2> QED BY <2>4, <2>5, <2>6
<1>7. CASE CtDisableRow \/ CtDeleteRow
  BY <1>7, <1>n, <1>t DEF CtDisableRow, CtDeleteRow
<1>8. CASE \E t \in CtTasks : CtTaskStep(t)
  <2> PICK t \in CtTasks : CtTaskStep(t) BY <1>8
  <2>1. UNCHANGED <<ctRow, ctHandle, ctCall, ctStop, ctRaced>>
    BY DEF CtTaskStep, CtRun, CtSucceeds, CtWakes, CtFails, CtRest
  <2>2. PICK pc : ctTask' = [ctTask EXCEPT ![t] = pc]
    BY DEF CtTaskStep, CtRun, CtSucceeds, CtWakes, CtFails, CtMove
  <2>3. CtLive(t) BY DEF CtTaskStep, CtRun, CtSucceeds, CtWakes, CtFails
  <2>4. CtOneRequest' /\ CtHandled' BY <2>1, <2>2, <2>3
  <2>5. CtIdleWhenDisabled'
    BY <2>1, <2>2 DEF CtTaskStep, CtRun, CtSucceeds, CtWakes, CtFails, CtMove, CtEligible
  <2> QED BY <2>4, <2>5
<1>9. CASE UNCHANGED ctVars BY <1>9 DEF ctVars
<1> QED BY <1>2, <1>3, <1>4, <1>5, <1>6, <1>7, <1>8, <1>9 DEF CtNext

\* As long as no start or stop of a source's task overlapped another, one task of the
\* source is live, and once it is disabled no run rewrites its state (start_account,
\* stop_account and run_background_sync_task).
THEOREM TasksAlone == CtSpec => []CtTasksAlone
<1>1. CtInv => CtTasksAlone
  BY CtAssumption DEF CtInv, CtTypes, CtOneRequest, CtHandled, CtIdleWhenDisabled, CtUnder, CtLive,
      CtTasksAlone, CtOneTask, CtDisabledStays, CtTasks, CtNone
<1> QED BY CtInitInv, CtStep, <1>1, PTL DEF CtSpec
===============================================================================
