\* Two contacts of one address book and an empty book.
SPECIFICATION FairSpec
CONSTANTS
    Contacts = {"a1", "a2"}
    Books = {"a", "b"}
    BookOf <- AllInOneBook
    MaxChanges = 2
    MaxEdits = 1
    MaxFaults = 1
INVARIANTS NoChangeSkipped GhostsNeedAbandonedRun RemovedCacheStaysEmpty
PROPERTY CatchesUp
CHECK_DEADLOCK FALSE
