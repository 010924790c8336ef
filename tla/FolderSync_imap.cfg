SPECIFICATION FairSpec
CONSTANTS
    MaxUid = 4
    MaxValidity = 1
    UidChunk = 2
    WriteBatch = 1
    Imap = TRUE
    MaxFaults = 2
INVARIANT CursorCovers
PROPERTIES SyncNeverUnhides CatchesUp
