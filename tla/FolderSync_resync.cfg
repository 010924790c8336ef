SPECIFICATION Spec
CONSTANTS
    MaxUid = 3
    MaxValidity = 2
    UidChunk = 2
    WriteBatch = 1
    Imap = TRUE
    MaxFaults = 0
INVARIANT CursorCovers
