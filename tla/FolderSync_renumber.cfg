\* A folder of an API provider that is renumbered once.
SPECIFICATION Spec
CONSTANTS
    MaxUid = 3
    MaxValidity = 2
    UidChunk = 2
    WriteBatch = 1
    Imap = FALSE
    MaxFaults = 1
INVARIANT NotifiedAtMostOnce
 
