SPECIFICATION AccountsSpec
CONSTANTS
    Components = {"calendar", "contacts", "credentials", "dav", "gmail", "outlook", "sessions"}
    AuTabs = {t1, t2} AuMaxTokens = 3 AuMaxNow = 2 AuDay = 2 AuTtl = 1
    CaUids = {u1, u2} CaSeries = {u2} CaInvited = u1 CaSyncs = {s1} CaMaxTag = 2 CaMaxRows = 3
    CeEdits = {e1, e2} CeMaxVersion = 2
    CrCalls = {c1, c2} CrMaxToken = 2
    DvMaxUid = 1 DvCards = {k1} DvSyncs = {v1} DvMaxTag = 3 DvMaxRows = 3
    MaxMsg = 3 PageSize = 1 MaxPages = 2 MaxLabelings = 1 MaxExpired = 1 MaxFaults = 1
    OlMaxDate = 3 OlPageSize = 1 OlMaxPages = 2 OlMaxFaults = 1
INVARIANTS  CrCredentialsKept CeContactKept
PROPERTIES AuSessionsEnd  LabelHasIdMap OlFolderKept
CHECK_DEADLOCK FALSE
