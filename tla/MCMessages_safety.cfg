SPECIFICATION MessagesSpec
CONSTANTS
    Components = {"cycle", "flags", "list", "moves"}
    MaxUid = 1 LastUid = 1 FlagChunk = 1 Flag = {"seen", "flagged"} Req = {r1, r2}
    MaxAttempts = 2 MaxChanges = 2 MaxRemote = 1 MaxFaults = 1
    MlMessages = {n1, n2, n3} MlLimit = 2 MlMaxFuzzy = 1 MlMaxDate = 2
    MlViews = {"inbox", "starred", "search"} MlFolderOf <- Home MlWordOf <- Word Second = n2
    MvMaxUid = 2 MvMaxOps = 3 MvMaxQueue = 2
    ScFolders = {"in", "arch"} ScTypeOf <- FolderTypes ScKinds = {"gmail_imap", "outlook_api"}
    ScMaxMail = 2 ScMaxEvents = 2
SYMMETRY HandlerSymmetry
INVARIANTS PendingWins UnracedChangeNotLost MlListShown MvMessageKept ScProgressFits
PROPERTIES  OutboxKeepsIntent
CHECK_DEADLOCK FALSE
