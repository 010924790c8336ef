\* One component at a time; the Gmail label only grows and shrinks, and no pass is interrupted.
SPECIFICATION MailboxSpec
CONSTANTS
    Components = {"bodies", "counters", "drafts", "gmail", "phishing", "tasks", "threads"}
    CtCalls = {1, 2} CtMaxTasks = 3
    DrSaves = {d1, d2} DrSends = {x1} DrMaxVersion = 3
    Folders = {inbox, spam} Messages = {m1, m2} Inbox = inbox MaxEdits = 4 MaxFailures = 1
    MaxMsg = 4 PageSize = 1 MaxPages = 2 MaxLabelings = 0 MaxExpired = 1 MaxFaults = 0
    MbMessages = {m1} MbUids = {i1} MbOpens = {o1, o2}
    PhHosts = {"bank", "m.bank", "bank.de", "bamk", "evil"} PhNoHost = "none" PhIdn = {"bamk"}
    PhOrgOf <- Organisations PhUnder <- Under PhNear <- Near PhBrands <- Brands PhInputs <- Inputs
    ThMessages = {"a", "b", "c", "d", "l", "r"} ThFolders = {"in", "sent"} ThNone = none
    ThReferences <- References ThInReplyTo <- InReplyTo ThListOf <- Lists ThCopies <- Copies
    ThMaxPurges = 1
INVARIANTS
    CompleteMeansKnown CtTasksAlone DriftNeedsRace LiveCountExact  PhVerdictFits 
PROPERTIES CtTasksEnd DiscoversAll  UnreadHeals
CHECK_DEADLOCK FALSE
