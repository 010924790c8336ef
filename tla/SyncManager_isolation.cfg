\* Account b's task may hang: the others' requests must not.
SPECIFICATION FairSpec
CONSTANTS
    Accounts = {a, b}
    IdleAccounts = {}
    Stuck = {b}
    Handlers = {h1, h2}
    Moves = {m1}
    Ops = {"update_account", "trigger_sync", "delete_message"}
    MaxTasks = 2
    Capacity = 1
INVARIANTS TypeOK OneTaskPerAccount
PROPERTIES RequestsReturn SyncingEnds
CHECK_DEADLOCK FALSE
