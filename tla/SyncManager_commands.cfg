\* A move and IDLE pokes compete for one channel while the account is restarted and deleted.
SPECIFICATION FairSpec
CONSTANTS
    Accounts = {a}
    IdleAccounts = {a}
    Stuck = {}
    Handlers = {h1, h2}
    Moves = {m1}
    Ops = {"update_account", "delete_account", "flush_flags", "delete_message", "move_message"}
    MaxTasks = 1
    Capacity = 2
PROPERTIES QueuedMoveAttempted
CHECK_DEADLOCK FALSE
