SPECIFICATION Spec
CHECK_DEADLOCK FALSE
CONSTANTS
    a = a
    b = b
    save = save
    trade = trade
    update = update
    login = login
    Task = {save, trade}
    Key = {a, b}
    Rows <- MCRows
    Transaction = {save, trade}
    Query = {}
    Direct = {trade}
    Worker = {w1}
    WorkerThreads = {{w1}}
    Synch = {s1}
    None = None
    HighWater = 1
    MaxFaults = 0
INVARIANT DeadlockRetried
