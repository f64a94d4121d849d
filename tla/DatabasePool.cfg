SPECIFICATION FairSpec
CHECK_DEADLOCK FALSE
CONSTANTS
    a = a
    b = b
    save = save
    trade = trade
    update = update
    login = login
    Task = {save, trade, update, login}
    Key = {a, b}
    Rows <- MCRows
    Transaction = {save, trade}
    Query = {login}
    Direct = {trade, update}
    Worker = {w1, w2}
    WorkerThreads = {{w1}, {w1, w2}}
    Synch = {s1}
    None = None
    HighWater = 2
    MaxFaults = 1
INVARIANTS TypeOK OutcomeTrue
PROPERTIES ImplementsStore OperationsEnd CloseEnds
