SPECIFICATION FairSpec
CONSTANTS
    p1 = p1
    w1 = w1
    w2 = w2
    a = a
    b = b
    c = c
    Clients = {p1}
    Workers = {w1, w2}
    Tasks = {a, b, c}
    NoTask = NoTask
    NoThread = NoThread
    MaxTasks = 2
    MaxMore = 1
INVARIANTS TaskRunsOnce
PROPERTIES EveryTaskRuns
CHECK_DEADLOCK FALSE
