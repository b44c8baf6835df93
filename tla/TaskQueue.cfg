SPECIFICATION FairSpec
CONSTANTS
    p1 = p1
    w1 = w1
    w2 = w2
    a = a
    b = b
    Producers = {p1, w1}
    Consumers = {w1, w2}
    Values = {a, b}
    NoTask = NoTask
    NoThread = NoThread
    MaxPush = 4
INVARIANTS NoLostWakeup FifoDelivery
PROPERTIES Linearizable EveryItemTaken
