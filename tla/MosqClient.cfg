SPECIFICATION FairSpec
CONSTANTS
    DelayBase = 2
    DelayMax = 35
    MaxConnect = 3
    MaxPublish = 1
INVARIANTS EachThreadInOrder
PROPERTIES SubscriptionIsRestored StopHeardWhileOffline
CHECK_DEADLOCK FALSE
