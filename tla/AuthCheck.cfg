SPECIFICATION FairSpec
CONSTANTS
    n1 = n1
    n2 = n2
    alice = alice
    bob = bob
    NoConfig = NoConfig
    NoCheck = NoCheck
    NoOne = NoOne
    Nodes = {n1, n2}
    Credentials = {alice, bob}
    Policies <- MCPolicies
    Configs <- MCConfigs
    MaxChecks = 2
    MaxRestarts = 1
INVARIANTS AcceptedByPolicy
PROPERTIES EveryCheckEnds
CHECK_DEADLOCK FALSE
