SPECIFICATION Spec
CONSTANTS
    w1 = w1
    w2 = w2
    Workers = {w1, w2}
    Lifetime = 3
    Margin = 1
    Start = 4
    MaxTime = 8
    MaxFetch = 3
    MaxRestart = 1
SYMMETRY Symmetry
INVARIANTS NotExpired
PROPERTIES FreshOrEmpty FoundStaysFound
CHECK_DEADLOCK FALSE
