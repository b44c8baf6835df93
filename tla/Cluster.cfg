SPECIFICATION Spec
CONSTANTS
    n1 = n1
    n2 = n2
    n3 = n3
    n4 = n4
    a = a
    b = b
    Nodes = {n1, n2, n3, n4}
    Configured = {n1, n2, n3}
    Messages = {a, b}
    QoS0 = {a}
    Limits <- MCLimits
SYMMETRY Symmetry
PROPERTIES ForwardingIsMulticast
INVARIANTS OneClientPerPeer PeersMeet PeersComeFromReply
CHECK_DEADLOCK FALSE
