\* The peer sends a NOTIFICATION whose body is shorter than two bytes.
CONSTANTS
    c1 = c1
    c2 = c2
    n1 = n1
    NoConn = NoConn
    Nets = {n1}
    Conns = {c1}
    MaxPeerMsgs = 1
    MaxKeepalives = 1
    MaxSibMsgs = 0
    PeerMsgs <- MCPeerMsgsShort
    PeerCanClose = FALSE
SPECIFICATION Spec
INVARIANT NoPanic
CHECK_DEADLOCK FALSE
