\* A path from a sibling arrives before the session is up: the peer never learns it.
CONSTANTS
    c1 = c1
    c2 = c2
    n1 = n1
    NoConn = NoConn
    Nets = {n1}
    Conns = {c1}
    MaxPeerMsgs = 0
    MaxKeepalives = 1
    MaxSibMsgs = 1
    PeerMsgs <- MCPeerMsgsNone
    PeerCanClose = FALSE
SPECIFICATION Spec
INVARIANT PeerLearnsAdjRibOut
CHECK_DEADLOCK FALSE
