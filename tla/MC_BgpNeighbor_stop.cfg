\* The neighbor is deleted while the peer stays silent.
CONSTANTS
    c1 = c1
    c2 = c2
    n1 = n1
    NoConn = NoConn
    Nets = {n1}
    Conns = {c1}
    MaxPeerMsgs = 0
    MaxKeepalives = 1
    MaxSibMsgs = 0
    PeerMsgs <- MCPeerMsgsNone
    PeerCanClose = FALSE
SPECIFICATION Spec
PROPERTY ServeCallsReturn
CHECK_DEADLOCK FALSE
