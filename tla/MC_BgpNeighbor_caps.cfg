\* Two sessions whose OPENs announce different AS number widths.
CONSTANTS
    c1 = c1
    c2 = c2
    n1 = n1
    NoConn = NoConn
    Nets = {n1}
    Conns = {c1, c2}
    MaxPeerMsgs = 0
    MaxKeepalives = 1
    MaxSibMsgs = 1
    PeerMsgs <- MCPeerMsgsNone
    PeerCanClose = TRUE
SPECIFICATION Spec
INVARIANT UpdatesMatchPeerCapability
CHECK_DEADLOCK FALSE
