\* The order of what we write on one connection, against every message the
\* peer can send, keepalive ticks and a sibling's path that becomes an
\* UPDATE; and the teardown of a session the peer closes.
CONSTANTS
    c1 = c1
    c2 = c2
    n1 = n1
    NoConn = NoConn
    Conns = {c1}
    Nets = {n1}
    MaxPeerMsgs = 1
    MaxKeepalives = 2
    MaxSibMsgs = 1
    PeerMsgs <- MCPeerMsgsAll
    PeerCanClose = TRUE
SPECIFICATION Spec
PROPERTIES
    Teardown
INVARIANTS
    ProtocolOrder
\* A neighbor with no further connection to accept waits in Active forever.
CHECK_DEADLOCK FALSE
