\* Liveness of the handshake with a peer that answers it, while a sibling
\* neighbor sends a path.
CONSTANTS
    c1 = c1
    c2 = c2
    n1 = n1
    NoConn = NoConn
    Conns = {c1, c2}
    Nets = {n1}
    MaxPeerMsgs = 0
    MaxKeepalives = 1
    MaxSibMsgs = 1
    PeerMsgs <- MCPeerMsgsNone
    PeerCanClose = FALSE
SPECIFICATION CoopSpec
PROPERTIES
    SessionComesUp
CHECK_DEADLOCK FALSE
