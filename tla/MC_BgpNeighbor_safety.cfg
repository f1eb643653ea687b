\* Invariants across reconnections: two connections, a peer that announces
\* and withdraws a prefix, sends a malformed message and may close.
CONSTANTS
    c1 = c1
    c2 = c2
    n1 = n1
    NoConn = NoConn
    Conns = {c1, c2}
    Nets = {n1}
    MaxPeerMsgs = 2
    MaxKeepalives = 1
    MaxSibMsgs = 0
    PeerMsgs <- MCPeerMsgsSession
    PeerCanClose = TRUE
SPECIFICATION Spec
SYMMETRY ConnSymmetry
INVARIANTS
    TypeOK
    AdjRibInTracksPeer
PROPERTIES
    FsmRefinement
\* A neighbor with no further connection to accept waits in Active forever.
CHECK_DEADLOCK FALSE
