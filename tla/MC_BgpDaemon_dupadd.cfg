\* two ADD_NEIGHBOR requests for one address both create a neighbor
CONSTANTS
    q1 = q1  q2 = q2  q3 = q3  a1 = a1  a2 = a2  l1 = l1  NoNbr = NoNbr
    Reqs <- MCReqs2
    Addrs <- MCAddrs
    LocalAddrs = {}
    ConfigAddrs <- MCNoConfig
    ReqKinds <- MCKindsAdd
    MaxAccepts = 1
SPECIFICATION Spec
INVARIANTS NoOrphanNeighbor
CHECK_DEADLOCK FALSE
