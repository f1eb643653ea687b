\* handleRest reads neighborMap while Serve writes it
CONSTANTS
    q1 = q1  q2 = q2  q3 = q3  a1 = a1  a2 = a2  l1 = l1  NoNbr = NoNbr
    Reqs <- MCReqs1
    Addrs <- MCAddrs
    LocalAddrs = {}
    ConfigAddrs <- MCConfig
    ReqKinds <- MCKindsList
    MaxAccepts = 1
SPECIFICATION Spec
INVARIANTS NoDataRace
CHECK_DEADLOCK FALSE
