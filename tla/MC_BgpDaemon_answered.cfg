\* every request that does not route or delete is answered, while a second
\* connection from a configured neighbor arrives
CONSTANTS
    q1 = q1  q2 = q2  q3 = q3  a1 = a1  a2 = a2  l1 = l1  NoNbr = NoNbr
    Reqs <- MCReqs2
    Addrs <- MCAddrs
    LocalAddrs = {l1}
    ConfigAddrs <- MCConfigLocal
    ReqKinds <- MCKindsAnswered
    MaxAccepts = 2
SPECIFICATION Spec
PROPERTIES RequestAnswered
CHECK_DEADLOCK FALSE
