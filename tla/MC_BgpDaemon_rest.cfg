\* safety of Serve, handleRest and handleServerMsg under every request kind,
\* a local address in the configuration, and a connection handed over
CONSTANTS
    q1 = q1  q2 = q2  q3 = q3  a1 = a1  a2 = a2  l1 = l1  NoNbr = NoNbr
    Reqs <- MCReqs3
    Addrs <- MCAddrs
    LocalAddrs = {l1}
    ConfigAddrs <- MCConfigLocal
    ReqKinds <- MCKindsAll
    MaxAccepts = 1
SPECIFICATION Spec
INVARIANTS SiblingsConsistent
SYMMETRY ReqSymmetry
VIEW NoRaceHistoryView
CHECK_DEADLOCK FALSE
