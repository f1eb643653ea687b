------------------------------ MODULE BgpFsm ------------------------------
(***************************************************************************)
(* What the neighbor FSM promises, one step per state change: the state   *)
(* handlers of src/daemon/bgp_daemon.go (idle, active, opensent,           *)
(* openconfirm, established) each decide the next state, and               *)
(* FSM.StateChange records the state left behind in priorState.           *)
(*                                                                         *)
(* sessionConn is the TCP connection the session runs on: none while the   *)
(* FSM waits in Active, set only when Active hands a connection to        *)
(* OpenSent, and kept when Idle goes straight back to OpenSent after       *)
(* Established.                                                            *)
(***************************************************************************)
CONSTANTS Conns, NoConn

VARIABLES fsmState, prior, sessionConn

fsmVars == <<fsmState, prior, sessionConn>>

\* FSM.StateChange: priorState = state; state = nextState
StateChange(s) == fsmState' = s /\ prior' = fsmState

Init ==
    /\ fsmState = "Idle" /\ prior = "None" /\ sessionConn = NoConn

\* idle(): no Established just before, so wait for a connection in Active
IdleToActive ==
    /\ fsmState = "Idle" /\ prior # "Established"
    /\ StateChange("Active") /\ sessionConn' = NoConn

\* idle(): right after Established, straight to OpenSent on the old connection
IdleToOpenSent ==
    /\ fsmState = "Idle" /\ prior = "Established"
    /\ StateChange("OpenSent") /\ UNCHANGED sessionConn

\* active(): fsm.passiveConn = conn from passiveConnCh, then OpenSent
Accept(c) ==
    /\ fsmState = "Active"
    /\ StateChange("OpenSent") /\ sessionConn' = c

\* opensent(): the peer's OPEN moves the session to OpenConfirm
OpenReceived ==
    /\ fsmState = "OpenSent"
    /\ StateChange("OpenConfirm") /\ UNCHANGED sessionConn

\* openconfirm(): the peer's KEEPALIVE moves the session to Established
KeepaliveReceived ==
    /\ fsmState = "OpenConfirm"
    /\ StateChange("Established") /\ UNCHANGED sessionConn

\* opensent, openconfirm, established: any error or unexpected message
SessionDown ==
    /\ fsmState \in {"OpenSent", "OpenConfirm", "Established"}
    /\ StateChange("Idle") /\ UNCHANGED sessionConn

Next ==
    \/ IdleToActive
    \/ IdleToOpenSent
    \/ \E c \in Conns : Accept(c)
    \/ OpenReceived
    \/ KeepaliveReceived
    \/ SessionDown

Spec == Init /\ [][Next]_fsmVars

====
