----------------------------- MODULE BgpNeighbor -----------------------------
(***************************************************************************)
(* One BGP neighbor of the gopher-net daemon (src/daemon/bgp_daemon.go and *)
(* src/daemon/bgp_neighbor.go) together with its environment: the daemon's *)
(* Serve goroutine (connection hand-off and Stop), the remote peer behind  *)
(* each TCP connection, and the sibling neighbors that exchange paths.     *)
(*                                                                         *)
(* Goroutines of the neighbor and their model counterparts:                *)
(*   FSMHandler.loop  -- hpc: runs the handler of fsm.state once and posts *)
(*                       FSM_MSG_STATE_CHANGE to the incoming channel;     *)
(*   recvMessage / recvMessageloop -- recvPc, recvItem;                    *)
(*   sendMessageloop  -- sendPc;                                           *)
(*   Neighbor.loop    -- lpc: select over incoming, neighborMsgCh, Dying.  *)
(* A TCP connection is a record of two message histories with read         *)
(* indices: what the peer sent (in, rd) and what we wrote (out, prd).      *)
(* Messages are abstracted to their type and the one field a property      *)
(* tells apart (prefix/withdraw of an UPDATE, four-octet AS form).         *)
(***************************************************************************)
EXTENDS Naturals, Sequences, SequencesExt, FiniteSets

CONSTANTS
    Conns,        \* TCP connections that the peer may open, over the whole run
    NoConn,       \* the nil *net.TCPConn
    Nets,         \* NLRI prefixes
    MaxPeerMsgs,  \* bound on the messages the peer sends outside the handshake, over the run
    MaxKeepalives,\* bound on the KEEPALIVEs we write on one connection (keepalive ticks)
    MaxSibMsgs,   \* bound on messages the sibling neighbors send to this neighbor
    PeerMsgs,     \* messages the peer may send outside the handshake
    PeerCanClose  \* whether the peer may close a connection

ErrorChCap == 2   \* make(chan bool, 2) in NewFSMHandler

States == {"Idle", "Connect", "Active", "OpenSent", "OpenConfirm", "Established"}

(* Messages the peer sends, after decoding. "ERR" is one whose parse or    *)
(* ValidateBGPMessage yields a *MessageError; "SHORT" one whose decoder    *)
(* returns a plain error (fmt.Errorf in BGPNotification, BGPRouteRefresh,  *)
(* BGPOpen DecodeFromBytes).                                               *)
PeerOpen(b) == [type |-> "OPEN", as4 |-> b]
PeerUpdate(p, w) == [type |-> "UPDATE", prefix |-> p, withdraw |-> w]
\* an UPDATE that announces p with AS_PATH attribute value v (bytes), for the
\* AS_PATH decoding of module BgpAsPath; PeerUpdate has a well-formed one
PeerAsPathUpdate(p, v) == [type |-> "UPDATE", prefix |-> p, withdraw |-> FALSE, aspath |-> v]
InMsg == {PeerOpen(b) : b \in BOOLEAN} \cup {PeerUpdate(p, w) : p \in Nets, w \in BOOLEAN}
           \cup {[type |-> t] : t \in {"KEEPALIVE", "NOTIFICATION", "ROUTE_REFRESH", "ERR", "SHORT"}}

(* Messages we write. An UPDATE records whether its AS_PATH is in 4-byte   *)
(* form (UpdatePathAttrs2ByteAs not applied).                              *)
OpenMsg == [type |-> "OPEN"]
KeepaliveMsg == [type |-> "KEEPALIVE"]
NotificationMsg == [type |-> "NOTIFICATION"]
OutUpdate(p, w, b) == [type |-> "UPDATE", prefix |-> p, withdraw |-> w, as4 |-> b]
OutMsg == {OpenMsg, KeepaliveMsg, NotificationMsg} \cup {OutUpdate(p, w, b) : p \in Nets, w, b \in BOOLEAN}

(* Items of the fsmMsg channels (incoming, h.msgCh).                       *)
StateItem(s) == [kind |-> "STATE", state |-> s]
Item == {StateItem(s) : s \in States} \cup {[kind |-> "BGP", msg |-> m] : m \in InMsg}
          \cup {[kind |-> k] : k \in {"MSGERR", "PLAINERR"}}
NoItem == [kind |-> "NONE"]

(* neighborMsg between siblings: a path for one prefix, or PEER_DOWN.      *)
SibPath(p, w) == [type |-> "PATH", prefix |-> p, withdraw |-> w]
PeerDown == [type |-> "PEER_DOWN"]
SibMsg == {SibPath(p, w) : p \in Nets, w \in BOOLEAN} \cup {PeerDown}

VARIABLES
    state,         \* fsm.state, and neighborConfig...State (assigned together)
    priorState,    \* fsm.priorState
    passiveConn,   \* fsm.passiveConn, also h.conn in every handler
    hpc,           \* FSMHandler.loop: "start", "active", "opensent", "openconfirm", "established", "exited"
    recvPc,        \* receive goroutine: "none", "reading", "offer", "done"
    recvItem,      \* the fsmMsg it offers on the unbuffered h.msgCh
    sendPc,        \* sendMessageloop: "none", "running", "done"
    errorCh,       \* number of values buffered in h.errorCh
    hdying,        \* the handler tomb was killed (h.t.Kill in established)
    lpc,           \* Neighbor.loop: "select", "wait" (h.Wait), "dying", "done"
    pendingState,  \* nextState of the STATE_CHANGE being applied
    incoming,      \* the incoming channel of this loop iteration
    outgoing,      \* peer.outgoing of this loop iteration
    adjRibIn,      \* prefixes in adjRib In for the neighbor's route family
    adjRibOut,     \* prefixes in adjRib Out
    locRib,        \* prefixes in the neighbor's TableManager, learned from siblings
    capAs4,        \* capMap holds BGP_CAP_FOUR_OCTET_AS_NUMBER
    nbrIn,         \* neighborMsgCh
    nbrOut,        \* neighborMsgs sent to the siblings, in order
    sibSent,       \* number of messages the siblings have sent
    dpc,           \* daemon Serve goroutine: "serve", "passing" (PassConn), "stopping" (Stop), "stopped"
    handoff,       \* the connection Serve is passing on acceptedConnCh
    stopReq,       \* the neighbor tomb was killed (Neighbor.Stop)
    acceptClosed,  \* acceptedConnCh was closed
    conn,          \* conn[c]: the TCP connection c
    peerSent,      \* number of messages the peer has sent outside the handshake
    panicked       \* a goroutine panicked (log.Panic or at run time): the process is gone

hVars == <<hpc, recvPc, recvItem, sendPc, errorCh, hdying>>
ribVars == <<adjRibIn, adjRibOut, locRib, capAs4>>
sibVars == <<nbrIn, nbrOut, sibSent>>
daemonVars == <<dpc, handoff, stopReq, acceptClosed>>
loopVars == <<state, priorState, lpc, pendingState, outgoing, ribVars, sibVars>>
vars == <<state, priorState, passiveConn, hVars, lpc, pendingState, incoming, outgoing,
          ribVars, sibVars, daemonVars, conn, peerSent, panicked>>

-----------------------------------------------------------------------------
(* Connections.                                                            *)

Writable(c) == c # NoConn /\ ~conn[c].lclosed /\ ~conn[c].pclosed

\* conn.Write(b): appended when the socket is open on both ends, else an error.
WriteTo(cs, c, m) == IF Writable(c) THEN [cs EXCEPT ![c].out = Append(@, m)] ELSE cs

KeepalivesWritten(c) == Len(SelectSeq(conn[c].out, LAMBDA m : m = KeepaliveMsg))

\* conn.Close(), a no-op on the nil connection.
CloseConn(cs, c) == IF c = NoConn THEN cs ELSE [cs EXCEPT ![c].lclosed = TRUE]

\* readAll succeeds when data is pending on an open socket; it fails on a
\* closed socket or at EOF; otherwise it blocks.
Readable(c) == c # NoConn /\ ~conn[c].lclosed /\ conn[c].rd < Len(conn[c].in)
ReadFails(c) == c = NoConn \/ conn[c].lclosed \/ (conn[c].pclosed /\ conn[c].rd = Len(conn[c].in))

AsPath == INSTANCE BgpAsPath

\* ParseBGPBody on an UPDATE with an explicit AS_PATH value: "ok", "error"
\* or "panic"; the other messages stand for their decoded form
AsPathOf(m) == IF "aspath" \in DOMAIN m THEN AsPath!AsPathDecode(m.aspath) ELSE "ok"

\* recvMessageWithError: the fsmMsg produced for one message read.
Decode(m) == CASE m.type = "ERR"         -> [kind |-> "MSGERR"]
               [] m.type = "SHORT"       -> [kind |-> "PLAINERR"]
               [] AsPathOf(m) = "error"  -> [kind |-> "MSGERR"]
               [] "aspath" \in DOMAIN m  -> [kind |-> "BGP", msg |-> PeerUpdate(m.prefix, m.withdraw)]
               [] OTHER                  -> [kind |-> "BGP", msg |-> m]

\* Routes announced and not withdrawn by a sequence of UPDATEs.
ApplyUpdate(S, m) == IF m.withdraw THEN S \ {m.prefix} ELSE S \cup {m.prefix}
IsUpdate(m) == m.type = "UPDATE" /\ AsPathOf(m) = "ok"
Routes(s) == FoldLeft(ApplyUpdate, {}, SelectSeq(s, IsUpdate))

-----------------------------------------------------------------------------
(* FSMHandler.loop: the handler goroutine created for one state. Its exit  *)
(* posts FSM_MSG_STATE_CHANGE on incoming after what inc already holds.    *)

Exit(inc, s) == hpc' = "exited" /\ incoming' = Append(inc, StateItem(s))

\* mutant of Idle: the priorState test dropped, always Active
IdleToActiveAlways ==
    /\ hpc = "start" /\ state = "Idle"
    /\ Exit(incoming, "Active")
    /\ UNCHANGED <<recvPc, recvItem, sendPc, errorCh, hdying, conn, passiveConn, daemonVars>>

\* idle(): stop the keepalive ticker; back to OpenSent right after
\* Established, to Active otherwise.
Idle ==
    /\ hpc = "start" /\ state = "Idle"
    /\ Exit(incoming, IF priorState = "Established" THEN "OpenSent" ELSE "Active")
    /\ UNCHANGED <<recvPc, recvItem, sendPc, errorCh, hdying, conn, passiveConn, daemonVars>>

\* active(): wait on passiveConnCh (the Dying case is unreachable: only
\* established() kills the handler tomb).
ActiveStart ==
    /\ hpc = "start" /\ state = "Active"
    /\ hpc' = "active"
    /\ UNCHANGED <<recvPc, recvItem, sendPc, errorCh, hdying, incoming, conn, passiveConn, daemonVars>>

\* receive the connection that Serve passes with PassConn
ActiveAccept ==
    /\ hpc = "active" /\ dpc = "passing"
    /\ passiveConn' = handoff
    /\ handoff' = NoConn /\ dpc' = "serve"
    /\ Exit(incoming, "OpenSent")
    /\ UNCHANGED <<recvPc, recvItem, sendPc, errorCh, hdying, conn, stopReq, acceptClosed>>

\* acceptedConnCh was closed by the dying loop: receive nil
ActiveChannelClosed ==
    /\ hpc = "active" /\ acceptClosed
    /\ passiveConn' = NoConn
    /\ Exit(incoming, "OpenSent")
    /\ UNCHANGED <<recvPc, recvItem, sendPc, errorCh, hdying, conn, daemonVars>>

\* opensent(): write OPEN (error ignored), start recvMessage.
OpenSentStart ==
    /\ hpc = "start" /\ state = "OpenSent"
    /\ conn' = WriteTo(conn, passiveConn, OpenMsg)
    /\ recvPc' = "reading" /\ hpc' = "opensent"
    /\ UNCHANGED <<recvItem, sendPc, errorCh, hdying, incoming, passiveConn, daemonVars>>

\* a second connection accepted meanwhile is closed
OpenSentCloseAccepted ==
    /\ hpc = "opensent" /\ dpc = "passing"
    /\ conn' = CloseConn(conn, handoff)
    /\ handoff' = NoConn /\ dpc' = "serve"
    /\ UNCHANGED <<hpc, recvPc, recvItem, sendPc, errorCh, hdying, incoming, passiveConn, stopReq, acceptClosed>>

\* Faulty variant of OpenSentRecvOpen that goes straight to Established,
\* skipping OpenConfirm: ProtocolOrder detects an UPDATE written before
\* the peer's KEEPALIVE was read.
OpenSentRecvOpenSkipConfirm ==
    /\ hpc = "opensent" /\ recvPc = "offer"
    /\ recvItem.kind = "BGP" /\ recvItem.msg.type = "OPEN"
    /\ conn' = WriteTo(conn, passiveConn, KeepaliveMsg)
    /\ Exit(Append(incoming, recvItem), "Established")
    /\ recvPc' = "done" /\ recvItem' = NoItem
    /\ UNCHANGED <<sendPc, errorCh, hdying, passiveConn, daemonVars>>

\* the peer's OPEN is posted to incoming and answered with KEEPALIVE
OpenSentRecvOpen ==
    /\ hpc = "opensent" /\ recvPc = "offer"
    /\ recvItem.kind = "BGP" /\ recvItem.msg.type = "OPEN"
    /\ conn' = WriteTo(conn, passiveConn, KeepaliveMsg)
    /\ Exit(Append(incoming, recvItem), "OpenConfirm")
    /\ recvPc' = "done" /\ recvItem' = NoItem
    /\ UNCHANGED <<sendPc, errorCh, hdying, passiveConn, daemonVars>>

\* any other message: close and go Idle
OpenSentRecvOther ==
    /\ hpc = "opensent" /\ recvPc = "offer"
    /\ recvItem.kind = "BGP" /\ recvItem.msg.type # "OPEN"
    /\ conn' = CloseConn(conn, passiveConn)
    /\ Exit(incoming, "Idle")
    /\ recvPc' = "done" /\ recvItem' = NoItem
    /\ UNCHANGED <<sendPc, errorCh, hdying, passiveConn, daemonVars>>

\* a *MessageError: NOTIFICATION, close, Idle (the same code in openconfirm())
RecvMessageError(h) ==
    /\ hpc = h /\ recvPc = "offer" /\ recvItem.kind = "MSGERR"
    /\ conn' = CloseConn(WriteTo(conn, passiveConn, NotificationMsg), passiveConn)
    /\ Exit(incoming, "Idle")
    /\ recvPc' = "done" /\ recvItem' = NoItem
    /\ UNCHANGED <<sendPc, errorCh, hdying, passiveConn, daemonVars>>

\* any other error value reaches the default case: log.Panic
RecvUnknown(h) ==
    /\ hpc = h /\ recvPc = "offer" /\ recvItem.kind = "PLAINERR"
    /\ panicked' = TRUE
    /\ UNCHANGED <<state, priorState, passiveConn, hVars, lpc, pendingState, incoming, outgoing,
                   ribVars, sibVars, daemonVars, conn>>

\* a value on errorCh: close, Idle (the same code in openconfirm())
RecvConnError(h) ==
    /\ hpc = h /\ errorCh > 0
    /\ errorCh' = errorCh - 1
    /\ conn' = CloseConn(conn, passiveConn)
    /\ Exit(incoming, "Idle")
    /\ UNCHANGED <<recvPc, recvItem, sendPc, hdying, passiveConn, daemonVars>>

\* Faulty variant of OpenConfirmStart that does not start recvMessage: it
\* shows that SessionComesUp detects a handshake that stalls.
OpenConfirmStartNoRecv ==
    /\ hpc = "start" /\ state = "OpenConfirm"
    /\ hpc' = "openconfirm"
    /\ UNCHANGED <<recvPc, recvItem, sendPc, errorCh, hdying, incoming, conn, passiveConn, daemonVars>>

\* openconfirm(): start the keepalive ticker and recvMessage.
OpenConfirmStart ==
    /\ hpc = "start" /\ state = "OpenConfirm"
    /\ recvPc' = "reading" /\ hpc' = "openconfirm"
    /\ UNCHANGED <<recvItem, sendPc, errorCh, hdying, incoming, conn, passiveConn, daemonVars>>

\* a keepalive tick: write KEEPALIVE (error ignored; a write that fails
\* changes nothing, so only writes that succeed are steps)
OpenConfirmTick ==
    /\ hpc = "openconfirm" /\ Writable(passiveConn)
    /\ KeepalivesWritten(passiveConn) < MaxKeepalives
    /\ conn' = WriteTo(conn, passiveConn, KeepaliveMsg)
    /\ UNCHANGED <<hpc, recvPc, recvItem, sendPc, errorCh, hdying, incoming, passiveConn, daemonVars>>

\* a BGP message: KEEPALIVE leads to Established, any other to Idle,
\* without NOTIFICATION and without closing the connection
OpenConfirmRecvMessage ==
    /\ hpc = "openconfirm" /\ recvPc = "offer" /\ recvItem.kind = "BGP"
    /\ Exit(incoming, IF recvItem.msg.type = "KEEPALIVE" THEN "Established" ELSE "Idle")
    /\ recvPc' = "done" /\ recvItem' = NoItem
    /\ UNCHANGED <<sendPc, errorCh, hdying, conn, passiveConn, daemonVars>>

\* established(): start sendMessageloop and recvMessageloop on incoming.
EstablishedStart ==
    /\ hpc = "start" /\ state = "Established"
    /\ sendPc' = "running" /\ recvPc' = "reading" /\ hpc' = "established"
    /\ UNCHANGED <<recvItem, errorCh, hdying, incoming, conn, passiveConn, daemonVars>>

\* a value on errorCh: close, kill the handler tomb, Idle
EstablishedError ==
    /\ hpc = "established" /\ errorCh > 0
    /\ errorCh' = errorCh - 1
    /\ conn' = CloseConn(conn, passiveConn)
    /\ hdying' = TRUE
    /\ Exit(incoming, "Idle")
    /\ UNCHANGED <<recvPc, recvItem, sendPc, passiveConn, daemonVars>>

-----------------------------------------------------------------------------
(* recvMessageWithError, run once by recvMessage (OpenSent, OpenConfirm)   *)
(* and repeatedly by recvMessageloop (Established). A read error puts a    *)
(* value on errorCh; the buffered send is modelled as always taking place, *)
(* and TypeOK states that it never finds the buffer full.                  *)

ReadOne == [conn EXCEPT ![passiveConn].rd = @ + 1]
NextIn == conn[passiveConn].in[conn[passiveConn].rd + 1]

\* recvMessage: offer the decoded message on the unbuffered h.msgCh
RecvOffer ==
    /\ recvPc = "reading" /\ state # "Established" /\ Readable(passiveConn)
    /\ AsPathOf(NextIn) # "panic"
    /\ conn' = ReadOne
    /\ recvItem' = Decode(NextIn) /\ recvPc' = "offer"
    /\ UNCHANGED <<hpc, sendPc, errorCh, hdying, incoming, passiveConn, daemonVars>>

\* recvMessageloop: post on incoming; an error value ends the loop
RecvLoopMessage ==
    /\ recvPc = "reading" /\ state = "Established" /\ Readable(passiveConn)
    /\ AsPathOf(NextIn) # "panic"
    /\ conn' = ReadOne
    /\ incoming' = Append(incoming, Decode(NextIn))
    /\ recvPc' = IF Decode(NextIn).kind = "BGP" THEN "reading" ELSE "done"
    /\ UNCHANGED <<hpc, recvItem, sendPc, errorCh, hdying, passiveConn, daemonVars>>

\* recvMessageWithError in any state: ParseBGPBody panics while decoding the
\* AS_PATH; nothing recovers, so the runtime ends the process (the message
\* is left unread: no goroutine is left to count it)
RecvParsePanic ==
    /\ recvPc = "reading" /\ Readable(passiveConn)
    /\ AsPathOf(NextIn) = "panic"
    /\ panicked' = TRUE
    /\ UNCHANGED <<state, priorState, passiveConn, hVars, lpc, pendingState, incoming, outgoing,
                   ribVars, sibVars, daemonVars, conn>>

\* Faulty variant of RecvReadError that keeps reading after the error
\* (no return): it shows that TypeOK detects a third send on h.errorCh.
RecvReadErrorNoReturn ==
    /\ recvPc = "reading" /\ ReadFails(passiveConn)
    /\ errorCh' = errorCh + 1
    /\ UNCHANGED <<hpc, recvPc, recvItem, sendPc, hdying, incoming, conn, passiveConn, daemonVars>>

\* Faulty variant of RecvReadError that returns without signalling errorCh:
\* it shows that Teardown detects a handler left waiting.
RecvReadErrorNoSignal ==
    /\ recvPc = "reading" /\ ReadFails(passiveConn)
    /\ recvPc' = "done"
    /\ UNCHANGED <<hpc, recvItem, sendPc, errorCh, hdying, incoming, conn, passiveConn, daemonVars>>

\* readAll fails: h.errorCh <- true, return
RecvReadError ==
    /\ recvPc = "reading" /\ ReadFails(passiveConn)
    /\ errorCh' = errorCh + 1 /\ recvPc' = "done"
    /\ UNCHANGED <<hpc, recvItem, sendPc, hdying, incoming, conn, passiveConn, daemonVars>>

-----------------------------------------------------------------------------
(* sendMessageloop, on the connection of the Established handler.         *)

\* a message from outgoing is written; a failed write or a NOTIFICATION
\* puts a value on errorCh and ends the loop
SendOutgoing ==
    /\ sendPc = "running" /\ outgoing # <<>>
    /\ outgoing' = Tail(outgoing)
    /\ conn' = WriteTo(conn, passiveConn, Head(outgoing))
    /\ IF Writable(passiveConn) /\ Head(outgoing).type # "NOTIFICATION"
         THEN UNCHANGED <<errorCh, sendPc>>
         ELSE errorCh' = errorCh + 1 /\ sendPc' = "done"
    /\ UNCHANGED <<hpc, recvPc, recvItem, hdying, incoming, passiveConn, daemonVars>>
    /\ UNCHANGED <<state, priorState, lpc, pendingState, ribVars, sibVars, panicked>>

\* a keepalive tick
SendKeepalive ==
    /\ sendPc = "running"
    /\ \/ Writable(passiveConn) /\ KeepalivesWritten(passiveConn) < MaxKeepalives
          /\ conn' = WriteTo(conn, passiveConn, KeepaliveMsg)
          /\ UNCHANGED <<errorCh, sendPc>>
       \/ ~Writable(passiveConn)
          /\ errorCh' = errorCh + 1 /\ sendPc' = "done"
          /\ UNCHANGED conn
    /\ UNCHANGED <<hpc, recvPc, recvItem, hdying, incoming, passiveConn, daemonVars>>

\* h.t.Dying()
SendDying ==
    /\ sendPc = "running" /\ hdying
    /\ sendPc' = "done"
    /\ UNCHANGED <<hpc, recvPc, recvItem, errorCh, hdying, incoming, conn, passiveConn, daemonVars>>

-----------------------------------------------------------------------------
(* Neighbor.loop: one select per step.                                     *)

\* a path list: one path per prefix, announced or withdrawn
Path(p, w) == [prefix |-> p, withdraw |-> w]

\* sendMessages(CreateUpdateMsgFromPaths(paths)) into the current outgoing:
\* only in Established; 2-byte AS_PATH unless capMap has four-octet AS
SendMessages(paths) ==
    outgoing' = IF state = "Established"
                  THEN outgoing \o SetToSeq({OutUpdate(x.prefix, x.withdraw, capAs4) : x \in paths})
                  ELSE outgoing

\* adjRib.UpdateOut
UpdateOut(S, paths) == (S \ {x.prefix : x \in {y \in paths : y.withdraw}})
                         \cup {x.prefix : x \in {y \in paths : ~y.withdraw}}

\* sendUpdateMsgFromPaths: Adj-RIB-Out is updated in every state
SendUpdateMsgFromPaths(paths) ==
    adjRibOut' = UpdateOut(adjRibOut, paths) /\ SendMessages(paths)

\* handleBGPmessage
HandleBGPmessage(m) ==
    \/ /\ m.type = "OPEN"
       /\ capAs4' = (capAs4 \/ m.as4)    \* capMap[c.Code()] = c: entries are only added
       /\ UNCHANGED <<outgoing, adjRibIn, adjRibOut, nbrOut>>
    \/ /\ m.type = "ROUTE_REFRESH"
       /\ SendMessages({Path(p, FALSE) : p \in adjRibOut})
       /\ UNCHANGED <<capAs4, adjRibIn, adjRibOut, nbrOut>>
    \/ /\ m.type = "UPDATE"
       /\ adjRibIn' = ApplyUpdate(adjRibIn, m)                    \* adjRib.UpdateIn
       /\ nbrOut' = Append(nbrOut, SibPath(m.prefix, m.withdraw))   \* PEER_MSG_PATH
       /\ UNCHANGED <<capAs4, outgoing, adjRibOut>>
    \/ /\ m.type \in {"KEEPALIVE", "NOTIFICATION"}
       /\ UNCHANGED <<capAs4, outgoing, adjRibIn, adjRibOut, nbrOut>>

\* rib.ProcessPaths / rib.DeletePathsforPeer: the best-path changes, with
\* one path per prefix in the table (it comes from the siblings)
BestChanges(m) ==
    IF m.type = "PEER_DOWN" THEN {Path(p, TRUE) : p \in locRib}
    ELSE IF m.withdraw THEN {Path(p, TRUE) : p \in {m.prefix} \cap locRib}
    ELSE {Path(m.prefix, FALSE)}

LocRibAfter(m) ==
    IF m.type = "PEER_DOWN" THEN {} ELSE ApplyUpdate(locRib, m)

\* FSM_MSG_STATE_CHANGE: wait for the handler's goroutines
LoopStateChange ==
    /\ lpc = "select" /\ incoming # <<>> /\ Head(incoming).kind = "STATE"
    /\ pendingState' = Head(incoming).state /\ incoming' = Tail(incoming)
    /\ lpc' = "wait"
    /\ UNCHANGED <<state, priorState, outgoing, ribVars, sibVars, hVars, acceptClosed>>

HandlerJoined == hpc = "exited" /\ recvPc \in {"none", "done"} /\ sendPc \in {"none", "done"}

\* Faulty variant of LoopApply without adjRib.DropAllIn: it shows that
\* AdjRibInTracksPeer detects routes surviving their session.
LoopApplyKeepAdjRibIn ==
    /\ lpc = "wait" /\ HandlerJoined
    /\ state' = pendingState /\ priorState' = state
    /\ nbrOut' = IF state = "Established" THEN Append(nbrOut, PeerDown) ELSE nbrOut
    /\ incoming' = <<>> /\ outgoing' = <<>>
    /\ hpc' = "start" /\ recvPc' = "none" /\ recvItem' = NoItem /\ sendPc' = "none"
    /\ errorCh' = 0 /\ hdying' = FALSE
    /\ lpc' = "select"
    /\ UNCHANGED <<pendingState, adjRibIn, adjRibOut, locRib, capAs4, nbrIn, sibSent, acceptClosed>>

\* h.Wait() returned: StateChange; the Adj-RIB-Out burst on entering
\* Established goes to the outgoing channel of the ending iteration, which
\* no goroutine reads; leaving Established drops Adj-RIB-In and sends
\* PEER_DOWN; then the next iteration makes new channels and a new handler
LoopApply ==
    /\ lpc = "wait" /\ HandlerJoined
    /\ state' = pendingState /\ priorState' = state
    /\ adjRibIn' = IF state = "Established" THEN {} ELSE adjRibIn
    /\ nbrOut' = IF state = "Established" THEN Append(nbrOut, PeerDown) ELSE nbrOut
    /\ incoming' = <<>> /\ outgoing' = <<>>
    /\ hpc' = "start" /\ recvPc' = "none" /\ recvItem' = NoItem /\ sendPc' = "none"
    /\ errorCh' = 0 /\ hdying' = FALSE
    /\ lpc' = "select"
    /\ UNCHANGED <<pendingState, adjRibOut, locRib, capAs4, nbrIn, sibSent, acceptClosed>>

\* FSM_MSG_BGP_MESSAGE carrying a *MessageError: NOTIFICATION to outgoing
LoopRecvMessageError ==
    /\ lpc = "select" /\ incoming # <<>> /\ Head(incoming).kind = "MSGERR"
    /\ incoming' = Tail(incoming)
    /\ outgoing' = Append(outgoing, NotificationMsg)
    /\ UNCHANGED <<state, priorState, lpc, pendingState, ribVars, sibVars, hVars, acceptClosed>>

\* FSM_MSG_BGP_MESSAGE carrying a *BGPMessage
LoopRecvBGPMessage ==
    /\ lpc = "select" /\ incoming # <<>> /\ Head(incoming).kind = "BGP"
    /\ incoming' = Tail(incoming)
    /\ HandleBGPmessage(Head(incoming).msg)
    /\ UNCHANGED <<state, priorState, lpc, pendingState, locRib, nbrIn, sibSent, hVars, acceptClosed>>

\* FSM_MSG_BGP_MESSAGE carrying another error value: log.Panic
LoopRecvUnknown ==
    /\ lpc = "select" /\ incoming # <<>> /\ Head(incoming).kind = "PLAINERR"
    /\ panicked' = TRUE
    /\ UNCHANGED <<loopVars, incoming, passiveConn, hVars, conn, daemonVars>>

\* neighborMsgCh: handleNeighborMsg
LoopNeighborMsg ==
    /\ lpc = "select" /\ nbrIn # <<>>
    /\ nbrIn' = Tail(nbrIn)
    /\ locRib' = LocRibAfter(Head(nbrIn))
    /\ SendUpdateMsgFromPaths(BestChanges(Head(nbrIn)))
    /\ UNCHANGED <<state, priorState, lpc, pendingState, incoming, adjRibIn, capAs4, nbrOut, sibSent,
                   hVars, acceptClosed>>

\* peer.t.Dying(): close acceptedConnCh, queue a CEASE NOTIFICATION, h.Wait()
LoopDying ==
    /\ lpc = "select" /\ stopReq
    /\ acceptClosed' = TRUE
    /\ outgoing' = Append(outgoing, NotificationMsg)
    /\ lpc' = "dying"
    /\ UNCHANGED <<state, priorState, pendingState, incoming, ribVars, sibVars, hVars>>

LoopReturn ==
    /\ lpc = "dying" /\ HandlerJoined
    /\ lpc' = "done"
    /\ UNCHANGED <<state, priorState, pendingState, incoming, outgoing, ribVars, sibVars, hVars, acceptClosed>>

-----------------------------------------------------------------------------
(* Environment: the daemon's Serve goroutine, the siblings, the peer.      *)

\* acceptCh delivers connection c from this neighbor's address (dialled by
\* InitDialNeighbor or accepted by listenAndAccept): PassConn blocks Serve
\* on the unbuffered acceptedConnCh until the FSM takes it
DaemonPassConn(c) ==
    /\ dpc = "serve" /\ ~conn[c].used
    /\ conn' = [conn EXCEPT ![c].used = TRUE]
    /\ handoff' = c /\ dpc' = "passing"
    /\ UNCHANGED <<stopReq, acceptClosed>>

\* deletedNeighborCh: Neighbor.Stop kills the neighbor tomb and waits
DaemonStop ==
    /\ dpc = "serve"
    /\ stopReq' = TRUE /\ dpc' = "stopping"
    /\ UNCHANGED <<handoff, acceptClosed, conn>>

DaemonStopReturns ==
    /\ dpc = "stopping" /\ lpc = "done"
    /\ dpc' = "stopped"
    /\ UNCHANGED <<handoff, stopReq, acceptClosed, conn>>

\* a sibling forwards a path it received (its handleBGPmessage) or goes
\* down (its loop leaving Established)
SiblingSend ==
    /\ sibSent < MaxSibMsgs
    /\ \E m \in SibMsg : nbrIn' = Append(nbrIn, m)
    /\ sibSent' = sibSent + 1
    /\ UNCHANGED <<nbrOut, state, priorState, passiveConn, hVars, lpc, pendingState, incoming,
                   outgoing, ribVars, daemonVars, conn, panicked>>

\* the peer reads everything we have written so far
PeerRead(c) ==
    /\ conn[c].prd < Len(conn[c].out)
    /\ conn' = [conn EXCEPT ![c].prd = Len(conn[c].out)]
    /\ UNCHANGED peerSent

PeerOpenSent(c) == \E i \in DOMAIN conn[c].in : conn[c].in[i].type = "OPEN"

\* a BGP speaker answers our OPEN with its OPEN and a KEEPALIVE
PeerHandshake(c) ==
    /\ conn[c].used /\ ~conn[c].lclosed /\ ~conn[c].pclosed
    /\ \E i \in 1..conn[c].prd : conn[c].out[i].type = "OPEN"
    /\ ~PeerOpenSent(c)
    /\ \E b \in BOOLEAN : conn' = [conn EXCEPT ![c].in = @ \o <<PeerOpen(b), KeepaliveMsg>>]
    /\ UNCHANGED peerSent

\* any other message of PeerMsgs
PeerSend(c) ==
    /\ conn[c].used /\ ~conn[c].lclosed /\ ~conn[c].pclosed
    /\ peerSent < MaxPeerMsgs
    /\ \E m \in PeerMsgs : conn' = [conn EXCEPT ![c].in = Append(@, m)]
    /\ peerSent' = peerSent + 1

PeerClose(c) ==
    /\ PeerCanClose /\ conn[c].used /\ ~conn[c].pclosed
    /\ conn' = [conn EXCEPT ![c].pclosed = TRUE]
    /\ UNCHANGED peerSent

-----------------------------------------------------------------------------

Init ==
    /\ state = "Idle" /\ priorState = "None" /\ passiveConn = NoConn
    /\ hpc = "start" /\ recvPc = "none" /\ recvItem = NoItem /\ sendPc = "none"
    /\ errorCh = 0 /\ hdying = FALSE
    /\ lpc = "select" /\ pendingState = "None"
    /\ incoming = <<>> /\ outgoing = <<>>
    /\ adjRibIn = {} /\ adjRibOut = {} /\ locRib = {} /\ capAs4 = FALSE
    /\ nbrIn = <<>> /\ nbrOut = <<>> /\ sibSent = 0
    /\ dpc = "serve" /\ handoff = NoConn /\ stopReq = FALSE /\ acceptClosed = FALSE
    /\ conn = [c \in Conns |-> [used |-> FALSE, lclosed |-> FALSE, pclosed |-> FALSE,
                                in |-> <<>>, rd |-> 0, out |-> <<>>, prd |-> 0]]
    /\ peerSent = 0 /\ panicked = FALSE

\* a step of a goroutine of the running process; handler steps touch
\* neither the loop's state nor the peer's budget
HStep(A) == ~panicked /\ A /\ UNCHANGED <<loopVars, peerSent, panicked>>
LStep(A) == ~panicked /\ A /\ UNCHANGED <<passiveConn, conn, dpc, handoff, stopReq, peerSent, panicked>>

EnvFrame == <<state, priorState, passiveConn, hVars, lpc, pendingState, incoming, outgoing, ribVars>>

DStep(A) == ~panicked /\ A /\ UNCHANGED <<EnvFrame, sibVars, peerSent, panicked>>

\* the peer is another machine: it goes on after this process has died
\* actions that state their whole frame but the peer's budget
GStep(A) == ~panicked /\ A /\ UNCHANGED peerSent

PStep(A) == A /\ UNCHANGED <<EnvFrame, sibVars, daemonVars, panicked>>

Next ==
    \/ HStep(Idle) \/ HStep(ActiveStart) \/ HStep(ActiveAccept) \/ HStep(ActiveChannelClosed)
    \/ HStep(OpenSentStart) \/ HStep(OpenSentCloseAccepted) \/ HStep(OpenSentRecvOpen)
    \/ HStep(OpenSentRecvOther) \/ HStep(OpenConfirmStart) \/ HStep(OpenConfirmTick)
    \/ HStep(OpenConfirmRecvMessage) \/ HStep(EstablishedStart) \/ HStep(EstablishedError)
    \/ \E h \in {"opensent", "openconfirm"} :
          HStep(RecvMessageError(h)) \/ HStep(RecvConnError(h)) \/ GStep(RecvUnknown(h))
    \/ HStep(RecvOffer) \/ HStep(RecvLoopMessage) \/ HStep(RecvReadError)
    \/ GStep(RecvParsePanic)
    \/ HStep(SendKeepalive) \/ HStep(SendDying)
    \/ GStep(SendOutgoing)
    \/ LStep(LoopStateChange) \/ LStep(LoopApply) \/ LStep(LoopRecvMessageError)
    \/ LStep(LoopRecvBGPMessage) \/ LStep(LoopNeighborMsg) \/ LStep(LoopDying) \/ LStep(LoopReturn)
    \/ GStep(LoopRecvUnknown)
    \/ \E c \in Conns : DStep(DaemonPassConn(c))
    \/ DStep(DaemonStop) \/ DStep(DaemonStopReturns)
    \/ GStep(SiblingSend)
    \/ \E c \in Conns : PStep(PeerRead(c)) \/ PStep(PeerHandshake(c)) \/ PStep(PeerSend(c)) \/ PStep(PeerClose(c))

(* The Go scheduler runs every runnable goroutine, and select picks among  *)
(* ready cases at random: each step of the neighbor's goroutines that      *)
(* stays enabled is taken (weak fairness); the keepalive ticker fires      *)
(* periodically. The peer and the siblings are not assumed to act.         *)
LocalFairness ==
    /\ WF_vars(HStep(Idle)) /\ WF_vars(HStep(ActiveStart)) /\ WF_vars(HStep(ActiveAccept))
    /\ WF_vars(HStep(ActiveChannelClosed)) /\ WF_vars(HStep(OpenSentStart))
    /\ WF_vars(HStep(OpenSentCloseAccepted)) /\ WF_vars(HStep(OpenSentRecvOpen))
    /\ WF_vars(HStep(OpenSentRecvOther)) /\ WF_vars(HStep(OpenConfirmStart))
    /\ WF_vars(HStep(OpenConfirmRecvMessage)) /\ WF_vars(HStep(EstablishedStart))
    /\ WF_vars(HStep(EstablishedError))
    /\ \A h \in {"opensent", "openconfirm"} :
          WF_vars(HStep(RecvMessageError(h))) /\ WF_vars(HStep(RecvConnError(h)))
    /\ WF_vars(HStep(RecvOffer)) /\ WF_vars(HStep(RecvLoopMessage)) /\ WF_vars(HStep(RecvReadError))
    /\ WF_vars(HStep(SendDying))
    /\ WF_vars(GStep(SendOutgoing))
    /\ WF_vars(LStep(LoopStateChange)) /\ WF_vars(LStep(LoopApply)) /\ WF_vars(LStep(LoopRecvMessageError))
    /\ WF_vars(LStep(LoopRecvBGPMessage)) /\ WF_vars(LStep(LoopNeighborMsg)) /\ WF_vars(LStep(LoopDying))
    /\ WF_vars(LStep(LoopReturn))
    /\ WF_vars(HStep(OpenConfirmTick)) /\ WF_vars(HStep(SendKeepalive))
    /\ WF_vars(DStep(DaemonStopReturns))
    /\ \A h \in {"opensent", "openconfirm"} : WF_vars(GStep(RecvUnknown(h)))
    /\ WF_vars(GStep(LoopRecvUnknown))
    /\ WF_vars(GStep(RecvParsePanic))

Spec == Init /\ [][Next]_vars /\ LocalFairness

(* A cooperating peer also reads what we write and answers our OPEN.       *)
CoopSpec ==
    Spec /\ \A c \in Conns : WF_vars(PStep(PeerRead(c))) /\ WF_vars(PStep(PeerHandshake(c)))

-----------------------------------------------------------------------------
(* Properties.                                                             *)

ConnRec == [used : BOOLEAN, lclosed : BOOLEAN, pclosed : BOOLEAN,
            in : Seq(InMsg \cup PeerMsgs), rd : Nat, out : Seq(OutMsg), prd : Nat]

(* Every variable has its type, and a send on h.errorCh never finds the    *)
(* two-slot buffer full: each handler's goroutines put at most two values  *)
(* there, so none of them blocks and h.Wait() in Neighbor.loop returns.    *)
TypeOK ==
    /\ state \in States /\ priorState \in States \cup {"None"}
    /\ passiveConn \in Conns \cup {NoConn} /\ handoff \in Conns \cup {NoConn}
    /\ hpc \in {"start", "active", "opensent", "openconfirm", "established", "exited"}
    /\ recvPc \in {"none", "reading", "offer", "done"} /\ recvItem \in Item \cup {NoItem}
    /\ sendPc \in {"none", "running", "done"}
    /\ errorCh \in 0..ErrorChCap /\ hdying \in BOOLEAN
    /\ lpc \in {"select", "wait", "dying", "done"} /\ pendingState \in States \cup {"None"}
    /\ incoming \in Seq(Item) /\ outgoing \in Seq(OutMsg)
    /\ adjRibIn \subseteq Nets /\ adjRibOut \subseteq Nets /\ locRib \subseteq Nets
    /\ capAs4 \in BOOLEAN
    /\ nbrIn \in Seq(SibMsg) /\ nbrOut \in Seq(SibMsg) /\ sibSent \in 0..MaxSibMsgs
    /\ dpc \in {"serve", "passing", "stopping", "stopped"}
    /\ stopReq \in BOOLEAN /\ acceptClosed \in BOOLEAN /\ panicked \in BOOLEAN
    /\ peerSent \in 0..MaxPeerMsgs
    /\ conn \in [Conns -> ConnRec]

\* the first two messages read on c were the peer's OPEN and KEEPALIVE
HandshakeRead(c) == conn[c].rd >= 2 /\ conn[c].in[1].type = "OPEN" /\ conn[c].in[2] = KeepaliveMsg

(* What we write on each connection follows the BGP session order: OPEN   *)
(* first; an UPDATE only once the peer's OPEN and KEEPALIVE have been read *)
(* on that same connection (opensent, openconfirm, then the Established    *)
(* send loop); nothing after a NOTIFICATION. Breaking it takes the         *)
(* handler, the loop that fills outgoing and the send loop together.       *)
ProtocolOrder ==
    \A c \in Conns :
        LET w == conn[c].out IN
        /\ w # <<>> => w[1] = OpenMsg
        /\ \A i \in DOMAIN w : w[i].type = "UPDATE" => HandshakeRead(c)
        /\ \A i \in DOMAIN w : w[i].type = "NOTIFICATION" => i = Len(w)

\* the messages read from c whose fsmMsg Neighbor.loop has handled
IsMessageItem(it) == it.kind # "STATE"
Processed(c) == SubSeq(conn[c].in, 1, conn[c].rd - Len(SelectSeq(incoming, IsMessageItem)))

(* Adj-RIB-In is exactly what the peer announced and did not withdraw in   *)
(* the UPDATEs of the current session that Neighbor.loop has handled, and  *)
(* is empty outside Established: routes of an earlier session never        *)
(* survive (DropAllIn when leaving Established) and none are applied from  *)
(* a stale incoming channel.                                               *)
AdjRibInTracksPeer ==
    IF state = "Established"
      THEN passiveConn # NoConn /\ adjRibIn = Routes(Processed(passiveConn))
      ELSE adjRibIn = {}

(* Refinement mapping onto the abstract FSM of BgpFsm: the abstract state *)
(* is fsm.state as Neighbor.loop applies it after h.Wait(), and the        *)
(* session's connection is fsm.passiveConn outside Active (in Active the   *)
(* handler may already hold the next connection, which becomes the        *)
(* session's when the loop applies OpenSent).                              *)
SessionConn == IF state = "Active" THEN NoConn ELSE passiveConn

Fsm == INSTANCE BgpFsm WITH fsmState <- state, prior <- priorState, sessionConn <- SessionConn

(* The neighbor implements the FSM of spec section 4.3: every state the   *)
(* loop applies is the one the handler of the previous state may choose    *)
(* (Idle to OpenSent exactly when it fell from Established), and the      *)
(* session's connection changes only when the loop applies OpenSent after  *)
(* Active, whatever the order in which the handler, its receive loop, the  *)
(* loop and Serve's PassConn run.                                          *)
FsmRefinement == Fsm!Spec

(* A session whose connection the peer closes is torn down: the handler   *)
(* and its send and receive loops end, h.Wait() returns, and the FSM is    *)
(* back in Active (through Idle, OpenSent on the dead connection, Idle),   *)
(* unless the neighbor was stopped or a goroutine called log.Panic.        *)
Teardown ==
    \A c \in Conns :
        (state = "Established" /\ passiveConn = c /\ conn[c].pclosed) ~> (state = "Active" \/ lpc = "done" \/ panicked)

(* A connection passed to the FSM in Active by a peer that answers the    *)
(* handshake leads to Established (or the neighbor is stopped).            *)
SessionComesUp ==
    (hpc = "active" /\ dpc = "passing") ~> (state = "Established" \/ lpc = "done")

(* Spec section 4.3: on entering Established the neighbor publishes its   *)
(* Adj-RIB-Out to the peer. Once the session is quiet, the peer has        *)
(* learned exactly Adj-RIB-Out.                                            *)
Quiescent ==
    /\ state = "Established" /\ hpc = "established" /\ lpc = "select"
    /\ outgoing = <<>> /\ nbrIn = <<>> /\ Writable(passiveConn)
    /\ conn[passiveConn].prd = Len(conn[passiveConn].out)

PeerLearnsAdjRibOut ==
    Quiescent => Routes(SubSeq(conn[passiveConn].out, 1, conn[passiveConn].prd)) = adjRibOut

(* sendMessages narrows AS_PATHs to 2 bytes for a peer without the        *)
(* four-octet AS capability: every UPDATE written on a connection uses the *)
(* AS_PATH form that the OPEN received on that connection announced.       *)
UpdatesMatchPeerCapability ==
    \A c \in Conns : \A i \in DOMAIN conn[c].out :
        conn[c].out[i].type = "UPDATE" => HandshakeRead(c) /\ conn[c].out[i].as4 = conn[c].in[1].as4

(* A connection that no goroutine will use again is closed: every         *)
(* connection that is neither the FSM's passiveConn of a running neighbor  *)
(* nor being handed over.                                                  *)
AbandonedConnsClosed ==
    \A c \in Conns :
        (conn[c].used /\ c # handoff /\ (c # passiveConn \/ (lpc = "done" /\ HandlerJoined)))
            => conn[c].lclosed

(* No message from the peer makes a goroutine panic: neither log.Panic in  *)
(* the handlers and the loop, nor a runtime panic in ParseBGPBody.         *)
NoPanic == ~panicked

(* Serve's calls into the neighbor return, so that Serve goes back to      *)
(* serving the other neighbors, REST requests and configuration changes:   *)
(* Neighbor.Stop on deletedNeighborCh (spec section 5: a stop request is    *)
(* observed at the next suspension point), and PassConn of a connection    *)
(* accepted on acceptCh.                                                   *)
ServeCallsReturn ==
    /\ (dpc = "stopping") ~> (dpc = "stopped")
    /\ (dpc = "passing") ~> (dpc # "passing")

====
