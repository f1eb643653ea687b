------------------------------ MODULE BgpDaemon ------------------------------
(***************************************************************************)
(* The daemon around the neighbors: the Serve goroutine that owns          *)
(* neighborMap (src/daemon/bgp_init.go), the goroutine that handleRest     *)
(* runs for each REST request (src/daemon/bgp_msg_router.go), the HTTP     *)
(* handlers that send the requests and wait on their ResponseCh            *)
(* (src/api), main adding the configured neighbors (src/main.go), and the  *)
(* part of each neighbor's loop that serves its daemonMsgCh               *)
(* (handleServerMsg in src/daemon/bgp_neighbor.go).                        *)
(*                                                                         *)
(* A neighbor object is an instance <<address, generation>>: every add     *)
(* creates a new one. Its BGP session is abstracted to the state of its   *)
(* FSM (module BgpNeighbor models the session itself). Request             *)
(* kinds whose handling has the same control are one kind: LIST stands    *)
(* for NEIGHBORS, CONF_NEIGHBORS, ROUTES, LOCAL_RIB, RIB_IN and RIB_OUT.   *)
(***************************************************************************)
EXTENDS Naturals, Sequences, FiniteSets

CONSTANTS
    Reqs,         \* HTTP requests to the REST server, one handler goroutine each
    Addrs,        \* neighbor addresses
    LocalAddrs,   \* addresses bound to the local machine, outside Addrs: only
                  \* the add paths tell them apart from an unknown address
    ConfigAddrs,  \* the neighbor list of the configuration file, in order
    ReqKinds,     \* the request kinds the clients send
    MaxAccepts,   \* connections that arrive on acceptCh over the run
    NoNbr         \* no neighbor: a missing neighborMap entry

RestReqChCap == 1      \* make(chan *api.RestRequest, 1) in NewBgpDaemon
DaemonMsgChCap == 8    \* make(chan *daemonMsg, 8) in Serve

\* the request kinds of src/api/rest_server.go that handleRest serves
ApiKinds == {"NEIGHBOR", "LIST", "ADJ_RIB_LOCAL", "CONF_GLOBAL", "ADD_ROUTE", "DEL_ROUTE",
             "ADD_NEIGHBOR", "DEL_NEIGHBOR"}
PostKinds == {"ADD_ROUTE", "DEL_ROUTE", "ADD_NEIGHBOR", "DEL_NEIGHBOR"}
RouteKinds == {"ADD_ROUTE", "DEL_ROUTE"}
AddrKinds == {"NEIGHBOR", "ADJ_RIB_LOCAL", "ADD_NEIGHBOR", "DEL_NEIGHBOR"}

\* NewRestRequest / NodeRequest / RouteRequest: the address of the neighbor
\* it is about, and whether a route's prefix and next hop pass the checks
RestRequest(k, a, v) == [kind |-> k, addr |-> a, valid |-> v]

\* every neighbor object is created by a configured entry or a request
MaxGen == Len(ConfigAddrs) + Cardinality(Reqs)
Inst == Addrs \X (1 .. MaxGen)
AddrOf(n) == n[1]

\* SRV_MSG_PEER_ADDED carries the new neighbor's daemonMsgDataNeighbor (its
\* address and neighborMsgCh), SRV_MSG_PEER_DELETED its address only
PeerAdded(n) == [type |-> "PEER_ADDED", nbr |-> n]
PeerDeleted(a) == [type |-> "PEER_DELETED", addr |-> a]
ApiMsg(q) == [type |-> "API", req |-> q]
DaemonMsg == {PeerAdded(n) : n \in Inst} \cup {PeerDeleted(a) : a \in Addrs} \cup {ApiMsg(q) : q \in Reqs}

VARIABLES
    cpc,          \* HTTP handler of q: "idle", "wait" (on ResponseCh), "done", "failed"
    req,          \* the RestRequest of q
    restReqCh,    \* daemon.RestReqCh
    hpc,          \* handleRest goroutine of q: "none", "start", "addSend", "addReply",
                  \*   "delSend", "delReply", "route", "routeReply", "done"
    todo,         \* neighbors the ADD/DEL_ROUTE range over neighborMap has still to visit
    dirty,        \* Serve wrote neighborMap after q's goroutine last synchronised with it
    raced,        \* a handleRest goroutine read memory racing with a write of another goroutine
    spc,          \* Serve: "init" (waiting for the global config), "select",
                  \*   "stopping" (in Neighbor.Stop), "passing" (in Neighbor.PassConn)
    callee,       \* the neighbor whose Stop or PassConn Serve is waiting in
    mainIdx,      \* main: 0 before SetGlobalType, then the next configured entry
    neighborMap,  \* neighborMap[a]: the neighbor object of address a, or NoNbr
    gen,          \* number of neighbor objects created for each address
    life,         \* neighbor loop: "none" (not created), "running", "dying", "stopped"
    siblings,     \* the neighbors in the neighbor's siblings map
    daemonMsgCh,  \* the neighbor's daemonMsgCh
    fsmState,     \* the neighbor's fsm.state: Active, OpenSent, OpenConfirm, Established
    restUpdates,  \* <<n, q>>: handleRest of q put an UPDATE on n's outgoing channel
    accepts,      \* connections received on acceptCh so far
    nbrWritten    \* neighbors whose loop has written fsm.state, capMap, adjRib, outgoing

restVars == <<cpc, req, restReqCh, hpc, todo>>
nbrVars == <<life, siblings, daemonMsgCh, fsmState, nbrWritten>>
vars == <<restVars, dirty, raced, spc, callee, mainIdx, neighborMap, gen, nbrVars, restUpdates, accepts>>

MapAddrs == {a \in Addrs : neighborMap[a] # NoNbr}
MapInsts == {neighborMap[a] : a \in MapAddrs}

\* checkBgpPeerAddr: the address is not one of the local machine's
CheckBgpPeerAddr(a) == a \notin LocalAddrs

\* checkIfPeerExists reports "does not exist"
CheckIfPeerExists(a) == neighborMap[a] = NoNbr

\* restReq.ResponseCh <- result: the unbuffered send completes only while
\* the HTTP handler waits in <-req.ResponseCh, which it does once
Respond(q) == cpc[q] = "wait" /\ cpc' = [cpc EXCEPT ![q] = "done"]

\* a read of neighborMap by q's goroutine; it races with every write that
\* Serve made since it last synchronised with q
ReadMap(q) == raced' = (raced \/ dirty[q])

\* a read by q's goroutine of the state of the neighbors N (Neighbor.MarshalJSON:
\* capMap, BgpNeighborCommonState, adjRib counts; fsm.state): a loop never
\* sends to Serve or handleRest, so nothing orders the read after what the loop
\* wrote (the one edge, a send of handleRest on a full daemonMsgCh, is ignored)
ReadNeighbors(q, N) == raced' = (raced \/ dirty[q] \/ N \cap nbrWritten # {})

\* a write of neighborMap by Serve
WriteMap == dirty' = [q \in Reqs |-> TRUE]

\* sendServerMsgToAll to the neighbors of map M (blocks on a full channel)
CanSendAll(M) == \A n \in M : Len(daemonMsgCh[n]) < DaemonMsgChCap
SendServerMsgToAll(M, m) ==
    daemonMsgCh' = [n \in Inst |-> IF n \in M THEN Append(daemonMsgCh[n], m) ELSE daemonMsgCh[n]]

-----------------------------------------------------------------------------
(* Serve                                                                   *)

\* mutant: the map entry is made before the siblings list is taken and
\* PEER_ADDED is sent, so the new neighbor counts itself as a sibling
AddNeighborMapFirst(a) ==
    LET n == <<a, gen[a] + 1>>
        M == (MapInsts \ {neighborMap[a]}) \cup {n}
    IN
    /\ CanSendAll(MapInsts)
    /\ gen' = [gen EXCEPT ![a] = @ + 1]
    /\ life' = [life EXCEPT ![n] = "running"]
    /\ siblings' = [siblings EXCEPT ![n] = M]
    /\ SendServerMsgToAll(M, PeerAdded(n))
    /\ neighborMap' = [neighborMap EXCEPT ![a] = n]
    /\ WriteMap
    /\ UNCHANGED <<fsmState, nbrWritten>>

\* addedNeighborCh: NewNeighbor with the current map as siblings,
\* SRV_MSG_PEER_ADDED to the neighbors already in the map, then the map
\* entry (which overwrites one of the same address)
AddNeighbor(a) ==
    LET n == <<a, gen[a] + 1>> IN
    /\ CanSendAll(MapInsts)
    /\ gen' = [gen EXCEPT ![a] = @ + 1]
    /\ life' = [life EXCEPT ![n] = "running"]
    /\ siblings' = [siblings EXCEPT ![n] = MapInsts]
    /\ SendServerMsgToAll(MapInsts, PeerAdded(n))
    /\ neighborMap' = [neighborMap EXCEPT ![a] = n]
    /\ WriteMap
    /\ UNCHANGED <<fsmState, nbrWritten>>

\* main: SetGlobalType, received by Serve before its loop
MainSetGlobal ==
    /\ mainIdx = 0 /\ spc = "init"
    /\ mainIdx' = 1 /\ spc' = "select"
    /\ UNCHANGED <<restVars, dirty, raced, callee, neighborMap, gen, nbrVars, restUpdates, accepts>>

\* main: NeighborAdd for the next configured neighbor
MainAdd ==
    /\ mainIdx \in 1 .. Len(ConfigAddrs)
    /\ mainIdx' = mainIdx + 1
    /\ LET a == ConfigAddrs[mainIdx] IN
       \/ ~CheckBgpPeerAddr(a) /\ UNCHANGED <<dirty, neighborMap, gen, nbrVars>>
       \/ CheckBgpPeerAddr(a) /\ spc = "select" /\ AddNeighbor(a)
    /\ UNCHANGED <<restVars, raced, spc, callee, restUpdates, accepts>>

\* acceptCh: a connection from a (the listener, or InitDialNeighbor) of a
\* configured neighbor is handed over with PassConn, a send on the
\* neighbor's unbuffered acceptedConnCh; Serve waits until the neighbor's
\* handler receives it
ServeAccept(a) ==
    /\ spc = "select" /\ neighborMap[a] # NoNbr /\ accepts < MaxAccepts
    /\ spc' = "passing" /\ callee' = neighborMap[a]
    /\ accepts' = accepts + 1
    /\ UNCHANGED <<restVars, dirty, raced, mainIdx, neighborMap, gen, nbrVars, restUpdates>>

\* RestReqCh: go daemon.handleRest(restReq)
ServeRest ==
    /\ spc = "select" /\ restReqCh # <<>>
    /\ LET q == Head(restReqCh) IN
       /\ hpc' = [hpc EXCEPT ![q] = "start"]
       /\ dirty' = [dirty EXCEPT ![q] = FALSE]
    /\ restReqCh' = Tail(restReqCh)
    /\ UNCHANGED <<cpc, req, todo, raced, spc, callee, mainIdx, neighborMap, gen, nbrVars, restUpdates, accepts>>

\* addedNeighborCh from the handleRest goroutine of q (NeighborAdd)
ServeAddRest(q) ==
    /\ spc = "select" /\ hpc[q] = "addSend"
    /\ AddNeighbor(req[q].addr)
    /\ hpc' = [hpc EXCEPT ![q] = "addReply"]
    /\ UNCHANGED <<cpc, req, restReqCh, todo, raced, spc, callee, mainIdx, restUpdates, accepts>>

\* deletedNeighborCh from the handleRest goroutine of q (NeighborDelete):
\* a known neighbor is stopped, and Serve waits in Neighbor.Stop
ServeDelRest(q) ==
    /\ spc = "select" /\ hpc[q] = "delSend"
    /\ hpc' = [hpc EXCEPT ![q] = "delReply"]
    /\ LET n == neighborMap[req[q].addr] IN
       \/ n # NoNbr /\ life' = [life EXCEPT ![n] = "dying"]
          /\ spc' = "stopping" /\ callee' = n
       \/ n = NoNbr /\ UNCHANGED <<life, spc, callee>>
    /\ UNCHANGED <<cpc, req, restReqCh, todo, dirty, raced, mainIdx, neighborMap, gen,
                   siblings, daemonMsgCh, fsmState, nbrWritten, restUpdates, accepts>>

\* Stop returned: delete the entry, SRV_MSG_PEER_DELETED to the others
ServeStopped ==
    /\ spc = "stopping" /\ life[callee] = "stopped"
    /\ LET a == AddrOf(callee)
           rest == MapInsts \ {neighborMap[a]}
       IN /\ CanSendAll(rest)
          /\ neighborMap' = [neighborMap EXCEPT ![a] = NoNbr]
          /\ SendServerMsgToAll(rest, PeerDeleted(a))
    /\ WriteMap
    /\ spc' = "select" /\ callee' = NoNbr
    /\ UNCHANGED <<restVars, raced, mainIdx, gen, life, siblings, fsmState, nbrWritten, restUpdates, accepts>>

-----------------------------------------------------------------------------
(* handleRest, one goroutine per request                                  *)

\* a step of q's goroutine that ends it
Finish(q) == hpc' = [hpc EXCEPT ![q] = "done"]

\* NEIGHBORS, CONF_NEIGHBORS, ROUTES, LOCAL_RIB, RIB_OUT, RIB_IN: range over
\* neighborMap, reply, close
HandleRestList(q) ==
    /\ hpc[q] = "start" /\ req[q].kind = "LIST"
    /\ ReadNeighbors(q, MapInsts) /\ Respond(q) /\ Finish(q)
    /\ UNCHANGED <<req, restReqCh, todo, daemonMsgCh, restUpdates, accepts>>

\* NEIGHBOR: look the address up, reply with it or with an error, close
HandleRestNeighbor(q) ==
    /\ hpc[q] = "start" /\ req[q].kind = "NEIGHBOR"
    /\ ReadNeighbors(q, {neighborMap[req[q].addr]} \ {NoNbr}) /\ Respond(q) /\ Finish(q)
    /\ UNCHANGED <<req, restReqCh, todo, daemonMsgCh, restUpdates, accepts>>

\* CONF_GLOBAL: reply with the global configuration, close
HandleRestConfGlobal(q) ==
    /\ hpc[q] = "start" /\ req[q].kind = "CONF_GLOBAL"
    /\ Respond(q) /\ Finish(q)
    /\ UNCHANGED <<req, restReqCh, todo, raced, daemonMsgCh, restUpdates, accepts>>

\* ADJ_RIB_LOCAL: a known neighbor gets SRV_MSG_API on its daemonMsgCh and
\* answers itself; an unknown one is answered with an error
HandleRestAdjRibLocal(q) ==
    /\ hpc[q] = "start" /\ req[q].kind = "ADJ_RIB_LOCAL"
    /\ ReadMap(q) /\ Finish(q)
    /\ LET n == neighborMap[req[q].addr] IN
       \/ n # NoNbr /\ Len(daemonMsgCh[n]) < DaemonMsgChCap
          /\ daemonMsgCh' = [daemonMsgCh EXCEPT ![n] = Append(@, ApiMsg(q))]
          /\ UNCHANGED cpc
       \/ n = NoNbr /\ Respond(q) /\ UNCHANGED daemonMsgCh
    /\ UNCHANGED <<req, restReqCh, todo, restUpdates, accepts>>

\* ADD_NEIGHBOR: a local address and an existing neighbor are answered at
\* once; otherwise NeighborAdd sends the config on addedNeighborCh
HandleRestAddNeighbor(q) ==
    /\ hpc[q] = "start" /\ req[q].kind = "ADD_NEIGHBOR"
    /\ LET a == req[q].addr IN
       \/ ~CheckBgpPeerAddr(a) /\ Respond(q) /\ Finish(q) /\ UNCHANGED raced
       \/ CheckBgpPeerAddr(a) /\ ReadMap(q)
          /\ \/ ~CheckIfPeerExists(a) /\ Respond(q) /\ Finish(q)
             \/ CheckIfPeerExists(a) /\ hpc' = [hpc EXCEPT ![q] = "addSend"] /\ UNCHANGED cpc
    /\ UNCHANGED <<req, restReqCh, todo, daemonMsgCh, restUpdates, accepts>>

\* ADD_NEIGHBOR after NeighborAdd returned: "Neighbor successfully added", close
HandleRestAddReply(q) ==
    /\ hpc[q] = "addReply"
    /\ Respond(q) /\ Finish(q)
    /\ UNCHANGED <<req, restReqCh, todo, raced, daemonMsgCh, restUpdates, accepts>>

\* DEL_NEIGHBOR: the existence check only sets the error; NeighborDelete
\* sends the config on deletedNeighborCh in every case
HandleRestDelNeighbor(q) ==
    /\ hpc[q] = "start" /\ req[q].kind = "DEL_NEIGHBOR"
    /\ ReadMap(q)
    /\ hpc' = [hpc EXCEPT ![q] = "delSend"]
    /\ UNCHANGED <<cpc, req, restReqCh, todo, daemonMsgCh, restUpdates, accepts>>

\* DEL_NEIGHBOR after NeighborDelete returned: reply, close
HandleRestDelReply(q) ==
    /\ hpc[q] = "delReply"
    /\ Respond(q) /\ Finish(q)
    /\ UNCHANGED <<req, restReqCh, todo, raced, daemonMsgCh, restUpdates, accepts>>

\* a request that fails the prefix or next-hop checks returns without a
\* reply; a valid one ranges over neighborMap
StartRoute(q) ==
    /\ \/ ~req[q].valid /\ Finish(q) /\ UNCHANGED <<todo, raced>>
       \/ req[q].valid /\ ReadMap(q)
          /\ hpc' = [hpc EXCEPT ![q] = "route"]
          /\ todo' = [todo EXCEPT ![q] = MapInsts]
    /\ UNCHANGED <<cpc, req, restReqCh, daemonMsgCh, restUpdates, accepts>>

\* ADD_ROUTE: an empty prefix, an invalid next hop or a zero mask returns
HandleRestAddRoute(q) ==
    /\ hpc[q] = "start" /\ req[q].kind = "ADD_ROUTE"
    /\ StartRoute(q)

\* DEL_ROUTE: an empty prefix or an invalid next hop returns; a zero mask
\* only sets the error, which the reply then carries
HandleRestDelRoute(q) ==
    /\ hpc[q] = "start" /\ req[q].kind = "DEL_ROUTE"
    /\ StartRoute(q)

\* next entry of the range (an entry removed before it is reached is not
\* produced): a neighbor that is not Established is skipped; an Established
\* one gets the UPDATE on its outgoing channel, then the reply is sent
HandleRestRouteNext(q) ==
    /\ hpc[q] = "route"
    /\ \E n \in todo[q] \cap MapInsts :
       /\ todo' = [todo EXCEPT ![q] = @ \ {n}]
       /\ \/ fsmState[n] # "Established" /\ UNCHANGED <<hpc, restUpdates, accepts>>
          \/ fsmState[n] = "Established" /\ restUpdates' = restUpdates \cup {<<n, q>>}
             /\ hpc' = [hpc EXCEPT ![q] = "routeReply"]
       /\ ReadNeighbors(q, {n})
    /\ UNCHANGED <<cpc, req, restReqCh, daemonMsgCh>>

\* restReq.ResponseCh <- result inside the range, then defer close
HandleRestRouteReply(q) ==
    /\ hpc[q] = "routeReply"
    /\ Respond(q)
    /\ hpc' = [hpc EXCEPT ![q] = "route"]
    /\ UNCHANGED <<req, restReqCh, todo, raced, daemonMsgCh, restUpdates, accepts>>

\* the range is exhausted: the deferred closes run and the goroutine ends
HandleRestRouteEnd(q) ==
    /\ hpc[q] = "route" /\ todo[q] \cap MapInsts = {}
    /\ Finish(q)
    /\ UNCHANGED <<cpc, req, restReqCh, todo, raced, daemonMsgCh, restUpdates, accepts>>

-----------------------------------------------------------------------------
(* Neighbor.loop: the daemonMsgCh case and the end of the loop             *)

\* handleServerMsg. PEER_ADDED stores the new neighbor under its address
\* (replacing an entry of that address); PEER_DELETED removes the entry of
\* the address, or only logs if there is none; API runs handleREST, which
\* replies and closes. The paths that PEER_ADDED and PEER_DELETED pass on
\* (GetInPathList, DeletePathsforPeer) are module BgpNeighbor's concern.
HandleServerMsg(n) ==
    /\ life[n] \in {"running", "dying"} /\ daemonMsgCh[n] # <<>>
    /\ daemonMsgCh' = [daemonMsgCh EXCEPT ![n] = Tail(@)]
    /\ LET m == Head(daemonMsgCh[n]) IN
       \/ m.type = "PEER_ADDED" /\ UNCHANGED cpc
          /\ siblings' = [siblings EXCEPT ![n] = {s \in @ : AddrOf(s) # AddrOf(m.nbr)} \cup {m.nbr}]
       \/ m.type = "PEER_DELETED" /\ UNCHANGED cpc
          /\ siblings' = [siblings EXCEPT ![n] = {s \in @ : AddrOf(s) # m.addr}]
       \/ m.type = "API" /\ Respond(m.req) /\ UNCHANGED siblings
    /\ UNCHANGED <<req, restReqCh, hpc, todo, dirty, raced, spc, callee, mainIdx, neighborMap,
                   gen, life, fsmState, nbrWritten, restUpdates, accepts>>

\* the Dying case: the loop returns (after h.Wait, see module BgpNeighbor),
\* leaving whatever is still queued on daemonMsgCh unread
NeighborExit(n) ==
    /\ life[n] = "dying"
    /\ life' = [life EXCEPT ![n] = "stopped"]
    /\ UNCHANGED <<restVars, dirty, raced, spc, callee, mainIdx, neighborMap, gen,
                   siblings, daemonMsgCh, fsmState, nbrWritten, restUpdates, accepts>>

\* the states the FSM reaches from each state on the peer's messages and
\* errors: OpenSent goes to OpenConfirm on the peer's OPEN, OpenConfirm to
\* Established on its KEEPALIVE; an error or another message sends OpenSent
\* and OpenConfirm through Idle to Active, and Established through Idle to
\* OpenSent on the same connection (idle(), bgp_daemon.go). Active leaves
\* only with a connection from PassConn (NeighborTakeConn).
SessionSucc ==
    [Active |-> {}, OpenSent |-> {"OpenConfirm", "Active"},
     OpenConfirm |-> {"Established", "Active"}, Established |-> {"OpenSent"}]

\* the FSM of a running neighbor changes state as the peer's session goes
\* (LoopStateChange in module BgpNeighbor)
NeighborStateChange(n) ==
    /\ life[n] = "running"
    /\ \E st \in SessionSucc[fsmState[n]] : fsmState' = [fsmState EXCEPT ![n] = st]
    /\ nbrWritten' = nbrWritten \cup {n}
    /\ UNCHANGED <<restVars, dirty, raced, spc, callee, mainIdx, neighborMap, gen,
                   life, siblings, daemonMsgCh, restUpdates, accepts>>

\* the neighbor's handler receives from acceptedConnCh, which only active()
\* and opensent() do: Active stores the connection and goes to OpenSent,
\* OpenSent closes it; PassConn returns
NeighborTakeConn(n) ==
    /\ spc = "passing" /\ callee = n
    /\ fsmState[n] \in {"Active", "OpenSent"}
    /\ fsmState' = [fsmState EXCEPT ![n] = "OpenSent"]
    /\ nbrWritten' = IF fsmState[n] = "Active" THEN nbrWritten \cup {n} ELSE nbrWritten
    /\ spc' = "select" /\ callee' = NoNbr
    /\ UNCHANGED <<restVars, dirty, raced, mainIdx, neighborMap, gen, life, siblings,
                   daemonMsgCh, restUpdates, accepts>>

-----------------------------------------------------------------------------
(* The HTTP handlers of src/api                                            *)

\* a request about no particular neighbor names an arbitrary fixed address;
\* an ADD_NEIGHBOR may name a local address
ReqAddrs(k) ==
    CASE k = "ADD_NEIGHBOR" -> Addrs \cup LocalAddrs
      [] k \in AddrKinds -> Addrs
      [] OTHER -> {CHOOSE a \in Addrs : TRUE}
ReqValid(k) == IF k \in RouteKinds THEN BOOLEAN ELSE {TRUE}

\* build the request, rs.bgpServerCh <- req (blocks while the buffer is
\* full), then wait in <-req.ResponseCh
SendRequest(q, kinds) ==
    /\ cpc[q] = "idle" /\ Len(restReqCh) < RestReqChCap
    /\ \E k \in kinds, v \in BOOLEAN :
       \E a \in ReqAddrs(k) :
       /\ v \in ReqValid(k)
       /\ req' = [req EXCEPT ![q] = RestRequest(k, a, v)]
    /\ restReqCh' = Append(restReqCh, q)
    /\ cpc' = [cpc EXCEPT ![q] = "wait"]

\* GetNeighbor, GetNeighbors, GetRibLocalHandler, GetNeighborLocalRib,
\* GetNeighborsConf, GetGlobalConfig, GetRouteTables, GetRibOut, GetRibIn
ClientGet(q) == SendRequest(q, ReqKinds \ PostKinds)

\* PostNewRoute, PostDelRoute, PostNewNeighbor, PostDelNeighbor: a body that
\* does not decode is answered with 500 and sends no request
ClientPost(q) ==
    \/ SendRequest(q, ReqKinds \cap PostKinds)
    \/ /\ cpc[q] = "idle" /\ ReqKinds \cap PostKinds # {}
       /\ cpc' = [cpc EXCEPT ![q] = "failed"]
       /\ UNCHANGED <<req, restReqCh>>

-----------------------------------------------------------------------------

Init ==
    /\ cpc = [q \in Reqs |-> "idle"]
    /\ req = [q \in Reqs |-> RestRequest("LIST", CHOOSE a \in Addrs : TRUE, TRUE)]
    /\ restReqCh = <<>>
    /\ hpc = [q \in Reqs |-> "none"]
    /\ todo = [q \in Reqs |-> {}]
    /\ dirty = [q \in Reqs |-> FALSE]
    /\ raced = FALSE
    /\ spc = "init" /\ callee = NoNbr /\ mainIdx = 0
    /\ neighborMap = [a \in Addrs |-> NoNbr]
    /\ gen = [a \in Addrs |-> 0]
    /\ life = [n \in Inst |-> "none"]
    /\ siblings = [n \in Inst |-> {}]
    /\ daemonMsgCh = [n \in Inst |-> <<>>]
    /\ fsmState = [n \in Inst |-> "Active"]
    /\ restUpdates = {}
    /\ nbrWritten = {}
    /\ accepts = 0

\* a step of a handleRest goroutine, which only Serve's variables outlive
RStep(A) == A /\ UNCHANGED <<dirty, spc, callee, mainIdx, neighborMap, gen, life, siblings, fsmState, nbrWritten, accepts>>

HandleRest(q) ==
    \/ HandleRestList(q) \/ HandleRestNeighbor(q) \/ HandleRestConfGlobal(q)
    \/ HandleRestAdjRibLocal(q) \/ HandleRestAddNeighbor(q) \/ HandleRestAddReply(q)
    \/ HandleRestDelNeighbor(q) \/ HandleRestDelReply(q)
    \/ HandleRestAddRoute(q) \/ HandleRestDelRoute(q) \/ HandleRestRouteNext(q) \/ HandleRestRouteReply(q)
    \/ HandleRestRouteEnd(q)

\* a step of the HTTP handler of q
CStep(A) == A /\ UNCHANGED <<hpc, todo, dirty, raced, spc, callee, mainIdx, neighborMap, gen,
                             nbrVars, restUpdates, accepts>>

Serve ==
    \/ ServeRest \/ ServeStopped \/ \E a \in Addrs : ServeAccept(a)
    \/ \E q \in Reqs : ServeAddRest(q) \/ ServeDelRest(q)

Next ==
    \/ MainSetGlobal \/ MainAdd \/ Serve
    \/ \E q \in Reqs : RStep(HandleRest(q)) \/ CStep(ClientGet(q)) \/ CStep(ClientPost(q))
    \/ \E n \in Inst : HandleServerMsg(n) \/ NeighborExit(n) \/ NeighborStateChange(n) \/ NeighborTakeConn(n)

\* Every goroutine of the process is scheduled, and a select with a ready
\* case takes one; the clients, the connections arriving on acceptCh and
\* the peers' sessions are the environment. The select of active() and
\* opensent() picks a ready case at random, so acceptedConnCh, ready again
\* each time the session comes back to OpenSent, is taken (strong fairness).
Fairness ==
    /\ WF_vars(MainSetGlobal) /\ WF_vars(MainAdd)
    /\ WF_vars(ServeRest) /\ WF_vars(ServeStopped)
    /\ \A q \in Reqs : WF_vars(ServeAddRest(q)) /\ WF_vars(ServeDelRest(q))
                       /\ WF_vars(RStep(HandleRest(q)))
    /\ \A n \in Inst : WF_vars(HandleServerMsg(n)) /\ WF_vars(NeighborExit(n))
                       /\ SF_vars(NeighborTakeConn(n))

Spec == Init /\ [][Next]_vars /\ Fairness

-----------------------------------------------------------------------------
(* Properties                                                              *)

TypeOK ==
    /\ cpc \in [Reqs -> {"idle", "wait", "done", "failed"}]
    /\ req \in [Reqs -> [kind : ApiKinds, addr : Addrs \cup LocalAddrs, valid : BOOLEAN]]
    /\ restReqCh \in Seq(Reqs) /\ Len(restReqCh) <= RestReqChCap
    /\ hpc \in [Reqs -> {"none", "start", "addSend", "addReply", "delSend", "delReply",
                         "route", "routeReply", "done"}]
    /\ todo \in [Reqs -> SUBSET Inst]
    /\ dirty \in [Reqs -> BOOLEAN] /\ raced \in BOOLEAN
    /\ spc \in {"init", "select", "stopping", "passing"} /\ callee \in Inst \cup {NoNbr}
    /\ mainIdx \in 0 .. Len(ConfigAddrs) + 1
    /\ neighborMap \in [Addrs -> Inst \cup {NoNbr}]
    /\ gen \in [Addrs -> 0 .. MaxGen]
    /\ life \in [Inst -> {"none", "running", "dying", "stopped"}]
    /\ siblings \in [Inst -> SUBSET Inst]
    /\ daemonMsgCh \in [Inst -> Seq(DaemonMsg)]
    /\ \A n \in Inst : Len(daemonMsgCh[n]) <= DaemonMsgChCap
    /\ fsmState \in [Inst -> DOMAIN SessionSucc] /\ nbrWritten \subseteq Inst
    /\ accepts \in 0 .. MaxAccepts
    /\ restUpdates \subseteq Inst \X Reqs

\* Every running neighbor loop is the neighborMap entry of its address, so
\* a DEL_NEIGHBOR can reach and stop it (handleRest's checkIfPeerExists
\* followed by Serve's add case).
NoOrphanNeighbor == \A n \in Inst : life[n] = "running" => neighborMap[AddrOf(n)] = n

\* The siblings map that NewNeighbor starts from and that handleServerMsg
\* updates with PEER_ADDED and PEER_DELETED agrees with Serve's neighborMap:
\* a neighbor of the map that has read all its daemon messages has exactly
\* the other neighbors of the map as siblings, the same objects and not an
\* earlier neighbor of the same address. Stated while no address has an
\* orphaned neighbor (NoOrphanNeighbor).
SiblingsConsistent ==
    NoOrphanNeighbor =>
        \A n \in MapInsts : daemonMsgCh[n] = <<>> => siblings[n] = MapInsts \ {n}

\* Every request whose HTTP handler waits in <-req.ResponseCh is answered:
\* by handleRest, by the neighbor's handleREST, or after Serve has added
\* or deleted the neighbor. Serve must come back to its select for that,
\* from NeighborAdd's broadcast, from Stop and from PassConn.
RequestAnswered == \A q \in Reqs : cpc[q] = "wait" ~> cpc[q] = "done"

\* The ADD_ROUTE / DEL_ROUTE loop never sends a reply that nobody will
\* receive: the handler reads ResponseCh once, and a goroutine blocked on a
\* second send never ends.
ReplyOnce == \A q \in Reqs : hpc[q] = "routeReply" => cpc[q] = "wait"

\* handleRest never reads memory that another goroutine writes without a
\* happens-before edge between them: neighborMap written by Serve, and the
\* neighbor state its loop writes (capMap and adjRib, Go maps the runtime may
\* abort the process for; fsm.state; the outgoing channel field).
NoDataRace == ~raced

====
