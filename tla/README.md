# TLA+ models of the gopher-net BGP speaker

This directory holds TLA+ specifications of the BGP daemon under `src/daemon`. They are
checked with TLC. `PROJECT.json` lists the components, the runs, the mutants that show
each property can fail, the map from each definition to the source lines it translates,
the findings and the hazards.

## The system

The daemon (`src/daemon`) runs one goroutine per concern:

- **Daemon.Serve** (`bgp_init.go`) accepts TCP connections from the listeners and the
  dialers. It hands a connection from a configured peer to that neighbor with
  `Neighbor.PassConn`, a send on the neighbor's unbuffered `acceptedConnCh`. It also adds
  and deletes neighbors (`Neighbor.Stop` when a neighbor is deleted) and starts one
  goroutine per REST request (`handleRest`, `bgp_msg_router.go`).
- **The REST server** (`src/api`) runs one HTTP handler per request. The handler sends a
  `RestRequest` on the daemon's `RestReqCh` (capacity 1) and waits on the request's
  unbuffered `ResponseCh`. `handleRest` answers it, except ADJ_RIB_LOCAL: that request is
  forwarded to the neighbor's `daemonMsgCh` (capacity 8), and the neighbor loop answers it.
  The same inbox carries Serve's PEER_ADDED and PEER_DELETED, which keep each neighbor's
  `siblings` map in step with the daemon's `neighborMap`.
- **main** (`src/main.go`) hands the daemon the global configuration and adds each
  configured neighbor.
- **Neighbor.loop** (`bgp_neighbor.go`) is the neighbor's routing-table goroutine. Each
  iteration makes fresh `incoming` and `outgoing` channels and an `FSMHandler` for the
  current FSM state. It then serves:
  - `incoming`: state changes, and BGP messages from the peer;
  - `neighborMsgCh`: paths and PEER_DOWN from the sibling neighbors;
  - the tomb's `Dying`.
- **FSMHandler.loop** (`bgp_daemon.go`) runs the handler of one state (`idle`, `active`,
  `opensent`, `openconfirm`, `established`) and posts the next state on `incoming`.
  - `opensent` and `openconfirm` start `recvMessage`, which reads one message and offers
    it on an unbuffered `msgCh`.
  - `established` starts `recvMessageloop`, which posts to `incoming`, and
    `sendMessageloop`, which writes `outgoing` and the keepalive ticks.
  - A read or write error, or a NOTIFICATION sent, puts a value on `errorCh`
    (capacity 2).
- **The peer** is the remote BGP speaker behind each TCP connection.

## Module BgpNeighbor

`BgpNeighbor.tla` models one neighbor with all of its goroutines and its environment:
Serve's hand-over and stop, the siblings, and the peer.

### Goroutines

| goroutine | program-counter variable | actions |
|---|---|---|
| FSMHandler.loop | `hpc` | `Idle`, `ActiveStart`, `ActiveAccept`, `ActiveChannelClosed`, `OpenSentStart`, `OpenSentCloseAccepted`, `OpenSentRecvOpen`, `OpenSentRecvOther`, `RecvMessageError(h)`, `RecvUnknown(h)`, `RecvConnError(h)`, `OpenConfirmStart`, `OpenConfirmTick`, `OpenConfirmRecvMessage`, `EstablishedStart`, `EstablishedError` |
| recvMessage / recvMessageloop | `recvPc`, `recvItem` | `RecvOffer`, `RecvLoopMessage`, `RecvParsePanic`, `RecvReadError` |
| sendMessageloop | `sendPc` | `SendOutgoing`, `SendKeepalive`, `SendDying` |
| Neighbor.loop | `lpc` (`select`, `wait` = in `h.Wait()`, `dying`, `done`) | `LoopStateChange`, `LoopApply`, `LoopRecvMessageError`, `LoopRecvBGPMessage`, `LoopRecvUnknown`, `LoopNeighborMsg`, `LoopDying`, `LoopReturn` |
| Serve | `dpc`, `handoff`, `stopReq` | `DaemonPassConn(c)`, `DaemonStop`, `DaemonStopReturns` |
| siblings | `nbrIn`, `sibSent` | `SiblingSend` |
| peer | `conn`, `peerSent` | `PeerRead(c)`, `PeerHandshake(c)`, `PeerSend(c)`, `PeerClose(c)` |

### State and how it is abstracted

- **Channels.** `incoming` and `outgoing` are sequences that `LoopApply` resets, just as
  the code makes new channels on each iteration. `errorCh` is a count.
- **Connections.** A TCP connection `conn[c]` records:
  - the peer's messages `in`, with our read index `rd`;
  - our messages `out`, with the peer's read index `prd`;
  - the close flags of each end.
- **Messages.** A message is its type plus the fields the properties tell apart: the
  prefix and withdraw flag of an UPDATE, and the four-octet-AS flag of an OPEN or of an
  UPDATE we write.
- **Decode errors.** A message the codec rejects with a `*MessageError` is `ERR`. One
  whose decoder returns a plain `fmt.Errorf` is `SHORT` (`parseBody`, `bgp.go`).
- **AS_PATH.** An UPDATE may also carry the bytes of its AS_PATH value (`PeerAsPathUpdate`).
  `AsPathOf` decodes them with BgpAsPath: an error makes the message `ERR`, a decode that
  succeeds gives a plain UPDATE, and a runtime panic is `RecvParsePanic`.
- **RIBs.** `adjRibIn`, `adjRibOut` and `locRib` are sets of prefixes, with one path per
  prefix.
  - `AdjRib` and `TableManager` are not in this repository. Their effect
    (`ApplyUpdate`, `UpdateOut`, `BestChanges`, `LocRibAfter`) is modelled from the spec
    and marked `spec_modelled`.
  - `capAs4` stands for the four-octet AS entry of `capMap`.
- **Panics.** `log.Panic`, and a runtime panic in `ParseBGPBody`, set `panicked`, which
  ends every goroutine of the process.
  The peer may still act.

### Actions

- Every action is a whole select case or a whole handler step, with its writes, closes
  and channel sends.
- A `conn.Write` on a closed socket changes nothing (the error is ignored in the
  handlers) or signals `errorCh` (`sendMessageloop`).
- Each action is wrapped in `HStep`, `LStep`, `DStep`, `GStep` or `PStep`, which state
  what the other goroutines leave unchanged.
- `Next` is a flat disjunction of these steps.

## Module BgpFsm and the refinement

`BgpFsm.tla` is the abstract specification of the neighbor FSM of spec.md section 4.3.
One step there is one state change: the handler of the current state (`idle`, `active`,
`opensent`, `openconfirm`, `established` in `bgp_daemon.go`) chooses the next state, and
`FSM.StateChange` records the state left behind in `priorState`. Its variables are:
- `fsmState`;
- `prior`;
- `sessionConn`, the connection the session runs on. It is none in Active. `Accept(c)` sets
  it on leaving Active, and `IdleToOpenSent` keeps it when Idle returns straight to
  OpenSent after Established.

BgpNeighbor defines the refinement mapping with `Fsm == INSTANCE BgpFsm WITH ...`:
- `fsmState` is `state`, as `Neighbor.loop` applies it after `h.Wait()`;
- `prior` is `priorState`;
- `sessionConn` is `SessionConn`: `passiveConn` outside Active and none in Active. In
  Active the handler stores the next connection before the loop applies OpenSent.

`FsmRefinement == Fsm!Spec` is checked as a temporal property in the safety run. Every
step of the goroutines either leaves these three values unchanged or is one step of
BgpFsm.

## Module BgpWire

`BgpWire.tla` models the receive side of one connection at the level of bytes:
- `recvMessageloop` calls `recvMessageWithError`;
- `recvMessageWithError` reads the 19-byte header with `readAll`, takes Len from bytes 16
  and 17, and reads the body with `readAll(conn, Len-19)`.

The peer writes the messages of `Sent`. `Bytes(m)` is their serialization: 16 marker
bytes 0xff, then Len and Type. TCP delivers the stream in segments of any size
(`Arrive`). One `conn.Read(buf)` (`ReadAllRead`) returns what has arrived and not been
read, at most `len(buf)` bytes, and writes it from `buf[0]`, exactly as the code passes
`buf`. `ParseBGPBody` is abstracted: a frame that is the serialization of a message the
peer could send parses; any other frame is an error, which ends the loop.

`RecvFramed` states spec section 4.1's contract for this path:
- every frame handed to the parser is the next message the peer wrote;
- the goroutine never panics.

## Module BgpAsPath

`BgpAsPath.tla` models the decoding of the AS_PATH attribute (`bgp.go`) as pure operators
over sequences of bytes 0..255. Each segment is a type byte, a count byte `Num`, and `Num`
AS numbers of 2 or 4 bytes.
- `TryParse(d, w)` and `AsWidth(v)` are `isValidAspath`: the value's width is 4 if its
  segments parse as 4-byte ASes, else 2, else it is an error.
- `ParamResult(d, w)` is `AsPathParam.DecodeFromBytes` (w = 2) and
  `As4PathParam.DecodeFromBytes` (w = 4). The operator `RECURSIVE DecodeSegments` is the
  loop of `PathAttributeAsPath.DecodeFromBytes`.
- The code computes `Num * w` in `uint8`, the type of `Num`, both in `tryParse` and in the
  length checks. `Uint8` keeps that width. The loop then reads the real `Num * w` bytes,
  which `ParamResult` reports as `"panic"`.

The value `<<2, 64>>` (an AS_SEQUENCE of 64 ASes with no AS bytes) passes: 64 * 4 = 256
wraps to 0 in both checks, and the loop's first `binary.BigEndian.Uint32` indexes an
empty slice. Nothing between `recvMessageWithError` and the goroutine recovers, so a
peer's UPDATE crashes the process. Spec section 4.1 says decode "does not panic".

## Module BgpDaemon

`BgpDaemon.tla` models the daemon around the neighbors. It covers:
- `Daemon.Serve`'s select: the accept case and the neighbor registry (`bgp_init.go`);
- the goroutine `handleRest` runs for each REST request (`bgp_msg_router.go`);
- the HTTP handlers of `src/api`, which send a request and wait on its `ResponseCh`;
- `main` adding the configured neighbors;
- the `daemonMsgCh` case of every neighbor's loop (`handleServerMsg`, `handleREST`).

### Goroutines

| goroutine | state | actions |
|---|---|---|
| main | `mainIdx` | `MainSetGlobal` (SetGlobalType), `MainAdd` (NeighborAdd of the next configured neighbor; a local address is skipped) |
| Daemon.Serve | `spc` (`init`, `select`, `stopping`, `passing`), `callee`, `neighborMap`, `gen`, `accepts` | `ServeAccept(a)` (the acceptCh case up to `PassConn`), `ServeRest` (`go handleRest`), `ServeAddRest(q)` and `AddNeighbor` (the addedNeighborCh case), `ServeDelRest(q)` (the deletedNeighborCh case up to `Stop`), `ServeStopped` (delete and PEER_DELETED after `Stop` returns) |
| handleRest of request `q` | `hpc[q]`, `todo[q]` | `HandleRestList`, `HandleRestNeighbor`, `HandleRestConfGlobal`, `HandleRestAdjRibLocal`, `HandleRestAddNeighbor`, `HandleRestAddReply`, `HandleRestDelNeighbor`, `HandleRestDelReply`, `HandleRestAddRoute`, `HandleRestDelRoute`, `HandleRestRouteNext`, `HandleRestRouteReply`, `HandleRestRouteEnd` |
| HTTP handler of request `q` | `cpc[q]`, `req[q]` | `ClientGet(q)`, `ClientPost(q)` (a body that does not decode gets a 500 and sends nothing) |
| Neighbor.loop and FSM handler of neighbor `n` | `life[n]`, `siblings[n]`, `daemonMsgCh[n]`, `fsmState[n]` | `HandleServerMsg(n)`, `NeighborExit(n)` (the Dying case returns), `NeighborStateChange(n)` (the session moves on as `SessionSucc` allows), `NeighborTakeConn(n)` (`active()` or `opensent()` receives the connection, and `PassConn` returns) |

### State and how it is abstracted

- **Neighbor objects.** A neighbor object is `<<address, generation>>`, because every add
  creates a new `Neighbor`. `siblings[n]` is a set of such objects: a `daemonMsgDataNeighbor`
  carries the new neighbor's own `neighborMsgCh`, so an entry left over from an earlier
  neighbor of the same address is a different object.
- **Sessions.** Module BgpNeighbor models the session. Here it is the FSM's state,
  `fsmState[n]`: Active, OpenSent, OpenConfirm or Established (Idle passes at once).
  - The route requests read whether it is Established.
  - `PassConn` depends on whether the handler receives from `acceptedConnCh`; only
    `active()` and `opensent()` do.
  - The peer's part (OPEN, KEEPALIVE, errors) is the environment step
    `NeighborStateChange`.
- **Connections.** `accepts` counts the connections received on `acceptCh`, up to
  `MaxAccepts`.
- **Request kinds.** NEIGHBORS, CONF_NEIGHBORS, ROUTES, LOCAL_RIB, RIB_IN and RIB_OUT have
  the same control (range over the map, reply, close) and are one kind, `LIST`.
- **Route requests.** A route request is "valid" or not: whether it passes the checks that
  `return`. DEL_ROUTE's range has the same control as ADD_ROUTE's and shares its actions.
- **Reply contents.** JSON, error texts and UUIDs are left out. A reply is the rendezvous
  `Respond(q)`, which completes only while the HTTP handler waits in `<-req.ResponseCh`.
  A blocked send is an action that is not enabled.
- **Local addresses.** `LocalAddrs` lies outside `Addrs`. Only the add paths
  (`checkBgpPeerAddr`) tell a local address apart from an unknown one.
- **Map races.** `dirty[q]` records that Serve wrote `neighborMap` after `q`'s goroutine
  last synchronised with Serve. That happens at `go handleRest`, and at the rendezvous on
  `addedNeighborCh` or `deletedNeighborCh`. A map read while `dirty[q]` holds sets `raced`.
- **Neighbor-state races.** `nbrWritten` holds the neighbors whose loop has changed state,
  and with it written `fsm.state`, `capMap`, the counters and the `outgoing` field. A loop
  never sends to Serve or to `handleRest`, so a read of that state by `handleRest`
  (`ReadNeighbors`: `Neighbor.MarshalJSON` for API_NEIGHBOR(S), the state test of the route
  range) races with those writes and also sets `raced`. One edge is ignored: a send of
  `handleRest` that blocks on a full `daemonMsgCh` until the loop receives.
  `dirty`, `raced` and `nbrWritten` are history: no guard reads them. The `daemon_rest`
  run, which checks no race property, therefore uses `VIEW NoRaceHistoryView`
  (`MC_BgpDaemon.tla`) to identify states that differ only in them.
- **Left out.** The paths that PEER_ADDED makes a neighbor pass to its siblings
  (`GetInPathList`) are left out. So are the dialers, and the accept case for an address
  with no neighbor, which only closes the connection.

## Runs

`MC_BgpNeighbor.tla` supplies model values (`c1` and `c2` connections, the `n1` prefix) and
the sets of messages the peer may send. `MC_BgpDaemon.tla` supplies the requests `q1..q3`,
the addresses `a1` and `a2`, the local address `l1`, the configured lists and the request
mixes.

| run | expect | checks | shows |
|---|---|---|---|
| safety | pass | `TypeOK`, `AdjRibInTracksPeer`, `FsmRefinement` | With two connections over the run (a reconnect), peer closes and message errors: `errorCh` never overflows (two goroutines send on it and the handler takes one). Adj-RIB-In is exactly the current session's routes. The neighbor implements BgpFsm: every applied state is one the previous state's handler may choose, Idle goes to OpenSent exactly after Established, and the session's connection changes only when the loop applies OpenSent after Active. About 1.5M states, about 1 min. |
| messages | pass | `ProtocolOrder`, `Teardown` | One connection, a peer message of every type (OPEN, UPDATE with or without an AS_PATH, KEEPALIVE, NOTIFICATION, ROUTE_REFRESH, ERR, SHORT), keepalive ticks, and a sibling's path that the loop turns into an UPDATE to the peer. Our wire order holds: OPEN first; an UPDATE only after the peer's OPEN and KEEPALIVE were read; nothing after NOTIFICATION, including the OPEN that idle()'s OpenSent writes on the dead connection. When the peer closes an Established session, every goroutine ends, `h.Wait` returns and the FSM is back in Active, unless a goroutine panicked. About 256k states, under 1 min. |
| handshake | pass | `SessionComesUp` | Against a peer that answers, a connection passed in Active reaches Established, while a sibling neighbor sends one path or PEER_DOWN. |
| daemon_rest | pass | `SiblingsConsistent` | Three concurrent requests of every kind, a configured local address that main skips and a configured neighbor, one connection handed over with `PassConn`, and sessions changing state. Every neighbor of the map that has read its daemon messages has exactly the other neighbors of the map as siblings: the same objects, not a stopped predecessor. About 1.4M states with symmetry over the requests, about 2 min. |
| rest_answered | violation | `RequestAnswered` | Finding: a second connection from a configured neighbor arrives while its session is in OpenConfirm (or Established). Serve blocks in `PassConn` on the unbuffered `acceptedConnCh`, which only `active()` and `opensent()` read. `RestReqCh` is not read, so a LIST waiting in it is never answered: against spec.md section 6 ("never blocking the requester longer than one RIB-table read"). |
| burst | violation | `PeerLearnsAdjRibOut` | Finding: the Adj-RIB-Out burst on entering Established is lost. |
| caps | violation | `UpdatesMatchPeerCapability` | Finding: `capMap` is never reset, so a 2-byte peer is sent 4-byte AS_PATHs after a reconnect. |
| panic | violation | `NoPanic` | Findings: an UPDATE whose AS_PATH is `<<2, 64>>` makes `ParseBGPBody` index out of range, through the uint8 wrap of `Num * 4` (TLC's trace); and a short NOTIFICATION or ROUTE_REFRESH body, or an OPEN whose option length exceeds its body, reaches `log.Panic`. |
| stop | violation | `ServeCallsReturn` | Finding: `Neighbor.Stop` never returns while the handler waits on a silent peer, and Serve hangs. The property also says that `PassConn` returns (see below). |
| rest_datarace | violation | `NoDataRace` | Finding: `handleRest` reads `neighborMap` in its own goroutine while Serve writes it, and reads neighbor state (`Neighbor.MarshalJSON` over `capMap`, the counters, `fsm.state`, the `outgoing` field) that the neighbor loops write; neither reader is ordered after the writer. A data race on a Go map may abort the process. |
| wire_framing | violation | `RecvFramed` | Finding: `readAll` passes the whole buffer to every `conn.Read`, so a header that TCP delivers in two segments is overwritten from offset 0. Its Len field then comes from the zeroed tail, and `readAll(conn, 0-19)` panics in `make`. |
| rest_dupadd | violation | `NoOrphanNeighbor` | Finding: two ADD_NEIGHBOR requests for one address both pass `checkIfPeerExists`. Serve overwrites the map entry, and the first neighbor runs on with no entry, so nothing can stop it. |

`SiblingsConsistent` is stated for states where no neighbor is orphaned, because
`rest_dupadd` shows that orphans occur. The route requests and DEL_NEIGHBOR are left out of
`rest_answered`, so that its counterexample is the PassConn one; theirs are below.

### Counterexamples outside the runs

The modules state more properties, and more counterexamples of checked ones, that the code violates. TLC finds
the violation with the constants given here.

- **`RequestAnswered`, route requests** (`bgp_msg_router.go:206`). Constants: `Reqs = {q1}`,
  `ConfigAddrs = <<>>`, kinds `{ADD_ROUTE}`, `MaxAccepts = 0`.
  - An ADD_ROUTE or DEL_ROUTE that fails validation returns without a reply.
  - So does a request that meets no Established neighbor.
  - Either way, the HTTP handler waits for ever. Against spec.md line 76.
- **`RequestAnswered`, ADJ_RIB_LOCAL** (`bgp_msg_router.go:82`). Constants: `Reqs = {q1, q2}`,
  `ConfigAddrs = <<a1>>`, kinds `{ADJ_RIB_LOCAL, DEL_NEIGHBOR}`, `MaxAccepts = 0`.
  - An ADJ_RIB_LOCAL can be queued to a neighbor that DEL_NEIGHBOR is stopping.
  - The neighbor's loop may take the Dying case first and return with the request unread.
- **`ReplyOnce`** (`bgp_msg_router.go:263`). Constants: `Reqs = {q1}`,
  `ConfigAddrs = <<a1, a2>>`, kinds `{ADD_ROUTE}`, `MaxAccepts = 2` (one per neighbor).
  - ADD_ROUTE replies once per Established neighbor, but the handler reads only once.
  - With two Established neighbors the goroutine blocks for ever on the second send.
- **`AbandonedConnsClosed`** (BgpNeighbor; `bgp_neighbor.go:244`, `bgp_daemon.go:404-410`).
  Constants: two connections; the peer sends OPEN and then a message other than KEEPALIVE.
  A connection taken in Active is never closed in two cases:
  - Stop comes before OpenSent;
  - OpenConfirm returns Idle on a non-KEEPALIVE.
- **`ServeCallsReturn`, PassConn** (BgpNeighbor, under `CoopSpec`, with `DaemonStop`
  left out; `bgp_neighbor.go:306`). Constants: two connections, the second accepted while a
  session is up.
  - `PassConn` sends on the unbuffered `acceptedConnCh`.
  - Only `active()` and `opensent()` receive from it.
  - So Serve blocks while the FSM is in OpenConfirm or Established.

- **`RecvFramed`, a short Len** (`bgp_daemon.go:272`). Constants: `Sent <- MCSentShortLen`,
  one header whose Len field is 18. Even in one TCP segment, `readAll(conn, -1)` panics:
  the header's Len is never checked against 19.
- **`NoPanic`, `log.Panic`** (`bgp_daemon.go:364`). Constants: `PeerMsgs = {[type |-> "SHORT"]}`.
  A NOTIFICATION or ROUTE_REFRESH body shorter than its decoder needs, or an OPEN whose
  option length exceeds its body, returns a plain error, not a `*MessageError`; the
  handler's type switch reaches `log.Panic`. An OPEN body under 10 bytes panics earlier,
  on an index in `BGPOpen.DecodeFromBytes` (`bgp.go:376`).

### Mutants

Each property of a passing run has a mutant in `PROJECT.json`: a faulty variant of a mapped
definition, defined just before it, which TLC must find violating the property.

- `RecvReadErrorNoReturn` keeps reading after an error, which breaks `TypeOK`.
- `OpenSentRecvOpenSkipConfirm` answers the peer's OPEN and goes straight to
  Established, skipping OpenConfirm. The sibling's path is then written as an UPDATE
  before the peer's KEEPALIVE is read, which breaks `ProtocolOrder`.
- `LoopApplyKeepAdjRibIn` breaks `AdjRibInTracksPeer`.
- `RecvReadErrorNoSignal` breaks `Teardown`.
- `OpenConfirmStartNoRecv` breaks `SessionComesUp`.
- `AddNeighborMapFirst` inserts the map entry before taking the siblings list and
  broadcasting, which breaks `SiblingsConsistent`.
- `IdleToActiveAlways` drops idle()'s `priorState` test, so the FSM goes to Active after
  Established. This breaks `FsmRefinement`.

## Bounds

| constant | meaning | why this value is enough |
|---|---|---|
| `Conns` | connections over the whole run | Two connections give a session, its failure and a reconnect, or a second accept racing the first. |
| `MaxPeerMsgs` | messages the peer sends outside the handshake, over the run | 1 to 2 is enough for an announce then a withdraw, or an error after an UPDATE. |
| `MaxKeepalives` | KEEPALIVEs we write per connection | 1 to 2 lets ticks interleave with everything else. |
| `MaxSibMsgs` | messages from siblings | 0 or 1: one path, or a PEER_DOWN. In `messages`, the path puts a prefix in Adj-RIB-Out, so UPDATEs are written (in Established, and on a ROUTE_REFRESH). |
| `PeerCanClose` | whether the peer may close a socket | Turned off where a run is about a silent peer. |
| `MCAsPathWrap` | the AS_PATH bytes of the peer's extra UPDATE | `<<2, 64>>` is the shortest value whose product wraps to 0 at width 4; width 2 needs 128. |
| `Sent` (BgpWire) | messages the peer writes on one connection | A KEEPALIVE (no body, so `readAll(conn, 0)`) then an UPDATE (4-byte body): 42 bytes in segments of every size, so a read can end inside a header, inside a body, or span two messages. |

| `Reqs` (BgpDaemon) | concurrent REST requests, each one HTTP handler and one `handleRest` goroutine | Three in `daemon_rest`, so that a delete, a re-add and a third request can interleave with the broadcasts. Two in `rest_answered`, where liveness checking forbids symmetry. |
| `Addrs`, `ConfigAddrs` | neighbor addresses, and the configured list | Two addresses give a neighbor that observes another's add and delete. One configured neighbor lets requests race main's add. |
| `LocalAddrs` | addresses of the local machine | `l1`, configured and requested, takes both rejection paths. |
| `MaxAccepts` | connections that arrive on `acceptCh` over the run | One in `daemon_rest`, where it takes a neighbor out of Active (two take 9 min). Two in `rest_answered`: one to bring the session up, one to meet it in OpenConfirm or Established. Zero would hide the blocking case. |
| `MaxGen` (derived) | neighbor objects per address | The configured entries plus the requests: every add creates one, so it never binds. |

Symmetry over the connections is used only in the safety run, which has no liveness
properties. Deadlock checking is off: a neighbor with no further connection to accept
waits in Active for ever, which is a legitimate end state of the code.

## Fairness

`Spec` assumes weak fairness of every step of the neighbor's own goroutines. The Go
scheduler runs every runnable goroutine, and a `select` with a ready case takes one.

- The keepalive ticks are included because the ticker fires periodically.
- The peer and the siblings get no fairness in `Spec`. Liveness under `Spec` therefore
  holds against any peer.
- The panicking steps (`RecvUnknown`, `LoopRecvUnknown`, `RecvParsePanic`) are fair too. They are
  ordinary steps of a running goroutine, and `Teardown` allows for them ("unless a
  goroutine panicked") rather than assuming they never happen.
- `CoopSpec` adds fairness of the peer reading and answering the handshake. It is used
  for `SessionComesUp` and for `PassConn` in `ServeCallsReturn`, which are about a peer that does its part.

BgpDaemon's `Spec` assumes weak fairness of:
- main;
- each case of Serve's select;
- each request's `handleRest` goroutine;
- each neighbor's `handleServerMsg` and the return of its loop.

Go's select chooses at random among ready cases, so a case that stays ready is taken.
`NeighborTakeConn` gets strong fairness. The `acceptedConnCh` case of `opensent()` is
ready each time the session comes back to OpenSent, and a random choice takes a case that
is ready infinitely often. The HTTP clients, the connections arriving on `acceptCh` and
the sessions changing state get no fairness.

`NeighborExit` is fair. `Stop` therefore always returns in BgpDaemon, which is where
BgpNeighbor's `stop` run shows the code can hang. This is why DEL_NEIGHBOR is kept out of
`rest_answered`.

Deadlock checking is off for BgpDaemon too. Once every request is answered or abandoned,
Serve waits in its select for ever, which is the program's normal idle state.

## Not modelled, and the plan

- **Sibling path exchange.** The paths a neighbor passes to its siblings on PEER_ADDED,
  and the PATH and PEER_DOWN messages between neighbors (`neighborMsgCh`, capacity 4096),
  are not modelled. BgpNeighbor has one neighbor with an abstract sibling environment, and
  BgpDaemon reduces each neighbor to its inbox. The plan is a module composing two
  neighbors' RIBs.
- **Which `outgoing` channel the REST router's UPDATE reaches** (`bgp_msg_router.go:258`
  against `bgp_neighbor.go:235`). The read of the field is a race that `NoDataRace`
  catches, but BgpDaemon records the UPDATEs sent as a set, so an UPDATE sent to a channel
  the loop has already replaced is not told apart.
- **The rest of the wire codec** (`bgp.go`) and the **validator** (`validate.go`). BgpWire
  models the framing and BgpAsPath the AS_PATH decoding. The other attributes, NLRI and
  capabilities are data conversions with bounds checks. An UPDATE's other fields are
  abstracted to `ERR`, `SHORT` or a decoded message. The 2/4-byte AS conversion on send
  is the `capAs4` flag.
- **Configuration parsing** (`bgp_conf_parse.go`) reads a TOML file and fills defaults. It
  is I/O and data only.
- **Main** is modelled only for the first configuration: `deleted` is always empty, and a
  SIGHUP reload adds nothing more. The reader goroutine (`ReadConfigfileServe`) and the
  SIGHUP case of main's `select` are left out, and with them a deadlock the code has: main
  can take a SIGHUP while the reader waits in `configCh <- b`, and then both wait on each
  other's unbuffered channel for ever. If that SIGHUP comes before the first configuration,
  the configured neighbors are never added. It is listed as a hazard at `main.go:84`; showing
  it would take a run of its own.
- **`BgpNeighborDb`** (`bgp_neighbor_table.go`), the RIB helpers (`bgp_rib.go`,
  `bgp_table.go`), the container event callbacks and the libchan example are not used by
  the daemon's goroutines, or are I/O only.
- **`connect()`** is unreachable: no transition leads to Connect.
- **Listening, dialing** (`InitDialNeighbor`) **and the accept case for an unknown
  address**, which only closes the connection, are I/O.
