--------------------------- MODULE MC_BgpNeighbor ---------------------------
(* Instantiation of BgpNeighbor for TLC: connections and prefixes are      *)
(* model values; the peer's repertoire is chosen per run.                  *)
EXTENDS BgpNeighbor, TLC

CONSTANTS c1, c2, n1

\* an AS_PATH of one segment that announces 64 ASes and holds none: in the
\* four-byte trial 64 * 4 wraps to 0 in uint8
MCAsPathWrap == <<2, 64>>

\* everything the peer can send outside the handshake
MCPeerMsgsAll ==
    {PeerOpen(FALSE), PeerUpdate(n1, FALSE), PeerUpdate(n1, TRUE),
     [type |-> "KEEPALIVE"], [type |-> "NOTIFICATION"], [type |-> "ROUTE_REFRESH"],
     [type |-> "ERR"], [type |-> "SHORT"], PeerAsPathUpdate(n1, MCAsPathWrap)}

\* a well-formed session: routes and refresh requests only
MCPeerMsgsRoutes == {PeerUpdate(n1, FALSE), PeerUpdate(n1, TRUE), [type |-> "ROUTE_REFRESH"]}

\* routes and a malformed message
MCPeerMsgsSession == {PeerUpdate(n1, FALSE), PeerUpdate(n1, TRUE), [type |-> "ERR"]}

\* decodable messages that are not part of a session: no SHORT
MCPeerMsgsNoPanic ==
    {PeerUpdate(n1, FALSE), [type |-> "NOTIFICATION"], [type |-> "ERR"]}

\* an OPEN that is not followed by KEEPALIVE
MCPeerMsgsLeak == {PeerOpen(FALSE), [type |-> "NOTIFICATION"]}

\* malformed messages that a decoder does not turn into a *MessageError
MCPeerMsgsShort == {[type |-> "SHORT"], PeerAsPathUpdate(n1, MCAsPathWrap)}

MCPeerMsgsNone == {}

ConnSymmetry == Permutations({c1, c2})
====
