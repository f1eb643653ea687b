---------------------------- MODULE MC_BgpDaemon ----------------------------
(* Model values and request mixes for the runs of BgpDaemon.               *)
EXTENDS BgpDaemon, TLC

CONSTANTS q1, q2, q3, a1, a2, l1

MCReqs1 == {q1}
MCReqs2 == {q1, q2}
MCReqs3 == {q1, q2, q3}
MCAddrs == {a1, a2}

\* the configured neighbors, in file order (l1 is a local address)
MCNoConfig == <<>>
MCConfig == <<a1>>
MCConfigLocal == <<l1, a1>>

\* request kinds of each run
MCKindsChange == {"ADJ_RIB_LOCAL", "ADD_NEIGHBOR", "DEL_NEIGHBOR", "ADD_ROUTE", "DEL_ROUTE"}
MCKindsAnswered == {"LIST", "NEIGHBOR", "CONF_GLOBAL", "ADJ_RIB_LOCAL", "ADD_NEIGHBOR"}
MCKindsAll == MCKindsChange \cup MCKindsAnswered
MCKindsList == {"LIST"}
MCKindsAdd == {"ADD_NEIGHBOR"}

\* requests are interchangeable: they start alike and choose their kind
ReqSymmetry == Permutations(MCReqs3)

\* dirty, raced and nbrWritten only record races: no guard reads them, so a
\* run that checks no race property may identify states that differ in them
NoRaceHistoryView ==
    <<restVars, spc, callee, mainIdx, neighborMap, gen,
      life, siblings, daemonMsgCh, fsmState, restUpdates, accepts>>
====
