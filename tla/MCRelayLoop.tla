---------------------------- MODULE MCRelayLoop ----------------------------
(* Instances of RelayLoop for TLC: group a has two priorities, b one.  Of two *)
(* requests, r1 is of any kind and r2 a plain relay that competes with it.    *)
EXTENDS RelayLoop, TLC

CONSTANTS r1, r2, c1, c2, a, b

MCGroups == <<a, b>>
MCChannelsOf(g) == IF g = a THEN {c1, c2} ELSE {c2}
MCPriority(c) == IF c = c1 THEN 2 ELSE 1
MCBothHaveTwo(g) == {c1, c2}

MCInit == Init /\ req[r2] = NewRequest

MCFairSpec == MCInit /\ [][Next]_vars /\ \A r \in Req : WF_vars(Goes(r))
=============================================================================
