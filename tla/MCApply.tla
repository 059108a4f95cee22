------------------------------ MODULE MCApply ------------------------------
(* Three bindings: two for the same principal, role and scope on different   *)
(* resources, and between them one the planner found in place.               *)
EXTENDS Apply

CONSTANTS k1, k2, topicA, topicB

MCKey == {k1, k2}
MCPattern == {topicA, topicB}
MCKeyOf == <<k1, k2, k1>>
MCPatternsOf == <<{topicA}, {topicA}, {topicB}>>
MCSkips == {2}
MCPreexisting == {[k \in MCKey |-> IF k = k2 THEN {topicA} ELSE {}]}
=============================================================================
