------------------------------- MODULE MCLambda -------------------------------
(* Instances of Lambda for TLC: two deliveries, one namespace with a          *)
(* Deployment and two ConfigMaps.                                             *)
EXTENDS Lambda, TLC

CONSTANTS c1, c2, m1, m2, d1, n1

MCNamespaceOf == [x \in CMs \cup Deps |-> n1]
MCReadsFrom   == d1 :> m1
MCCfg == [c \in Callers |->
           [configMaps |-> <<m2, m1>>, deployments |-> <<d1>>, dryRun |-> FALSE]]

MCEvents == {NotJSON, <<NotJSON>>, <<>>, <<"ALARM">>, <<"OK">>, <<"INSUFFICIENT_DATA">>}
=============================================================================
