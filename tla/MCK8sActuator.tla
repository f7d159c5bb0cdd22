--------------------------- MODULE MCK8sActuator ---------------------------
(* Instances of K8sActuator for TLC: two namespaces, the first with two      *)
(* ConfigMaps, one Deployment in each.                                       *)
EXTENDS K8sActuator, TLC

CONSTANTS c1, c2, dry, empty, m1, m2, m3, d1, d2, n1, n2

MCNamespaceOf == (m1 :> n1) @@ (m2 :> n1) @@ (m3 :> n2) @@ (d1 :> n1) @@ (d2 :> n2)
MCReadsFrom   == (d1 :> m2) @@ (d2 :> m3)

Full     == [configMaps |-> <<m1, m2, m3>>, deployments |-> <<d1, d2>>, dryRun |-> FALSE]
OneNS    == [configMaps |-> <<m2>>, deployments |-> <<d1>>, dryRun |-> FALSE]
DryOneNS == [OneNS EXCEPT !.dryRun = TRUE]
NoConfig == [configMaps |-> <<>>, deployments |-> <<d1>>, dryRun |-> FALSE]

\* One observer beside a dry run.
SoloCfg == (c1 :> Full) @@ (dry :> DryOneNS)
\* The observer, the switch Lambda with part of its targets, and a caller
\* whose ConfigMap list is empty.
DuoCfg  == (c1 :> Full) @@ (c2 :> OneNS) @@ (empty :> NoConfig)
=============================================================================
