------------------------------ MODULE MCFailback ------------------------------
(* Instances of Failback for TLC: an observer with two namespaces, the first    *)
(* with two ConfigMaps, alone or beside a caller that knows the first only.     *)
EXTENDS Failback, TLC

CONSTANTS c1, c2, m1, m2, m3, d1, d2, n1, n2

MCNamespaceOf == (m1 :> n1) @@ (m2 :> n1) @@ (m3 :> n2) @@ (d1 :> n1) @@ (d2 :> n2)
MCReadsFrom   == (d1 :> m2) @@ (d2 :> m3)
MCCfg == [c \in Callers |->
  IF c = c1
  THEN [configMaps |-> <<m1, m2, m3>>, deployments |-> <<d1, d2>>, dryRun |-> FALSE]
  ELSE [configMaps |-> <<m1, m2>>, deployments |-> <<d1>>, dryRun |-> FALSE]]
=============================================================================
