------------------------------- MODULE MCHealth -------------------------------
(* Instances of Health for TLC: two primary nodes, one of them with query, and  *)
(* one secondary node.                                                          *)
EXTENDS Health, TLC

MCHosts == ("first" :> {"p1", "p2"}) @@ ("second" :> {"s1"})
MCRuns  == ("p1" :> {"kv"}) @@ ("p2" :> {"kv", "query"}) @@ ("s1" :> {"kv"})
=============================================================================
