----------------------------- MODULE MCObserver -----------------------------
(* Instances of Observer for TLC. *)
EXTENDS Observer, TLC

CONSTANTS o1, o2, m1, m2, d1, d2, n1, n2

\* Two namespaces with a ConfigMap and a Deployment each.
MCNamespaceOf == (m1 :> n1) @@ (m2 :> n2) @@ (d1 :> n1) @@ (d2 :> n2)
MCReadsFrom   == (d1 :> m1) @@ (d2 :> m2)
BothConfigMaps == <<m1, m2>>
BothDeployments == <<d1, d2>>

\* One namespace.
OneNamespaceOf == (m1 :> n1) @@ (d1 :> n1)
OneReadsFrom   == (d1 :> m1)
OneConfigMap   == <<m1>>
OneDeployment  == <<d1>>

\* --actuators k8s,webhook; k8s alone; webhook alone; and a dry run.
Both    == [k8s |-> TRUE, webhook |-> TRUE, dryRun |-> FALSE]
K8s     == [Both EXCEPT !.webhook = FALSE]
Webhook == [Both EXCEPT !.k8s = FALSE]
Dry     == [Both EXCEPT !.dryRun = TRUE]

AllModes == {Both, Webhook, Dry}
K8sMode  == {K8s}
BothMode == {Both}

\* The observers are interchangeable.
SwapObservers == Permutations({o1, o2})
=============================================================================
