----------------------------- MODULE Health_proofs -----------------------------
(***************************************************************************)
(* What a round of health evaluation says, for every set of clusters, nodes *)
(* and services and every --critical, while endpoints and nodes come and go *)
(* between its two pings.                                                   *)
(*                                                                          *)
(* The argument: the failures of a round lie between those that lasted for  *)
(* all of it and those that happened at some time of it (FaultsAreFramed).  *)
(* A probe that calls a critical endpoint unreachable is one of the second  *)
(* kind (ProbesAreTrue), a failure of the first kind has left such a probe  *)
(* or no probe of its service at all (FaultsAreSeen), and Compute looks at  *)
(* nothing else.                                                            *)
(***************************************************************************)
EXTENDS Health, FiniteSetTheorems, TLAPS

USE HealthAssumption

-----------------------------------------------------------------------------
(* The functions on a round of probes *)

\* The endpoints of a cluster are among its hosts.
LEMMA EndpointFacts ==
  /\ \A e \in Endpoints : e[1] \in Services /\ e[2] \in AllHosts /\ e = <<e[1], e[2]>>
  /\ \A c : \A e \in Deployed(c) : e \in Endpoints /\ e[2] \in Hosts[c] /\ e[2] # NoHost
  /\ \A c : Failing(c) \subseteq Deployed(c) /\ Failing(c) \subseteq broken
  /\ \A c : \A e \in Failing(c) : e[1] \in critical
<1>1. \A e \in Endpoints : e[1] \in Services /\ e[2] \in AllHosts /\ e = <<e[1], e[2]>>
  BY DEF Endpoints
<1>2. \A c : \A e \in Deployed(c) : e \in Endpoints /\ e[2] \in Hosts[c]
  BY DEF Deployed
<1>3. \A c : /\ Failing(c) \subseteq Deployed(c) /\ Failing(c) \subseteq broken
             /\ \A e \in Failing(c) : e[1] \in critical
  BY DEF Failing
<1>4. \A h \in AllHosts : h # NoHost
  OBVIOUS
<1> QED BY <1>1, <1>2, <1>3, <1>4

\* The verdict is one of three, decided by what each service was observed to be.
LEMMA VerdictCases ==
  ASSUME NEW ps
  PROVE  /\ Verdict(ps) \in {"UP", "DEGRADED", "DOWN"}
         /\ Verdict(ps) = "DOWN" <=>
              \E s \in critical : s \notin Observed(ps) \/ ~ServiceUp(ps, s)
         /\ Verdict(ps) = "UP" <=>
              /\ \A s \in critical : s \in Observed(ps) /\ ServiceUp(ps, s)
              /\ \A s \in Observed(ps) \ critical : ServiceUp(ps, s)
         /\ Verdict(ps) = "DEGRADED" <=>
              /\ \A s \in critical : s \in Observed(ps) /\ ServiceUp(ps, s)
              /\ \E s \in Observed(ps) \ critical : ~ServiceUp(ps, s)
<1>1. CASE \E s \in critical : s \notin Observed(ps) \/ ~ServiceUp(ps, s)
  <2>1. Verdict(ps) = "DOWN"
    BY <1>1 DEF Verdict
  <2> QED BY <1>1, <2>1
<1>2. CASE \A s \in critical : s \in Observed(ps) /\ ServiceUp(ps, s)
  <2>1. Verdict(ps) = IF \E s \in Observed(ps) \ critical : ~ServiceUp(ps, s)
                      THEN "DEGRADED" ELSE "UP"
    BY <1>2 DEF Verdict
  <2> QED BY <1>2, <2>1
<1> QED BY <1>1, <1>2

\* What one ping adds to the round.
LEMMA ReportFacts ==
  ASSUME TypeOK, NEW kinds \in SUBSET Services
  PROVE  /\ Reports(kinds) \subseteq Probe
         /\ \A p \in Reports(kinds) :
              /\ p.service \in kinds
              /\ p.host # NoHost => /\ p.host \in Hosts[Probed]
                                    /\ <<p.service, p.host>> \in Deployed(Probed)
                                    /\ ~p.ok => <<p.service, p.host>> \in broken
         /\ \A e \in Deployed(Probed) \cap broken : e[1] \in kinds =>
              [service |-> e[1], host |-> e[2], ok |-> FALSE] \in Reports(kinds)
<1> DEFINE Real1 == {[service |-> e[1], host |-> e[2], ok |-> e \notin broken] :
                       e \in {x \in Deployed(Probed) : x[1] \in kinds}}
           Holes == {[service |-> s, host |-> NoHost, ok |-> FALSE] :
                       s \in {k \in kinds : ~\E e \in Deployed(Probed) : e[1] = k}}
<1>1. Reports(kinds) = Real1 \cup Holes
  BY DEF Reports
<1>2. ASSUME NEW p \in Real1
      PROVE  /\ p \in Probe /\ p.service \in kinds /\ p.host \in Hosts[Probed]
             /\ <<p.service, p.host>> \in Deployed(Probed)
             /\ ~p.ok => <<p.service, p.host>> \in broken
  <2>1. PICK e \in Deployed(Probed) : /\ e[1] \in kinds
                                      /\ p = [service |-> e[1], host |-> e[2], ok |-> e \notin broken]
    BY <1>2
  <2>2. e[1] \in Services /\ e[2] \in AllHosts /\ e[2] \in Hosts[Probed] /\ e = <<e[1], e[2]>>
    BY <2>1, EndpointFacts
  <2>3. p.service = e[1] /\ p.host = e[2] /\ p.ok = (e \notin broken)
    BY <2>1
  <2>4. p \in Probe
    BY <2>1, <2>2 DEF Probe
  <2> QED BY <2>1, <2>2, <2>3, <2>4
<1>3. ASSUME NEW p \in Holes
      PROVE  p \in Probe /\ p.service \in kinds /\ p.host = NoHost
  <2>1. PICK s \in kinds : p = [service |-> s, host |-> NoHost, ok |-> FALSE]
    BY <1>3
  <2> QED BY <2>1 DEF Probe
<1>4. ASSUME NEW e \in Deployed(Probed) \cap broken, e[1] \in kinds
      PROVE  [service |-> e[1], host |-> e[2], ok |-> FALSE] \in Real1
  <2>1. (e \notin broken) = FALSE
    BY <1>4
  <2> QED BY <1>4, <2>1
<1> HIDE DEF Real1, Holes
<1> QED BY <1>1, <1>2, <1>3, <1>4

-----------------------------------------------------------------------------
(* The inductive invariant *)

LEMMA HealthInit == Init => HealthInv
<1> SUFFICES ASSUME Init PROVE HealthInv
  OBVIOUS
<1>1. TypeOK
  BY DEF Init, TypeOK, NoBase, NoHost
<1> QED BY <1>1 DEF Init, HealthInv, ProbesAreTrue, FaultsAreSeen, FaultsAreFramed, BaselineIsLogged

Stages == SecondStages \cup {"idle", "decide", "kv", "cluster", "compute"}

\* What a ping adds is true of the round, and shows what has failed since it began.
LEMMA PingStep ==
  ASSUME HealthInv, NEW from \in Stages, NEW to \in Stages, NEW kinds \in SUBSET Services,
         Ping(from, kinds, to),
         \/ from = "kv" /\ to = "cluster" /\ kinds = {"kv"}
         \/ from = "secondKV" /\ to = "secondCluster" /\ kinds = {"kv"}
         \/ from = "cluster" /\ to = "compute" /\ kinds = Services \ {"kv"}
         \/ from = "secondCluster" /\ to = "secondCompute" /\ kinds = Services \ {"kv"}
  PROVE  HealthInv'
<1>0. TypeOK /\ ProbesAreTrue /\ FaultsAreSeen /\ FaultsAreFramed /\ BaselineIsLogged
  BY DEF HealthInv
<1>1. /\ stage = from /\ stage' = to
      /\ UNCHANGED <<members, broken, critical, active, status, gauge, lastHosts, logged,
                     everBroken, alwaysBroken>>
      /\ probes' = probes \cup Reports(kinds) \/ probes' = probes
  BY DEF Ping, world, exports, history
<1>2. /\ Probed' = Probed /\ Pinged' = Pinged \cup kinds /\ Pinged \cap kinds = {}
      /\ Pinged' \subseteq Services
  BY <1>1 DEF Probed, Pinged, SecondStages
<1>3. /\ Reports(kinds) \subseteq Probe
      /\ \A p \in Reports(kinds) :
           /\ p.service \in kinds
           /\ p.host # NoHost => /\ p.host \in Hosts[Probed]
                                 /\ <<p.service, p.host>> \in Deployed(Probed)
                                 /\ ~p.ok => <<p.service, p.host>> \in broken
      /\ \A e \in Deployed(Probed) \cap broken : e[1] \in kinds =>
           [service |-> e[1], host |-> e[2], ok |-> FALSE] \in Reports(kinds)
  BY <1>0, ReportFacts
<1>4. TypeOK'
  BY <1>0, <1>1, <1>3 DEF TypeOK, Stages
<1>5. alwaysBroken \subseteq Failing(Probed) /\ Failing(Probed) \subseteq everBroken
  BY <1>0, <1>1 DEF FaultsAreFramed
<1>6. FaultsAreFramed'
  <2>1. Failing(Probed)' = Failing(Probed)
    BY <1>1, <1>2 DEF Failing, Deployed, Endpoints
  <2> QED BY <1>1, <1>5, <2>1 DEF FaultsAreFramed
<1>7. ProbesAreTrue'
  <2> SUFFICES ASSUME NEW p \in probes'
               PROVE  /\ p.service \in Pinged'
                      /\ p.host # NoHost =>
                           /\ p.host \in Hosts[Probed]
                           /\ ~p.ok /\ p.service \in critical => <<p.service, p.host>> \in everBroken
    BY <1>1, <1>2 DEF ProbesAreTrue
  <2>1. CASE p \in probes
    BY <1>0, <1>2, <2>1 DEF ProbesAreTrue
  <2>2. CASE p \in Reports(kinds)
    <3>1. p.service \in Pinged'
      BY <1>2, <1>3, <2>2
    <3>2. ASSUME p.host # NoHost, ~p.ok, p.service \in critical
          PROVE  <<p.service, p.host>> \in Failing(Probed)
      <4>1. <<p.service, p.host>> \in broken \cap Deployed(Probed)
        BY <1>3, <2>2, <3>2
      <4> QED BY <3>2, <4>1 DEF Failing
    <3> QED BY <1>3, <1>5, <2>2, <3>1, <3>2
  <2> QED BY <1>1, <2>1, <2>2
<1>8. FaultsAreSeen'
  <2> SUFFICES ASSUME NEW e \in alwaysBroken, e[1] \in Pinged'
               PROVE  \/ [service |-> e[1], host |-> e[2], ok |-> FALSE] \in probes'
                      \/ \A p \in probes' : p.service # e[1]
    BY <1>1 DEF FaultsAreSeen
  <2>1. CASE e[1] \in Pinged
    <3>1. \A p \in Reports(kinds) : p.service # e[1]
      BY <1>2, <1>3, <2>1
    <3> QED BY <1>0, <1>1, <2>1, <3>1 DEF FaultsAreSeen
  <2>2. CASE e[1] \in kinds
    <3>1. CASE probes' = probes
      BY <1>0, <1>2, <2>2, <3>1 DEF ProbesAreTrue
    <3>2. CASE probes' = probes \cup Reports(kinds)
      <4>1. e \in Deployed(Probed) \cap broken
        BY <1>5, EndpointFacts
      <4> QED BY <1>3, <2>2, <3>2, <4>1
    <3> QED BY <1>1, <3>1, <3>2
  <2> QED BY <1>2, <2>1, <2>2
<1>9. BaselineIsLogged'
  BY <1>0, <1>1 DEF BaselineIsLogged
<1> QED BY <1>4, <1>6, <1>7, <1>8, <1>9 DEF HealthInv

\* A round begins with what fails now, and without probes.
LEMMA StartStep ==
  ASSUME HealthInv, StartRound \/ StartSecondRound
  PROVE  HealthInv'
<1>0. TypeOK /\ ProbesAreTrue /\ FaultsAreSeen /\ FaultsAreFramed /\ BaselineIsLogged
  BY DEF HealthInv
<1>1. /\ stage \in {"idle", "decide"}
      /\ UNCHANGED <<members, broken, critical, active, probes, status, gauge, lastHosts, logged>>
  BY DEF StartRound, StartSecondRound, world, exports
<1>2. Pinged = {} /\ Pinged' = {} /\ stage' \in {"kv", "secondKV"}
  BY <1>1 DEF Pinged, StartRound, StartSecondRound
<1>3. everBroken' = Failing(Probed)' /\ alwaysBroken' = Failing(Probed)'
  <2>1. CASE StartRound
    <3>1. Probed' = active
      BY <1>1, <2>1 DEF StartRound, Probed, SecondStages
    <3>2. Failing(Probed)' = Failing(active)
      BY <1>1, <3>1 DEF Failing, Deployed, Endpoints
    <3> QED BY <2>1, <3>2 DEF StartRound
  <2>2. CASE StartSecondRound
    <3>1. Probed' = Second
      BY <2>2 DEF StartSecondRound, Probed, SecondStages
    <3>2. Failing(Probed)' = Failing(Second)
      BY <1>1, <3>1 DEF Failing, Deployed, Endpoints
    <3> QED BY <2>2, <3>2 DEF StartSecondRound
  <2> QED BY <2>1, <2>2
<1>4. Failing(Probed)' \subseteq Endpoints
  BY DEF Failing, Deployed
<1>5. TypeOK'
  BY <1>0, <1>1, <1>2, <1>3, <1>4 DEF TypeOK, SecondStages
<1>6. probes' = {}
  BY <1>0, <1>1, <1>2 DEF ProbesAreTrue
<1>7. ProbesAreTrue' /\ FaultsAreSeen'
  BY <1>2, <1>6 DEF ProbesAreTrue, FaultsAreSeen
<1>8. FaultsAreFramed'
  BY <1>2, <1>3 DEF FaultsAreFramed
<1>9. BaselineIsLogged'
  BY <1>0, <1>1 DEF BaselineIsLogged
<1> QED BY <1>5, <1>7, <1>8, <1>9 DEF HealthInv

\* The hosts of a complete round are hosts of the probed cluster.
LEMMA HostSetFacts ==
  ASSUME HealthInv
  PROVE  /\ HostSet(probes) \subseteq Hosts[Probed] /\ HostSet(probes) \subseteq AllHosts
         /\ HostSet(probes) # NoBase
<1>1. \A p \in probes : p.host # NoHost => p.host \in Hosts[Probed] /\ p.host \in AllHosts
  BY DEF HealthInv, ProbesAreTrue, TypeOK, Probe
<1>2. NoHost \notin HostSet(probes)
  BY DEF HostSet, Real
<1> QED BY <1>1, <1>2 DEF HostSet, Real, NoBase

\* The log follows the map: what Evaluate logs leaves it at the current hosts.
LEMMA LogFacts ==
  ASSUME HealthInv, stage = "compute", LogMap(HostSet(probes))
  PROVE  /\ logged' = HostSet(probes) /\ lastHosts' = HostSet(probes)
         /\ HostSet(probes) \subseteq Hosts[active]
         /\ Added(HostSet(probes)) \cup Removed(HostSet(probes)) \subseteq Hosts[active]
         /\ Removed(HostSet(probes)) \subseteq logged
         /\ Added(HostSet(probes)) \cap logged = {}
<1> DEFINE cur == HostSet(probes)
<1>1. cur \subseteq Hosts[active]
  BY HostSetFacts DEF Probed, SecondStages
<1>2. lastHosts # NoBase => lastHosts \subseteq Hosts[active] /\ logged = lastHosts
  BY DEF HealthInv, BaselineIsLogged
<1> HIDE DEF cur
<1>3. CASE lastHosts = NoBase
  BY <1>1, <1>3 DEF LogMap, Added, Removed, cur
<1>4. CASE lastHosts # NoBase
  <2>1. Added(cur) = cur \ lastHosts /\ Removed(cur) = lastHosts \ cur
    BY <1>4 DEF Added, Removed
  <2>2. logged' = (logged \ Removed(cur)) \cup Added(cur) /\ lastHosts' = cur
    BY <1>4 DEF LogMap, cur
  <2>3. logged' = cur
    BY <1>2, <1>4, <2>1, <2>2
  <2> QED BY <1>1, <1>2, <1>4, <2>1, <2>2, <2>3 DEF cur
<1> QED BY <1>3, <1>4

\* A round that is over leaves no probes and no history.
LEMMA OverStep ==
  ASSUME HealthInv, Evaluate \/ HoldSwitch \/ FollowSecondary
  PROVE  HealthInv'
<1>0. TypeOK /\ BaselineIsLogged
  BY DEF HealthInv
<1>1. /\ stage' \in {"idle", "decide"} /\ probes' = {} /\ everBroken' = {} /\ alwaysBroken' = {}
      /\ UNCHANGED <<members, broken, critical>>
  BY DEF Evaluate, HoldSwitch, FollowSecondary, RoundOver, world
<1>2. ProbesAreTrue' /\ FaultsAreSeen' /\ FaultsAreFramed'
  BY <1>1 DEF ProbesAreTrue, FaultsAreSeen, FaultsAreFramed
<1>3. CASE Evaluate
  <2>1. /\ logged' = HostSet(probes) /\ lastHosts' = HostSet(probes)
        /\ HostSet(probes) \subseteq Hosts[active] /\ active' = active
    BY <1>3, LogFacts DEF Evaluate
  <2>2. status' \in {"UP", "DEGRADED", "DOWN"}
    BY <1>3, VerdictCases DEF Evaluate
  <2>3. gauge' \in [Services -> {"none", "0", "1"}]
    BY <1>0, <1>3 DEF Evaluate, GaugeAfter, TypeOK
  <2>4. TypeOK'
    BY <1>0, <1>1, <2>1, <2>2, <2>3, HostSetFacts DEF TypeOK
  <2>5. BaselineIsLogged'
    BY <2>1 DEF BaselineIsLogged
  <2> QED BY <1>2, <2>4, <2>5 DEF HealthInv
<1>4. CASE HoldSwitch
  <2>1. UNCHANGED <<active, status, gauge, lastHosts, logged>>
    BY <1>4 DEF HoldSwitch, exports
  <2> QED BY <1>0, <1>1, <1>2, <2>1 DEF HealthInv, TypeOK, BaselineIsLogged
<1>5. CASE FollowSecondary
  <2>1. active' = Second /\ lastHosts' = NoBase /\ UNCHANGED <<status, gauge, logged>>
    BY <1>5 DEF FollowSecondary
  <2> QED BY <1>0, <1>1, <1>2, <2>1 DEF HealthInv, TypeOK, BaselineIsLogged
<1> QED BY <1>3, <1>4, <1>5

\* Whatever the clusters do, the history keeps framing it.
LEMMA FlipStep ==
  ASSUME HealthInv, EndpointFlips \/ NodeFlips
  PROVE  HealthInv'
<1>0. TypeOK /\ ProbesAreTrue /\ FaultsAreSeen /\ FaultsAreFramed /\ BaselineIsLogged
  BY DEF HealthInv
<1>1. /\ UNCHANGED <<critical, active, stage, probes, status, gauge, lastHosts, logged>>
      /\ Remember
  BY DEF EndpointFlips, NodeFlips, exports
<1>2. members' \subseteq AllHosts /\ broken' \subseteq Endpoints
  BY <1>0 DEF EndpointFlips, NodeFlips, TypeOK
<1>3. Probed' = Probed /\ Pinged' = Pinged
  BY <1>1 DEF Probed, Pinged
<1>4. alwaysBroken' = alwaysBroken \cap Failing(Probed)'
  BY <1>1 DEF Remember
<1>5. stage \notin {"idle", "decide"} => everBroken' = everBroken \cup Failing(Probed)'
  BY <1>1 DEF Remember
<1>6. everBroken' \subseteq Endpoints /\ alwaysBroken' \subseteq Endpoints
  <2>1. Failing(Probed)' \subseteq Endpoints
    BY DEF Failing, Deployed
  <2>2. everBroken' \in {{}, everBroken \cup Failing(Probed)'}
    BY <1>1 DEF Remember
  <2> QED BY <1>0, <1>4, <2>1, <2>2 DEF TypeOK
<1>7. TypeOK'
  BY <1>0, <1>1, <1>2, <1>6 DEF TypeOK
<1>8. ProbesAreTrue'
  <2>1. stage \in {"idle", "decide"} => probes = {}
    BY <1>0 DEF ProbesAreTrue, Pinged
  <2> QED BY <1>0, <1>1, <1>3, <1>5, <2>1 DEF ProbesAreTrue
<1>9. FaultsAreSeen'
  BY <1>0, <1>1, <1>3, <1>4 DEF FaultsAreSeen
<1>10. FaultsAreFramed'
  BY <1>0, <1>1, <1>4, <1>5 DEF FaultsAreFramed
<1>11. BaselineIsLogged'
  BY <1>0, <1>1 DEF BaselineIsLogged
<1> QED BY <1>7, <1>8, <1>9, <1>10, <1>11 DEF HealthInv

LEMMA HealthStep == HealthInv /\ [Next]_vars => HealthInv'
<1> SUFFICES ASSUME HealthInv, [Next]_vars PROVE HealthInv'
  OBVIOUS
<1>1. CASE UNCHANGED vars
  BY <1>1 DEF vars, world, exports, history, HealthInv, TypeOK, ProbesAreTrue, FaultsAreSeen,
     FaultsAreFramed, BaselineIsLogged, Pinged, Probed, Failing, Deployed
<1>2. CASE PingKV
  BY <1>2, PingStep DEF PingKV, Stages, SecondStages
<1>3. CASE PingCluster
  BY <1>3, PingStep DEF PingCluster, Stages, SecondStages
<1> QED BY <1>1, <1>2, <1>3, StartStep, OverStep, FlipStep DEF Next

\* Every reachable state of the evaluation satisfies the strengthened invariant.
THEOREM HealthInvariant == Spec => []HealthInv
  BY HealthInit, HealthStep, PTL DEF Spec

-----------------------------------------------------------------------------
(* What the verdicts say *)

\* A complete round is DOWN if a critical endpoint failed for all of it.
LEMMA LastingFault ==
  ASSUME HealthInv, stage \in {"compute", "secondCompute"}, alwaysBroken # {}
  PROVE  Verdict(probes) = "DOWN"
<1>1. PICK e \in alwaysBroken : TRUE
  OBVIOUS
<1>2. e \in Failing(Probed)
  BY DEF HealthInv, FaultsAreFramed
<1>3. e[1] \in critical /\ e \in Deployed(Probed) /\ e \in Endpoints
  BY <1>2, EndpointFacts
<1>4. e[1] \in Services /\ e[2] # NoHost
  BY <1>3, EndpointFacts
<1>5. Pinged = Services
  BY DEF Pinged
<1>6. CASE [service |-> e[1], host |-> e[2], ok |-> FALSE] \in probes
  <2>1. ~ServiceUp(probes, e[1])
    BY <1>4, <1>6 DEF ServiceUp, Real
  <2> QED BY <1>3, <2>1, VerdictCases
<1>7. CASE \A p \in probes : p.service # e[1]
  <2>1. e[1] \notin Observed(probes)
    BY <1>7 DEF Observed, Real
  <2> QED BY <1>3, <2>1, VerdictCases
<1> QED BY <1>4, <1>5, <1>6, <1>7 DEF HealthInv, FaultsAreSeen

\* A complete round that is DOWN has a cause among the critical services.
LEMMA DownCause ==
  ASSUME HealthInv, Verdict(probes) = "DOWN"
  PROVE  \E s \in critical : \/ \E e \in everBroken : e[1] = s
                             \/ \A p \in probes : p.service = s => p.host = NoHost
<1>1. PICK s \in critical : s \notin Observed(probes) \/ ~ServiceUp(probes, s)
  BY VerdictCases
<1>2. CASE s \notin Observed(probes)
  BY <1>2 DEF Observed, Real
<1>3. CASE ~ServiceUp(probes, s)
  <2>1. PICK p \in probes : p.host # NoHost /\ p.service = s /\ ~p.ok
    BY <1>3 DEF ServiceUp, Real
  <2>2. <<p.service, p.host>> \in everBroken
    BY <2>1 DEF HealthInv, ProbesAreTrue
  <2> QED BY <2>1, <2>2
<1> QED BY <1>1, <1>2, <1>3

\* A critical endpoint that fails for the whole round makes it DOWN.
THEOREM LastingFaultsAreDown == Spec => LastingFaultIsDown
<1>1. HealthInv /\ [Next]_vars => (Evaluate /\ alwaysBroken # {} => status' = "DOWN")
  BY LastingFault DEF Evaluate
<1> QED BY <1>1, HealthInvariant, PTL DEF Spec, LastingFaultIsDown

\* DOWN has a cause: a critical endpoint that failed, or one that was not reported.
THEOREM DownIsCaused == Spec => DownHasCause
<1>1. ASSUME HealthInv, Evaluate, status' = "DOWN"
      PROVE  \E s \in critical : \/ \E e \in everBroken : e[1] = s
                                 \/ \A p \in probes : p.service = s => p.host = NoHost
  BY <1>1, DownCause DEF Evaluate
<1>2. HealthInv /\ [Next]_vars =>
        (Evaluate /\ status' = "DOWN" =>
           \E s \in critical :
             \/ \E e \in everBroken : e[1] = s
             \/ \A p \in probes : p.service = s => p.host = NoHost)
  BY <1>1
<1> QED BY <1>2, HealthInvariant, PTL DEF Spec, DownHasCause

\* The changes of the map that are logged are news about the probed cluster.
THEOREM DeltasAreTrue == Spec => DeltasAreNews
<1>1. HealthInv /\ [Next]_vars =>
        (Evaluate => LET cur == HostSet(probes)
                     IN  /\ Added(cur) \cup Removed(cur) \subseteq Hosts[active]
                         /\ Removed(cur) \subseteq logged
                         /\ Added(cur) \cap logged = {}
                         /\ logged' = cur)
  BY LogFacts DEF Evaluate
<1> QED BY <1>1, HealthInvariant, PTL DEF Spec, DeltasAreNews

\* The gauges never deny the verdict.
THEOREM GaugesAgree == Spec => GaugesExplainVerdict
<1>1. ASSUME HealthInv, Evaluate
      PROVE  /\ status' # "DOWN" => \A s \in critical : gauge'[s] = "1"
             /\ status' = "DEGRADED" => \E s \in Services \ critical : gauge'[s] = "0"
  <2>1. status' = Verdict(probes) /\ gauge' = GaugeAfter(probes)
    BY <1>1 DEF Evaluate
  <2>2. Observed(probes) \subseteq Services
    BY <1>1 DEF HealthInv, TypeOK, Observed, Real, Probe
  <2>3. \A s \in Observed(probes) : gauge'[s] = IF ServiceUp(probes, s) THEN "1" ELSE "0"
    BY <2>1, <2>2 DEF GaugeAfter
  <2> QED BY <2>1, <2>2, <2>3, VerdictCases
<1>2. HealthInv /\ [Next]_vars =>
        (Evaluate =>
           /\ status' # "DOWN" => \A s \in critical : gauge'[s] = "1"
           /\ status' = "DEGRADED" => \E s \in Services \ critical : gauge'[s] = "0")
  BY <1>1
<1> QED BY <1>2, HealthInvariant, PTL DEF Spec, GaugesExplainVerdict

\* The loop leaves the primary only for a secondary that answered for every critical
\* service and on which none of them failed for the whole round.
THEOREM LeavesForBetter == Spec => NeverLeavesForWorse
<1>1. ASSUME HealthInv, FollowSecondary
      PROVE  /\ alwaysBroken = {}
             /\ \A s \in critical :
                  \E p \in probes : p.service = s /\ p.host \in Hosts[Second] /\ p.ok
  <2>1. stage = "secondCompute" /\ Verdict(probes) # "DOWN" /\ Probed = Second
    BY <1>1 DEF FollowSecondary, SecondaryReady, Probed, SecondStages
  <2>2. alwaysBroken = {}
    BY <1>1, <2>1, LastingFault
  <2>3. ASSUME NEW s \in critical
        PROVE  \E p \in probes : p.service = s /\ p.host \in Hosts[Second] /\ p.ok
    <3>1. s \in Observed(probes) /\ ServiceUp(probes, s)
      BY <2>1, VerdictCases
    <3>2. PICK p \in probes : p.host # NoHost /\ p.service = s /\ p.ok
      BY <3>1 DEF Observed, ServiceUp, Real
    <3>3. p.host \in Hosts[Second]
      BY <1>1, <2>1, <3>2 DEF HealthInv, ProbesAreTrue
    <3> QED BY <3>2, <3>3
  <2> QED BY <2>2, <2>3
<1>2. [Next]_vars /\ active' # active => FollowSecondary
  BY DEF Next, vars, StartRound, StartSecondRound, PingKV, PingCluster, Ping, Evaluate, HoldSwitch,
     EndpointFlips, NodeFlips
<1>3. HealthInv /\ [Next]_vars =>
        (active' # active =>
           /\ alwaysBroken = {}
           /\ \A s \in critical :
                \E p \in probes : p.service = s /\ p.host \in Hosts[Second] /\ p.ok)
  BY <1>1, <1>2
<1> QED BY <1>3, HealthInvariant, PTL DEF Spec, NeverLeavesForWorse

\* As many healthy nodes as nodes means that no endpoint of the round is unreachable.
LEMMA SummaryFacts ==
  ASSUME NEW ps, IsFiniteSet(HostSet(ps))
  PROVE  NodeSummary(ps).healthy = NodeSummary(ps).total <=>
           \A p \in ps : p.host # NoHost => p.ok
<1> DEFINE sound == {h \in HostSet(ps) : Unreachable(ps, h) = {}}
<1>1. /\ NodeSummary(ps).healthy = Cardinality(sound)
      /\ NodeSummary(ps).total = Cardinality(HostSet(ps))
  BY DEF NodeSummary
<1>2. Cardinality(sound) = Cardinality(HostSet(ps)) <=> sound = HostSet(ps)
  <2>1. sound \subseteq HostSet(ps)
    OBVIOUS
  <2> HIDE DEF sound
  <2> QED BY <2>1, FS_Subset
<1>3. sound = HostSet(ps) <=> \A p \in ps : p.host # NoHost => p.ok
  <2>1. ASSUME sound = HostSet(ps), NEW p \in ps, p.host # NoHost
        PROVE  p.ok
    <3>1. p.host \in HostSet(ps)
      BY <2>1 DEF HostSet, Real
    <3>2. Unreachable(ps, p.host) = {}
      BY <2>1, <3>1
    <3> QED BY <2>1, <3>2 DEF Unreachable, Real
  <2>2. ASSUME \A p \in ps : p.host # NoHost => p.ok
        PROVE  sound = HostSet(ps)
    BY <2>2 DEF HostSet, Unreachable, Real
  <2> QED BY <2>1, <2>2
<1> QED BY <1>1, <1>2, <1>3

\* Compute and ByNode read the same round one way: over any probes of finitely many
\* hosts the verdict is UP exactly when every critical service was observed and
\* every node is healthy (health.go:14-68, node.go:20-61).
THEOREM ComputeAgreesWithByNode ==
  ASSUME NEW ps, IsFiniteSet(HostSet(ps))
  PROVE  Verdict(ps) = "UP" <=> /\ critical \subseteq Observed(ps)
                                /\ NodeSummary(ps).healthy = NodeSummary(ps).total
<1>1. Verdict(ps) = "UP" <=> /\ \A s \in critical : s \in Observed(ps) /\ ServiceUp(ps, s)
                             /\ \A s \in Observed(ps) \ critical : ServiceUp(ps, s)
  BY VerdictCases
<1>2. (\A s \in Observed(ps) : ServiceUp(ps, s)) <=> \A p \in ps : p.host # NoHost => p.ok
  BY DEF Observed, ServiceUp, Real
<1>3. Verdict(ps) = "UP" <=> /\ critical \subseteq Observed(ps)
                             /\ \A s \in Observed(ps) : ServiceUp(ps, s)
  BY <1>1
<1> QED BY <1>2, <1>3, SummaryFacts

\* qs reports no service that ps does not, and shows every fault of ps in a service
\* that it reports.
NoBetter(qs, ps) ==
  /\ Observed(qs) \subseteq Observed(ps)
  /\ \A p \in Real(ps) : ~p.ok /\ p.service \in Observed(qs) =>
       \E q \in Real(qs) : q.service = p.service /\ ~q.ok

\* Compute fails closed: an endpoint more that is broken, a node whose report is lost or
\* a ping that fails as a whole never turns DOWN into anything else.  UP it can feign, by
\* losing all reports of a service that is not critical (health.go:31-68).
THEOREM ComputeFailsClosed ==
  ASSUME NEW ps, NEW qs, NoBetter(qs, ps)
  PROVE  /\ Verdict(ps) = "DOWN" => Verdict(qs) = "DOWN"
         /\ Observed(qs) = Observed(ps) /\ Verdict(qs) = "UP" => Verdict(ps) = "UP"
<1>1. ASSUME NEW s \in Observed(qs), ServiceUp(qs, s) PROVE ServiceUp(ps, s)
  BY <1>1 DEF NoBetter, ServiceUp
<1>2. Observed(qs) \subseteq Observed(ps)
  BY DEF NoBetter
<1>3. ASSUME Verdict(ps) = "DOWN" PROVE Verdict(qs) = "DOWN"
  <2>1. PICK s \in critical : s \notin Observed(ps) \/ ~ServiceUp(ps, s)
    BY <1>3, VerdictCases
  <2>2. s \notin Observed(qs) \/ ~ServiceUp(qs, s)
    BY <1>1, <1>2, <2>1
  <2> QED BY <2>2, VerdictCases
<1>4. ASSUME Observed(qs) = Observed(ps), Verdict(qs) = "UP" PROVE Verdict(ps) = "UP"
  <2>1. /\ \A s \in critical : s \in Observed(qs) /\ ServiceUp(qs, s)
        /\ \A s \in Observed(qs) \ critical : ServiceUp(qs, s)
    BY <1>4, VerdictCases
  <2>2. /\ \A s \in critical : s \in Observed(ps) /\ ServiceUp(ps, s)
        /\ \A s \in Observed(ps) \ critical : ServiceUp(ps, s)
    BY <1>1, <1>4, <2>1
  <2> QED BY <2>2, VerdictCases
<1> QED BY <1>3, <1>4

\* The view by service and the view by node agree.
THEOREM ViewsAreOne == Spec => ViewsAgree
<1>1. ASSUME HealthInv, Evaluate
      PROVE  status' = "UP" <=> /\ critical \subseteq Observed(probes)
                                /\ NodeSummary(probes).healthy = NodeSummary(probes).total
  <2>1. IsFiniteSet(HostSet(probes))
    BY <1>1, HostSetFacts, FS_Subset
  <2> QED BY <1>1, <2>1, ComputeAgreesWithByNode DEF Evaluate
<1>2. HealthInv /\ [Next]_vars =>
        (Evaluate =>
           (status' = "UP" <=> /\ critical \subseteq Observed(probes)
                               /\ NodeSummary(probes).healthy = NodeSummary(probes).total))
  BY <1>1
<1> QED BY <1>2, HealthInvariant, PTL DEF Spec, ViewsAgree
=============================================================================
