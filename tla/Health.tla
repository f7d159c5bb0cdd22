-------------------------------- MODULE Health --------------------------------
(***************************************************************************)
(* One round of health evaluation as the poll loop does it: the prober pings *)
(* the active cluster twice (KV through the bucket, then the cluster-level   *)
(* services), Compute turns the endpoints into a verdict, ByNode into a view *)
(* per node, and DiffHosts compares the hosts with those of the last round   *)
(* (pkg/svchealth, main.go:343-392).  The cluster is external: nodes join    *)
(* and leave, and endpoints come and go, also between the two pings.         *)
(***************************************************************************)
EXTENDS Naturals, FiniteSets

CONSTANTS
  Services,   \* what is pinged; "kv" is one of them
  Criticals,  \* values --critical may have, split at its commas
  Clusters,   \* the primary first probed, the secondary followed after a switch
  Hosts,      \* Hosts[c]: the nodes cluster c can have
  Runs,       \* Runs[h]: the services deployed on node h
  First, Second  \* the primary and the secondary

AllHosts == UNION {Hosts[c] : c \in Clusters}
NoHost   == "none"    \* the empty Remote of a service without a deployed node
NoBase   == {NoHost}  \* lastHosts is nil

ASSUME HealthAssumption ==
  /\ "kv" \in Services
  /\ First \in Clusters /\ Second \in Clusters /\ First # Second
  /\ Hosts[First] \cap Hosts[Second] = {}
  /\ IsFiniteSet(AllHosts) /\ NoHost \notin AllHosts

VARIABLES
  members,   \* nodes in the cluster maps (external)
  broken,    \* endpoints that do not answer, <<service, host>> (external)
  critical,  \* --critical of this process; nothing checks that it names services
  active,    \* the cluster activeProber reads
  stage,     \* "idle", "kv" or "cluster": the next ping; "compute"; "decide" on a
             \* switch, and the same stages for the secondary if one is required
  probes,    \* the endpoints reported so far in this round
  status,    \* the verdict of the last round
  gauge,     \* observer_service_up of each service
  lastHosts, \* the baseline of the cluster-map delta
  logged,    \* the map a reader of the log knows (history)
  everBroken, alwaysBroken \* critical endpoints of the probed cluster that failed at some time,
                           \* all the time of the round (history)

history == <<everBroken, alwaysBroken>>
world   == <<members, broken>>
exports == <<status, gauge, lastHosts, logged>>
vars    == <<world, critical, active, stage, probes, exports, history>>

Endpoints == {e \in Services \X AllHosts : e[1] \in Runs[e[2]]}
Deployed(c) == {e \in Endpoints : e[2] \in members \cap Hosts[c]}
\* The endpoints whose failure matters to a verdict DOWN.
Failing(c) == {e \in broken \cap Deployed(c) : e[1] \in critical}

SecondStages == {"secondKV", "secondCluster", "secondCompute"}
Probed == IF stage \in SecondStages THEN Second ELSE active

Probe == [service : Services, host : AllHosts \cup {NoHost}, ok : BOOLEAN]

TypeOK ==
  /\ members \subseteq AllHosts /\ broken \subseteq Endpoints
  /\ critical \in Criticals /\ active \in Clusters
  /\ stage \in SecondStages \cup {"idle", "decide", "kv", "cluster", "compute"}
  /\ probes \subseteq Probe
  /\ status \in {"", "UP", "DEGRADED", "DOWN"}
  /\ gauge \in [Services -> {"none", "0", "1"}]
  /\ lastHosts \in (SUBSET AllHosts) \cup {NoBase}
  /\ logged \subseteq AllHosts
  /\ everBroken \subseteq Endpoints /\ alwaysBroken \subseteq Endpoints

Init ==
  /\ members = AllHosts
  /\ broken = {}
  /\ critical \in Criticals
  /\ active = First
  /\ stage = "idle"
  /\ probes = {}
  /\ status = ""
  /\ gauge = [s \in Services |-> "none"]
  /\ lastHosts = NoBase
  /\ logged = {}
  /\ everBroken = {} /\ alwaysBroken = {}

-----------------------------------------------------------------------------
(* GocbProber.Probe *)

\* The report of a ping for the services in kinds: one entry per endpoint in the
\* cluster map, and a placeholder for a service no node runs.
Reports(kinds) ==
  {[service |-> e[1], host |-> e[2], ok |-> e \notin broken] :
     e \in {x \in Deployed(Probed) : x[1] \in kinds}}
  \cup {[service |-> s, host |-> NoHost, ok |-> FALSE] :
     s \in {k \in kinds : ~\E e \in Deployed(Probed) : e[1] = k}}

StartRound ==
  /\ stage \in {"idle", "decide"}
  /\ stage' = "kv"
  /\ everBroken' = Failing(active) /\ alwaysBroken' = Failing(active)
  /\ UNCHANGED <<world, critical, active, probes, exports>>

\* A switch is required (when, is the subject of StateMachine).
StartSecondRound ==
  /\ stage = "decide"
  /\ stage' = "secondKV"
  /\ everBroken' = Failing(Second) /\ alwaysBroken' = Failing(Second)
  /\ UNCHANGED <<world, critical, active, probes, exports>>

\* A ping that returns an error contributes nothing, and the round goes on.
Ping(from, kinds, to) ==
  /\ stage = from
  /\ stage' = to
  /\ \/ probes' = probes \cup Reports(kinds)
     \/ UNCHANGED probes
  /\ UNCHANGED <<world, critical, active, exports, history>>

PingKV      == Ping("kv", {"kv"}, "cluster") \/ Ping("secondKV", {"kv"}, "secondCluster")
PingCluster == \/ Ping("cluster", Services \ {"kv"}, "compute")
               \/ Ping("secondCluster", Services \ {"kv"}, "secondCompute")

-----------------------------------------------------------------------------
(* Compute, ByNode, NodeSummary, HostSet, DiffHosts on a round of probes *)

Real_all(ps) == ps
Real(ps) == {p \in ps : p.host # NoHost}   \* placeholders are dropped

Observed(ps) == {p.service : p \in Real(ps)}

\* A service is UP only if all its endpoints are reachable.
ServiceUp_any(ps, s) == \E p \in Real(ps) : p.service = s /\ p.ok
ServiceUp(ps, s) == \A p \in Real(ps) : p.service = s => p.ok

Verdict_criticalOnly(ps) ==
  IF \E s \in critical : s \notin Observed(ps) \/ ~ServiceUp(ps, s) THEN "DOWN" ELSE "UP"
Verdict_allCritical(ps) ==
  IF \E s \in Observed(ps) \cup critical : s \notin Observed(ps) \/ ~ServiceUp(ps, s)
  THEN "DOWN" ELSE "UP"
Verdict(ps) ==
  CASE \E s \in critical : s \notin Observed(ps) \/ ~ServiceUp(ps, s) -> "DOWN"
    [] \A s \in critical : s \in Observed(ps) /\ ServiceUp(ps, s) ->
         IF \E s \in Observed(ps) \ critical : ~ServiceUp(ps, s) THEN "DEGRADED" ELSE "UP"

HostSet(ps) == {p.host : p \in Real(ps)}
Unreachable(ps, h) == {p.service : p \in {q \in Real(ps) : q.host = h /\ ~q.ok}}

NodeSummary(ps) ==
  [healthy |-> Cardinality({h \in HostSet(ps) : Unreachable(ps, h) = {}}),
   total   |-> Cardinality(HostSet(ps))]

\* What the health metrics show: the services of this round, the others as before.
GaugeAfter_noReset(ps) ==
  [s \in Services |-> IF s \in Observed(ps) /\ ~ServiceUp(ps, s) THEN "0"
                      ELSE IF s \in Observed(ps) /\ gauge[s] = "none" THEN "1" ELSE gauge[s]]
GaugeAfter(ps) ==
  [s \in Services |-> IF s \notin Observed(ps) THEN gauge[s]
                      ELSE IF ServiceUp(ps, s) THEN "1" ELSE "0"]

\* The delta against the baseline; the first round of a cluster logs the map
\* instead, the baseline of the next round is this one.
Added(cur)   == IF lastHosts = NoBase THEN {} ELSE cur \ lastHosts
Removed(cur) == IF lastHosts = NoBase THEN {} ELSE lastHosts \ cur

LogMap_keepsBaseline(cur) ==
  /\ lastHosts' = (IF lastHosts = NoBase THEN cur ELSE lastHosts)
  /\ logged' = IF lastHosts = NoBase THEN cur ELSE (logged \ Removed(cur)) \cup Added(cur)
LogMap(cur) ==
  /\ lastHosts' = cur
  /\ logged' = IF lastHosts = NoBase THEN cur ELSE (logged \ Removed(cur)) \cup Added(cur)

RoundOver(next) ==
  stage' = next /\ probes' = {} /\ everBroken' = {} /\ alwaysBroken' = {}

\* Compute and what the loop does with it; the probes of the round are dropped.
Evaluate ==
  /\ stage = "compute"
  /\ status' = Verdict(probes)
  /\ gauge' = GaugeAfter(probes)
  /\ LogMap(HostSet(probes))
  /\ RoundOver(IF status' = "DOWN" /\ active = First THEN "decide" ELSE "idle")
  /\ UNCHANGED <<world, critical, active>>

\* The second verdict permits the switch (any but DOWN), with the same --critical.
SecondaryReady_answers(ps) == \E p \in Real(ps) : p.ok
SecondaryReady(ps) == Verdict(ps) # "DOWN"

\* The switch is held, or does not latch.
HoldSwitch ==
  /\ stage = "secondCompute"
  /\ RoundOver("idle")
  /\ UNCHANGED <<world, critical, active, exports>>

\* followSecondary, at the end of an iteration that latched a switch.
FollowSecondary_keepsBaseline ==
  /\ stage = "secondCompute" /\ SecondaryReady(probes)
  /\ active' = Second
  /\ RoundOver("idle")
  /\ UNCHANGED <<world, critical, exports>>
FollowSecondary ==
  /\ stage = "secondCompute" /\ SecondaryReady(probes)
  /\ active' = Second
  /\ lastHosts' = NoBase
  /\ RoundOver("idle")
  /\ UNCHANGED <<world, critical, status, gauge, logged>>

-----------------------------------------------------------------------------
(* The clusters *)

\* What the history keeps of a change during a round.
Remember ==
  /\ everBroken' = (IF stage \in {"idle", "decide"} THEN {} ELSE everBroken \cup Failing(Probed)')
  /\ alwaysBroken' = alwaysBroken \cap Failing(Probed)'

EndpointFlips ==
  /\ \E e \in Endpoints : broken' = (IF e \in broken THEN broken \ {e} ELSE broken \cup {e})
  /\ UNCHANGED <<members, critical, active, stage, probes, exports>>
  /\ Remember

\* A node joins or leaves.
NodeFlips ==
  /\ \E h \in AllHosts : members' = (IF h \in members THEN members \ {h} ELSE members \cup {h})
  /\ UNCHANGED <<broken, critical, active, stage, probes, exports>>
  /\ Remember

Next ==
  \/ StartRound \/ StartSecondRound \/ PingKV \/ PingCluster
  \/ Evaluate \/ HoldSwitch \/ FollowSecondary
  \/ EndpointFlips \/ NodeFlips

Spec == Init /\ [][Next]_vars

-----------------------------------------------------------------------------
(* Properties *)

\* The two views of a round agree, though one groups by service and the other by
\* node: UP exactly when every critical service was observed and no node has an
\* unreachable service (health.go:14-68, node.go:20-61).
ViewsAgree ==
  [][Evaluate =>
       (status' = "UP" <=> /\ critical \subseteq Observed(probes)
                           /\ NodeSummary(probes).healthy = NodeSummary(probes).total)]_vars

\* A critical endpoint that does not answer during the whole round makes it DOWN,
\* even when a ping fails as a whole.
LastingFaultIsDown ==
  [][Evaluate /\ alwaysBroken # {} => status' = "DOWN"]_vars

\* A round is DOWN only because of a critical service: one of its endpoints did
\* not answer at some time of the round, or a ping came back without the service.
DownHasCause ==
  [][Evaluate /\ status' = "DOWN" =>
       \E s \in critical :
         \/ \E e \in everBroken : e[1] = s
         \/ \A p \in probes : p.service = s => p.host = NoHost]_vars

\* The loop leaves the primary only for a secondary on which every critical service
\* was reported and none of its endpoints failed during the whole round; so a
\* misspelt --critical, which makes every verdict DOWN, moves nothing (main.go:157,
\* 412-425).
NeverLeavesForWorse ==
  [][active' # active =>
       /\ alwaysBroken = {}
       /\ \A s \in critical :
            \E p \in probes : p.service = s /\ p.host \in Hosts[Second] /\ p.ok]_vars

\* The cluster-map changes in the log are news about the cluster that is probed: they
\* name nodes of that cluster, also in the first rounds after a switch, what is
\* logged as removed was in the map the log showed, what is logged as added was not,
\* and the log ends up at the current hosts (main.go:299-302, 376-392).
DeltasAreNews ==
  [][Evaluate => LET cur == HostSet(probes)
                 IN  /\ Added(cur) \cup Removed(cur) \subseteq Hosts[active]
                     /\ Removed(cur) \subseteq logged
                     /\ Added(cur) \cap logged = {}
                     /\ logged' = cur]_vars

\* The gauges per service never deny a verdict of the loop: whoever sees UP or
\* DEGRADED sees every critical service at 1, and with DEGRADED some other one at
\* 0, whatever earlier rounds and the other cluster have left (main.go:351-363).
\* The converse does not hold: a service that a round does not report keeps its value.
GaugesExplainVerdict ==
  [][Evaluate =>
       /\ status' # "DOWN" => \A s \in critical : gauge'[s] = "1"
       /\ status' = "DEGRADED" => \E s \in Services \ critical : gauge'[s] = "0"]_vars

-----------------------------------------------------------------------------
(* The inductive invariant behind the properties *)

\* The services whose ping is over, in this round.
Pinged == CASE stage \in {"cluster", "secondCluster"} -> {"kv"}
            [] stage \in {"compute", "secondCompute"} -> Services
            [] OTHER -> {}

\* A probe is about a service that has been pinged, and about an endpoint of the
\* probed cluster unless it is a placeholder; what it calls unreachable was.
ProbesAreTrue ==
  \A p \in probes :
    /\ p.service \in Pinged
    /\ p.host # NoHost => /\ p.host \in Hosts[Probed]
                          /\ ~p.ok /\ p.service \in critical => <<p.service, p.host>> \in everBroken

\* An endpoint that has not answered since the round began was reported so, or the
\* ping of its service failed as a whole.
FaultsAreSeen ==
  \A e \in alwaysBroken : e[1] \in Pinged =>
    \/ [service |-> e[1], host |-> e[2], ok |-> FALSE] \in probes
    \/ \A p \in probes : p.service # e[1]

\* The history of a round frames what fails now.
FaultsAreFramed ==
  IF stage \in {"idle", "decide"} THEN alwaysBroken = {}
  ELSE alwaysBroken \subseteq Failing(Probed) /\ Failing(Probed) \subseteq everBroken

\* The baseline of the delta is the map of the probed cluster the log shows.
BaselineIsLogged == lastHosts # NoBase => lastHosts \subseteq Hosts[active] /\ logged = lastHosts

HealthInv ==
  TypeOK /\ ProbesAreTrue /\ FaultsAreSeen /\ FaultsAreFramed /\ BaselineIsLogged
=============================================================================
