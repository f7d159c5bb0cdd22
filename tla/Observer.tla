------------------------------- MODULE Observer -------------------------------
(***************************************************************************)
(* The observer process (cmd/svchealthcheck): startup, the poll loop and    *)
(* runSwitch, composed from the decision machine (StateMachine) and the     *)
(* Kubernetes actuator (K8sActuator).  Several observers may run at once:   *)
(* the chart lets an old and a new pod overlap, and a dry run can be put     *)
(* beside a real observer.                                                  *)
(*                                                                          *)
(* The two Couchbase clusters are external; what a probe round of one comes *)
(* to (svchealth.Compute) is a status that may change at any time.          *)
(***************************************************************************)
EXTENDS StateMachine, Sequences, FiniteSets, Functions

CONSTANTS
  Observers,           \* observer processes
  Modes,               \* what --actuators and --dry-run of a process can come to
  SecondaryConn,       \* --secondary-conn is not empty
  ConfigMaps,          \* --configmap, the parsed list
  Deployments,         \* --deployments, the parsed list
  Namespaces, CMs, Deps, NamespaceOf, ReadsFrom, Primary, Secondary,
  RestartCap           \* see K8sActuator

\* Without an actuator there is no loop; with k8s the ConfigMap list is not empty
\* (UsableOrRefused of TickBudget).
ASSUME ModesAssumption ==
  /\ Modes \subseteq [k8s : BOOLEAN, webhook : BOOLEAN, dryRun : BOOLEAN]
  /\ SecondaryConn \in BOOLEAN
  /\ ConfigMaps \in Seq(CMs) /\ Deployments \in Seq(Deps)
  /\ \A f \in Modes : (f.k8s \/ f.webhook) /\ (f.k8s => ConfigMaps # <<>>)

\* What K8sActuator assumes of its targets.
ASSUME ObserverTargetAssumption ==
  /\ NamespaceOf \in [CMs \cup Deps -> Namespaces]
  /\ ReadsFrom \in [Deps -> CMs]
  /\ \A d \in Deps : NamespaceOf[ReadsFrom[d]] = NamespaceOf[d]
  /\ ConfigMaps # <<>> => \A d \in Range(Deployments) : ReadsFrom[d] \in Range(ConfigMaps)
  /\ IsInjective(Deployments)
  /\ IsFiniteSet(Observers) /\ IsFiniteSet(CMs)
  /\ Primary # Secondary /\ RestartCap \in Nat

VARIABLES
  \* --- see K8sActuator ---
  cmData, stamped, serving, restarts, env, phase, pos, led, fresh, outcome,
  \* --- the clusters and the receiver of the webhook (external) ---
  verdict,    \* verdict[r]: what a probe of cluster r comes to
  posted,     \* processes whose request the receiver has answered with 2xx
  \* --- one process per observer ---
  pc,         \* where the process is: down, or the point in the loop
  flags,      \* the flags it runs with; the next process may get others
  machine,    \* the state machine
  adopted,    \* alreadySwitched
  secProber,  \* secondaryProber is not nil
  role,       \* activeRole, activeRegion and the target of activeProber
  moved,      \* what the k8s path of the last runSwitch left in latch
  \* --- the metrics the process exports ---
  up,         \* regions with an observer_couchbase_up series
  region,     \* region with observer_active_region = 1
  failovers   \* observer_failover_total (saturates at 2, a model bound)

k8sVars    == <<cmData, stamped, serving, restarts, env, phase, pos, led, fresh, outcome>>
world      == <<verdict, posted>>
memory     == <<flags, adopted, secProber>>
metrics    == <<up, region, failovers>>
vars       == <<k8sVars, world, pc, machine, memory, role, moved, metrics>>

UseK8s(o)     == flags[o].k8s
UseWebhook(o) == flags[o].webhook
DryRun(o)     == flags[o].dryRun

\* An observer makes its calls as itself, or as its dry run.
K == INSTANCE K8sActuator WITH
  Callers <- Observers \X BOOLEAN,
  Cfg <- [c \in Observers \X BOOLEAN |->
           [configMaps |-> ConfigMaps, deployments |-> Deployments, dryRun |-> c[2]]]

Caller(o) == <<o, DryRun(o)>>

Regions == {"primary", "secondary"}
Points  == {"down", "wait", "probeSecondary", "actuate", "notify"}

TypeOK ==
  /\ K!TypeOK
  /\ verdict \in [Regions -> Statuses]
  /\ posted \subseteq Observers
  /\ pc \in [Observers -> Points] /\ flags \in [Observers -> Modes]
  /\ machine \in [Observers -> Machines]
  /\ adopted \in [Observers -> BOOLEAN] /\ secProber \in [Observers -> BOOLEAN]
  /\ role \in [Observers -> Regions] /\ region \in [Observers -> Regions]
  /\ moved \in [Observers -> BOOLEAN]
  /\ up \in [Observers -> SUBSET Regions]
  /\ failovers \in [Observers -> 0..2]

\* Before the outage: every application is on the primary, no observer runs.
Init ==
  /\ K!Init
  /\ cmData = [m \in CMs |-> Primary] /\ serving = [d \in Deps |-> Primary]
  /\ verdict \in [Regions -> Statuses]
  /\ posted = {}
  /\ pc = [o \in Observers |-> "down"] /\ flags \in [Observers -> Modes]
  /\ machine = [o \in Observers |-> New(FALSE)]
  /\ adopted = [o \in Observers |-> FALSE]
  /\ secProber = [o \in Observers |-> FALSE]
  /\ role = [o \in Observers |-> "primary"]
  /\ region = [o \in Observers |-> "primary"]
  /\ moved = [o \in Observers |-> FALSE]
  /\ up = [o \in Observers |-> {}]
  /\ failovers = [o \in Observers |-> 0]

-----------------------------------------------------------------------------
(* Startup *)

OnSecondary == {m \in CMs : cmData[m] = Secondary}
Targets     == {ConfigMaps[k] : k \in DOMAIN ConfigMaps}

\* What reconcileAlreadySwitched of a process with flags f may report when the ConfigMaps in unread could
\* not be read.  (One Get after the other in the code: ConfigMaps only move one
\* way, so a moment exists at which all of them at once give the same answer.)
Reconciled_any(f, unread) ==
  f.k8s /\ SecondaryConn /\ Targets \cap OnSecondary # {}
Reconciled(f, unread) ==
  f.k8s /\ SecondaryConn /\ Targets \subseteq OnSecondary \ unread

\* The secondary is followed at once if it is adopted and can be probed.
BootRole_neverFollows(already, there) == "primary"
BootRole(already, there) == IF already /\ there THEN "secondary" ELSE "primary"

\* A new process: everything in memory and every metric starts afresh.
Boot(o) ==
  /\ pc[o] = "down"
  /\ pc' = [pc EXCEPT ![o] = "wait"]
  /\ \E f \in Modes, unread \in SUBSET Targets, connected \in BOOLEAN :
       LET already == Reconciled(f, unread)
           there   == SecondaryConn /\ connected
       IN  /\ unread # {} => env = "faulty"
           /\ ~connected  => env = "faulty"
           /\ machine' = [machine EXCEPT ![o] = New(already)]
           /\ flags' = [flags EXCEPT ![o] = f]
           /\ adopted' = [adopted EXCEPT ![o] = already]
           /\ secProber' = [secProber EXCEPT ![o] = there]
           /\ role' = [role EXCEPT ![o] = BootRole(already, there)]
           /\ region' = [region EXCEPT ![o] = IF already THEN "secondary" ELSE "primary"]
  /\ up' = [up EXCEPT ![o] = {}]
  /\ failovers' = [failovers EXCEPT ![o] = 0]
  /\ moved' = [moved EXCEPT ![o] = FALSE]
  /\ posted' = posted \ {o}
  /\ UNCHANGED <<k8sVars, verdict>>

-----------------------------------------------------------------------------
(* The poll loop *)

\* One iteration up to the decision: probe the active cluster, export, observe.
Tick(o) ==
  LET observed == Observe(machine[o], verdict[role[o]])
  IN  /\ pc[o] = "wait"
      /\ up' = [up EXCEPT ![o] = @ \cup {role[o]}]
      /\ machine' = [machine EXCEPT ![o] = observed]
      /\ pc' = [pc EXCEPT ![o] = IF observed.switchRequired /\ SecondaryConn
                                 THEN "probeSecondary" ELSE "wait"]
      /\ UNCHANGED <<k8sVars, world, memory, role, moved, region, failovers>>

SecondaryReady(o) == secProber[o] /\ verdict["secondary"] # "DOWN"

\* The switch is held: the next tick asks again.
HoldSwitch(o) ==
  /\ pc[o] = "probeSecondary" /\ ~SecondaryReady(o)
  /\ pc' = [pc EXCEPT ![o] = "wait"]
  /\ UNCHANGED <<k8sVars, world, machine, memory, role, moved, metrics>>

\* runSwitch begins: the Kubernetes path first, if it is enabled.
StartSwitch(o) ==
  /\ pc[o] = "probeSecondary" /\ SecondaryReady(o)
  /\ \/ UseK8s(o) /\ K!Begin(Caller(o)) /\ pc' = [pc EXCEPT ![o] = "actuate"]
     \/ ~UseK8s(o) /\ pc' = [pc EXCEPT ![o] = "notify"] /\ UNCHANGED k8sVars
  /\ UNCHANGED <<world, machine, memory, role, moved, metrics>>

Actuate(o) ==
  /\ pc[o] = "actuate"
  /\ K!Proceed(Caller(o)) \/ K!RequestFails(Caller(o))
  /\ UNCHANGED <<world, pc, machine, memory, role, moved, metrics>>

\* What the loop does with the answer of runSwitch: on a latch the machine is
\* marked and, outside dry-run, everything that names or reads a cluster follows.
Finish_keepsSeries(o, latch) ==
  /\ pc' = [pc EXCEPT ![o] = "wait"]
  /\ machine' = [machine EXCEPT ![o] = IF latch THEN MarkSwitched(@) ELSE @]
  /\ region' = [region EXCEPT ![o] = IF latch THEN "secondary" ELSE @]
  /\ role' = [role EXCEPT ![o] = IF latch /\ ~DryRun(o) THEN "secondary" ELSE @]
  /\ UNCHANGED up
Finish_unmarked(o, latch) ==
  /\ pc' = [pc EXCEPT ![o] = "wait"]
  /\ region' = [region EXCEPT ![o] = IF latch THEN "secondary" ELSE @]
  /\ role' = [role EXCEPT ![o] = IF latch /\ ~DryRun(o) THEN "secondary" ELSE @]
  /\ up' = [up EXCEPT ![o] = IF latch /\ ~DryRun(o) THEN @ \ {"primary"} ELSE @]
  /\ UNCHANGED machine
Finish_followsInDryRun(o, latch) ==
  /\ pc' = [pc EXCEPT ![o] = "wait"]
  /\ machine' = [machine EXCEPT ![o] = IF latch THEN MarkSwitched(@) ELSE @]
  /\ region' = [region EXCEPT ![o] = IF latch THEN "secondary" ELSE @]
  /\ role' = [role EXCEPT ![o] = IF latch THEN "secondary" ELSE @]
  /\ up' = [up EXCEPT ![o] = IF latch THEN @ \ {"primary"} ELSE @]
Finish(o, latch) ==
  /\ pc' = [pc EXCEPT ![o] = "wait"]
  /\ machine' = [machine EXCEPT ![o] = IF latch THEN MarkSwitched(@) ELSE @]
  /\ region' = [region EXCEPT ![o] = IF latch THEN "secondary" ELSE @]
  /\ role' = [role EXCEPT ![o] = IF latch /\ ~DryRun(o) THEN "secondary" ELSE @]
  /\ up' = [up EXCEPT ![o] = IF latch /\ ~DryRun(o) THEN @ \ {"primary"} ELSE @]

\* The actuator has answered: an error holds the latch, "switched" is counted.
ActuateReturns(o) ==
  /\ pc[o] = "actuate"
  /\ K!Return(Caller(o))
  /\ failovers' = [failovers EXCEPT ![o] =
                     IF outcome'[Caller(o)] = "switched" /\ @ < 2 THEN @ + 1 ELSE @]
  /\ LET latch == outcome'[Caller(o)] # "error"
     IN  /\ moved' = [moved EXCEPT ![o] = latch]
         /\ IF UseWebhook(o)
            THEN pc' = [pc EXCEPT ![o] = "notify"] /\ UNCHANGED <<machine, role, region, up>>
            ELSE Finish(o, latch)
  /\ UNCHANGED <<world, memory>>

\* The latch follows Kubernetes alone if it is enabled, else the delivery.
Latched_ignoresError(o, delivered) == IF UseK8s(o) THEN moved[o] ELSE TRUE
Latched_everyPath(o, delivered) == moved[o] /\ delivered
Latched(o, delivered) == IF UseK8s(o) THEN moved[o] ELSE delivered

\* Notify answers nil: some attempt was answered 2xx.  A dry run posts nothing.
NotifyOK(o) ==
  /\ pc[o] = "notify"
  /\ posted' = IF DryRun(o) THEN posted ELSE posted \cup {o}
  /\ Finish(o, Latched(o, TRUE))
  /\ UNCHANGED <<k8sVars, verdict, memory, moved, failovers>>

\* Notify gives up.  The receiver may have answered 2xx all the same, too late.
NotifyFails(o) ==
  /\ pc[o] = "notify"
  /\ env = "faulty" /\ ~DryRun(o)
  /\ \/ UNCHANGED posted
     \/ posted' = posted \cup {o}
  /\ Finish(o, Latched(o, FALSE))
  /\ UNCHANGED <<k8sVars, verdict, memory, moved, failovers>>

-----------------------------------------------------------------------------
(* The environment *)

\* The process dies, wherever it is: killed by the liveness probe, evicted.
Crash(o) ==
  /\ env = "faulty"
  /\ pc[o] # "down"
  /\ pc' = [pc EXCEPT ![o] = "down"]
  /\ IF phase[Caller(o)] = "idle" THEN UNCHANGED k8sVars ELSE K!Crash(Caller(o))
  /\ UNCHANGED <<world, machine, memory, role, moved, metrics>>

TimePasses ==
  /\ machine' = [o \in Observers |-> IF pc[o] = "down" THEN machine[o] ELSE Aged(machine[o])]
  /\ UNCHANGED <<k8sVars, world, pc, memory, role, moved, metrics>>

ClusterChanges ==
  /\ \E r \in Regions, s \in Statuses : verdict' = [verdict EXCEPT ![r] = s]
  /\ UNCHANGED <<k8sVars, posted, pc, machine, memory, role, moved, metrics>>

Stabilise ==
  /\ K!Stabilise
  /\ UNCHANGED <<world, pc, machine, memory, role, moved, metrics>>

-----------------------------------------------------------------------------

Iteration(o) ==
  \/ Tick(o) \/ HoldSwitch(o) \/ StartSwitch(o) \/ Actuate(o) \/ ActuateReturns(o)
  \/ NotifyOK(o) \/ NotifyFails(o)

Next ==
  \/ \E o \in Observers : Boot(o) \/ Iteration(o) \/ Crash(o)
  \/ TimePasses \/ ClusterChanges \/ Stabilise

Spec == Init /\ [][Next]_vars

\* A process that is down is started again (the kubelet), a running one goes on
\* (the ticker), time passes and faults stop some day.  Clusters need not change.
Fairness ==
  /\ WF_vars(TimePasses) /\ WF_vars(Stabilise)
  /\ \A o \in Observers : WF_vars(Boot(o)) /\ WF_vars(Iteration(o))

LiveSpec == Spec /\ Fairness

-----------------------------------------------------------------------------
(* Properties *)

Alive(o)   == pc[o] # "down"
Latch(o)   == Alive(o) /\ machine[o].switched
OwnLatch(o) == Latch(o) /\ ~adopted[o]    \* not found at startup

\* Nothing moves and nobody is notified before the observer that does it has
\* seen DOWN without interruption for the whole delay, nor after it has latched,
\* nor by one that has no prober for the secondary (main.go:278-290, 364-425).
MovesOnlyAfterSustainedDown ==
  [][cmData' # cmData \/ restarts' # restarts \/ ~(posted' \subseteq posted) =>
       \E o \in Observers : /\ pc[o] \in {"actuate", "notify"} /\ secProber[o]
                            /\ machine[o].inDown /\ machine[o].downFor = FailoverDelay
                            /\ ~machine[o].switched]_vars

\* With k8s enabled a process that has completed a failover never starts another
\* one, not even when the webhook about it is dropped (switch.go:70-79).
NeverRepeatsCompletedFailover ==
  [][\A o \in Observers :
       phase[Caller(o)] = "idle" /\ phase'[Caller(o)] # "idle" => ~moved[o]]_vars

\* Webhook alone: the latch means that the receiver has taken the request, since
\* nothing else moves the applications (switch.go:80-81).
WebhookLatchMeansDelivered ==
  \A o \in Observers : ~UseK8s(o) /\ ~DryRun(o) /\ Latch(o) => o \in posted

\* observer_active_region is the latch: it names the secondary exactly when this
\* process has latched or found the ConfigMaps moved, and flips in the same step
\* (main.go:270-275, 436-439).  Of the ConfigMaps that says one thing: a process
\* that moves them itself never names the secondary before all of them are there.
\* The other direction, which metrics.go:48-49 claims as well, does not hold: every
\* ConfigMap may be there and the gauge stay on the primary, after a roll that
\* failed, a read that failed at startup, or the writes of another observer.
ActiveRegionIsLatch ==
  \A o \in Observers : Alive(o) =>
    /\ region[o] = "secondary" <=> machine[o].switched
    /\ UseK8s(o) /\ ~DryRun(o) /\ region[o] = "secondary" => Targets \subseteq OnSecondary

\* The cluster that is probed and labelled is the secondary exactly when this
\* process has moved the applications or found them moved, and can reach it.
HealthFollowsSwitch ==
  \A o \in Observers : Alive(o) =>
    (role[o] = "secondary" <=>
       machine[o].switched /\ secProber[o] /\ (adopted[o] \/ ~DryRun(o)))

\* The series of a cluster that is not watched any more is not left behind to
\* keep an alert firing (main.go:443-447).
NoStaleSeries == \A o \in Observers : Alive(o) => up[o] \subseteq {role[o]}

\* A process counts at most one failover, however often it has to retry, and a
\* dry run does not count one per tick.
FailoverCountedOnce == \A o \in Observers : failovers[o] <= 1

\* If some day the primary is down for good, the secondary is ready and the
\* observer has a prober for it, it ends up latched, and unless it found the
\* ConfigMaps switched at startup its targets have all been moved.
EventuallyFailsOver ==
  \A o \in Observers :
    <>[](verdict["primary"] = "DOWN" /\ verdict["secondary"] # "DOWN" /\ secProber[o])
    => <>[](Latch(o) /\ (UseK8s(o) /\ ~DryRun(o) => adopted[o] \/ K!Converged(Caller(o))))

\* The observers that move applications themselves.
Movers == {o \in Observers : UseK8s(o) /\ ~DryRun(o)}

R == INSTANCE RegionSwitch WITH
  Actors <- Observers, Strings <- CMs, Apps <- Deps, Reads <- ReadsFrom,
  OwnStrings <- [o \in Observers |-> Targets],
  OwnApps <- [o \in Observers |-> {Deployments[k] : k \in DOMAIN Deployments}],
  target <- cmData, app <- serving, told <- {o \in Movers : OwnLatch(o)}

\* The latch of the observer is the report of RegionSwitch: it is set only when
\* every ConfigMap and every application has moved, through crashes, failed
\* requests, dropped webhooks and overlapping observers.
LatchImplementsRegionSwitch == R!SwitchSpec

-----------------------------------------------------------------------------
(* The inductive invariant behind the properties *)

\* A process that is about to switch, or switching, has reason to: it has seen DOWN
\* for the whole delay and has not latched.
SwitchHasReason(o) ==
  /\ pc[o] \in {"probeSecondary", "actuate", "notify"} =>
       /\ machine[o].inDown /\ machine[o].downFor = FailoverDelay
       /\ ~machine[o].switched
  /\ pc[o] \in {"actuate", "notify"} => secProber[o]
  /\ pc[o] = "actuate" => UseK8s(o)
  /\ Alive(o) /\ adopted[o] => machine[o].switched

\* What the k8s path has completed it has completed once, and the latch follows.
MovedIsMoved(o) ==
  /\ moved[o] => UseK8s(o)
  /\ Alive(o) /\ moved[o] => pc[o] = "notify" \/ machine[o].switched
  /\ moved[o] /\ ~DryRun(o) => K!Converged(Caller(o))
  /\ failovers[o] > 0 => moved[o]

\* Only the process that is in the actuator is in a call, and only as itself.
CallIsLoops(c) == phase[c] # "idle" => pc[c[1]] = "actuate" /\ c = Caller(c[1])

\* Strengthening of the invariants of this module that every step preserves.
ObserverInv ==
  /\ TypeOK
  /\ K!LedgerInv
  /\ \A c \in Observers \X BOOLEAN : CallIsLoops(c)
  /\ \A o \in Observers : SwitchHasReason(o) /\ MovedIsMoved(o)
  /\ HealthFollowsSwitch
  /\ NoStaleSeries
  /\ WebhookLatchMeansDelivered
  /\ ActiveRegionIsLatch
  /\ FailoverCountedOnce

-----------------------------------------------------------------------------
(* A statement of the documentation that does not hold *)

\* main.go:497-499: ConfigMaps all on the secondary mean that "a prior observer
\* instance completed the switch".
AdoptedSwitchIsComplete ==
  \A o \in Movers : Alive(o) /\ adopted[o] => R!Moved(o)
=============================================================================
