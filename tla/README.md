# couchbase-health-observer: a verification project in TLA+

The repository under `src/` watches a primary Couchbase cluster and, when it has
been down for long enough, moves every application to a secondary cluster: it
repoints connection-string ConfigMaps, rolls the Deployments that read them, and
can tell an external system through a webhook. This directory holds TLA+ models
of that program, TLC configurations that check them on small instances, and
proofs, checked by TLAPS, of every safety property those configurations check:
invariants, action properties and refinements. What is live stays with TLC.

    tlc -workers 2 -config MCK8sActuator_duo.cfg MCK8sActuator
    tlapm K8sActuator_proofs.tla

`PROJECT.json` lists components, runs, hazards, findings, theorems and, for every
definition that models code, the lines it stands for.

## 1. The system

| component | source | state | operations |
|---|---|---|---|
| Kubernetes actuator | `pkg/actuator/k8s.go`, `actuator.go` | per call: the patch ledger; in Kubernetes: ConfigMap data, the `switched-to` stamp on pod templates | `Switch` = `patchConfigMaps`, then `rollDeployments` |
| Target lists | `pkg/actuator/refs.go` | none | `ParseRefs`, `ParseRefsRequired`, `UnpairedNamespaces` |
| Decision machine | `pkg/state/machine.go` | `inDown`, `firstDownAt`, `switched` | `New`, `Observe`, `MarkSwitched` |
| Observer process | `cmd/svchealthcheck/main.go`, `switch.go` | machine, active role and prober, secondary prober, map baseline | startup reconcile, poll loop, secondary guard, `runSwitch`, `followSecondary` |
| Health evaluation | `pkg/svchealth/` | the active prober | `Probe`, `Compute`, `ByNode`, `NodeSummary`, `HostSet`, `DiffHosts` |
| Webhook delivery | `pkg/notify/http.go`, `cmd/svchealthcheck/webhookflags.go` | per delivery: the attempt | `Notify`, `webhookWorstCase` |
| Liveness, readiness | `pkg/probes/probes.go` | time of the last heartbeat | `Tick`, `Liveness`, `Readiness` |
| Switch Lambda | `cmd/switch-lambda`, `pkg/switchhandler`, `pkg/event` | none between invocations | `Parse`, `Actionable`, `Handle` |
| HTTP surface | `pkg/svchealth/api.go`, `pkg/svchealth/active.go` | shares the active prober with the loop | `/health/couchbase`, `/metrics` |
| Actuator and flag selection | `cmd/svchealthcheck/actuators.go`, `main.go` | none | `parseActuators`, what startup refuses or warns about |
| Webhook payload and client | `pkg/notify/event.go`, `client.go` | none | `NewClient`, `ParseHeader`, encoding, redaction |
| Metrics | `pkg/metrics` | gauges and counters | set by the loop and by `runSwitch` |
| Logging, credentials, charts | `pkg/obslog`, `pkg/eksauth`, `charts/` | none | wording, building clients |

**Interaction.** One goroutine polls: `Probe` -> `Compute` -> metrics -> `Observe`; when
a switch is required it probes the secondary, then `runSwitch` calls the actuator
and then the notifier, and the loop marks the machine. HTTP handlers read the heartbeat
and the active prober at the same time. The only durable state is in Kubernetes:
the ConfigMaps and the stamps. Everything else is lost when the pod restarts and
is rebuilt from the ConfigMaps at startup. During a rollout two observer pods may
overlap, and a deployment may run the Lambda beside the observer; all of them
write the same objects under the API server's optimistic concurrency.

**What is hard, and what makes each part correct.**

* *Actuator*: each Get and Update can fail, or be applied with its answer lost, between
  any two requests another caller may act, and the process may die anywhere. Correct:
  success means that all targets have moved; a stamp is never put on a Deployment that
  still serves the primary; retries converge; healthy applications are not restarted again
  and again.
* *Decision machine*: a timer stands for a statement about the whole stream of
  verdicts. Correct: it requests a switch exactly for an unbroken outage of the delay.
* *Observer*: latch, role, region metric, prober and series are separate variables
  that have to move together, at a switch, at adoption and not in a dry run.
  Correct: the latch means moved; a dropped webhook never repeats a failover; a lasting
  outage is failed over in the end.
* *Health*: a round is two pings at two moments, and each can fail as a whole. What one
  round leaves in metrics and baseline meets the next one, which may be of another cluster.
  Correct: a lasting fault of a critical service is DOWN, DOWN has a cause, the loop
  never leaves for a cluster that is no better, exports do not contradict the verdict.
* *Process in time*: startup, loop, HTTP requests and the kubelet share the active prober and
  the heartbeat, and the whole switch with its delivery runs on one heartbeat. Correct: what
  cannot work is refused; an iteration within the window is never killed; a stall does not
  last; an answer describes one cluster.
* *Target lists*: default namespaces, blanks and duplicates. Correct: every target once.
* *Lambda*: deliveries are duplicated, overlap, fail and are repeated a few times. Correct:
  only ALARM acts, an alarm is not lost, restarts stay bounded.

## 2. The modules

| module | models | extends / instances |
|---|---|---|
| `RegionSwitch` | abstract: the one-way move (strings, then applications, then the report) | |
| `K8sActuator` | `Switch` request by request, any number of callers | instances `RegionSwitch` |
| `Failback` | the operator of the runbook and a second outage | extends `K8sActuator` |
| `Lambda` | deliveries of alarm events, `Parse`, `Handle` | extends `K8sActuator` |
| `StateMachine` | `pkg/state` as functions on the machine | |
| `SustainedDown` | abstract: the same decision over the history of observations | |
| `StateMachineHistory` | one machine, a clock and a history | extends `StateMachine`, instances `SustainedDown` |
| `Observer` | the process: startup, loop, `runSwitch`, metrics | extends `StateMachine`, instances `K8sActuator` and `RegionSwitch` |
| `Health` | probe rounds of both clusters, verdict, node view, gauges, map delta | |
| `CommandLine` | flags and target lists as functions: what is parsed, refused, warned about | |
| `TickBudget` | one process in time: startup, loop, delivery, heartbeat | extends `CommandLine` |
| `Surface` | HTTP requests and the kubelet beside that process | extends `TickBudget` |

The theorems about a module stand in a module of their own:

| module | theorems about | extends / instances |
|---|---|---|
| `K8sActuator_proofs` | `K8sActuator`: the ledger, the restarts, the refinement | `K8sActuator` |
| `Lambda_proofs`, `Failback_proofs` | `Lambda`, `Failback` | these, and `K8sActuator_proofs` |
| `StateMachine_proofs` | lemmas about the functions of `StateMachine` | `StateMachine` |
| `StateMachineHistory_proofs` | `StateMachineHistory`, its refinement | it, and `StateMachine_proofs` |
| `Observer_proofs` | `Observer`, its refinement | it and `StateMachine_proofs`; instances `K8sActuator_proofs` |
| `Health_proofs` | `Health` | `Health` |
| `Surface_proofs` | `CommandLine`, `TickBudget`, `Surface` | `Surface` |

`MCK8sActuator`, `MCFailback`, `MCLambda`, `MCStateMachine`, `MCObserver`, `MCHealth` and
`MCSurface` give the constants their values for the runs; `MCSurface` covers
`CommandLine`, `TickBudget` and `Surface` at once.

`Observer` and `TickBudget` are two views of the same loop. `Observer` keeps what is in
Kubernetes and in the machine and forgets durations; `TickBudget` keeps durations and forgets
why an iteration switches. Neither refines the other.

### K8sActuator

`phase[c]` is the request caller `c` makes next (`getCM`, `putCM`, `getDep`, `putDep`),
`pos[c]` the index of the loop it is in, `led[c]` the `patchLedger` (`errs` only
says whether some error was collected), `outcome[c]` what the caller made of
`(switched, err)`. Every action is one request with what follows until the next one: the loop
bookkeeping is never a step of its own. A request that fails is an action of its own,
and an Update has two of these: refused, and applied with its answer lost. `fresh[c]` stands for
the `resourceVersion`: an Update of an object that somebody has written since the
Get is answered with Conflict. `Crash` drops the ledger and keeps what was
written. `WriteDep` is also what Kubernetes does with it (external): pods are
replaced and read the ConfigMap as it is at that moment. Rollouts are taken as atomic: a
pod that restarts by itself, or late, reads the ConfigMap later and can only read a
newer value of a string that moves one way.

`PairedAssumption` is the configuration `UnpairedNamespaces` warns about, turned round, and a
little stronger: a pod's ConfigMap is in its own namespace, and who rolls a Deployment also
patches the ConfigMap it reads. The proofs say where it is used.

`Init` starts from anything an earlier outage or an earlier fan-out in the same
direction may have left, with one restriction: a stamped Deployment has followed.
A manual failback breaks that restriction, which is what `Failback` is for.

### Observer

`pc[o]` is the point of the loop: `wait` for the ticker, `probeSecondary`, `actuate` (in which
the K8sActuator call of `o` runs request by request), `notify`; `down` between
two processes. `Boot` is `main` up to the loop: one atomic step although it reads
one ConfigMap after the other, because ConfigMaps only move one way there. `Tick`
takes the status a probe comes to and applies the machine; `role` is at once the
label, the prober and the target of the health exports, which the code keeps in three
variables it always assigns together (`followSecondary`). `machine` is aged by `TimePasses`, which
also runs between the requests of a switch. `adopted` remembers what the startup found. `flags[o]` holds what `--actuators` and `--dry-run`
come to for the process of `o` that runs now. Each `Boot` takes any of `Modes`, so that a
dry run may be followed by a real process, and a webhook by a Kubernetes actuator, or the other
way round. The clusters are two verdicts that change at any time.

### Health

The two pings of a round are two steps; endpoints fail and recover, and nodes
join and leave, at any moment between them. `Evaluate` is what the loop does with a round:
`Compute`, the gauges, the log of the map. After a verdict DOWN the loop may probe the secondary
(`StartSecondRound`; when it does is the subject of `StateMachine`), and `SecondaryReady` applies the
same `--critical` to it. `critical` is a variable without steps: a process may run
with any of `Criticals`, and one of these names a service that does not exist, since nothing
checks the flag. The history variables (`everBroken`, `alwaysBroken`, `logged`) are
read by properties only.

### CommandLine, TickBudget, Surface

A command line is a record with one field per flag that decides something; a comma list is
the sequence of its entries, an entry of a target list the sequence of what its slashes
separate; `TargetLists` is any set of such lists. `CommandLine` says what startup makes of it. `TickBudget` starts a process with it:
`ParseFlags`, `Connect`, `Configure` are the three stretches of `main` between which
the process can be told apart from outside (nothing served; connected and serving; in the
loop), and each can exit. Then it counts seconds: a step may end at any time up to its timeout,
a step whose timeout is 0 may never end, and the ticker's channel holds one tick as Go's
does. A request to the Kubernetes API has the timeout of the client. How many requests a
switch makes is any number between one per ConfigMap and two per target; what they find is the
subject of `K8sActuator`.

`Surface` adds what happens beside the loop: a request for `/health/couchbase`, which loads the
active prober once and then pings twice; the kubelet, which counts answers 503 of `/healthz` and
starts the container again with the same command line. `Beside` joins a step of the process
to that: a process that exits drops the request.

### StateMachineHistory, Failback, Lambda

`StateMachineHistory` adds a clock and the list of observations to the machine.
`Failback` adds the operator, who acts when every caller has succeeded and none is in a
call, and remembers whether a request has failed or a caller has died since. Its callers are
observers: one that repoints the ConfigMap of a Deployment another one rolls also rolls it
(`AgreedAssumption`). Without that, a ConfigMap patched by a caller that does not know the Deployment,
and a stamp of the outage before, would leave the Deployment to nobody. `Lambda` makes each delivery a
caller of its own with a raw event, its progress and the number of its repetitions.

## 3. What the runs check

| run | instance | shows |
|---|---|---|
| `k8s_solo` | one caller, 2 namespaces, 3 ConfigMaps, 2 Deployments, beside a dry run | a call that reports success has moved everything, a stamp is true, one restart per Deployment however often the call is retried, convergence once faults stop, and the dry run writes nothing |
| `k8s_duo` | two callers with overlapping targets, a third without ConfigMaps | `RestartInv`, the invariant of the proofs, which contains `LedgerInv`; `ImplementsRegionSwitch` |
| `machine` | delay 2, 5 time units, 5 observations | the timer is the last run of DOWN, and it implements `SustainedDown` |
| `observer_solo` | one observer, 2 namespaces, delay 2; each of its processes has both actuators, the webhook alone, or is a dry run | region metric, role and series follow the latch, and the region metric of an observer that moves applications names the secondary only when every ConfigMap is there; nothing moves before a sustained outage; a completed failover is never repeated nor counted twice; the latch of a webhook waits for a delivery; a lasting outage is failed over; the latch implements `RegionSwitch`; `ObserverInv`, the invariant of the proofs |
| `observer_pair` | two observers with the Kubernetes actuator, one namespace, delay 1 | the latch implements `RegionSwitch` also when two observers overlap |
| `failback` | two callers with overlapping targets, one failback | old stamps do no harm as long as nothing fails, and never cost a restart, whatever fails |
| `lambda` | two deliveries of any event, two ConfigMaps in one namespace | only ALARM acts, what is done has converged, an alarm is served, restarts are bounded by the ConfigMaps |
| `health` | two primary nodes, one secondary node, kv and query, `--critical` right or misspelt | service view and node view agree; a lasting fault is DOWN and DOWN has a cause; map deltas name the right cluster and are news; gauges do not contradict the verdict; the loop moves only to a cluster that answers |
| `process` | 28 command lines: 11 that run (two of them without a loop), 3 that stall, 14 that are refused | what runs is usable; the heartbeat stays fresh within the budget; a delivery keeps its worst case; lists keep every target once; an answer describes one cluster; readiness comes; a stall ends; `SurfaceInv`, the invariant of the proofs |
| `window_unwarned` | one command line without a warning | a documented statement that fails (section 6) |
| `adopt_unrolled` | as `observer_solo`, delay 1 | a documented statement that fails (section 6) |
| `failback_retry` | one caller, two failbacks | a documented statement that fails (section 6) |

**Bounds.** Two namespaces, because every rule of the actuator compares the
namespace of a Deployment with that of a ConfigMap, and one of them has two
ConfigMaps, so that a namespace can be patched and stuck at once. Two callers,
because every conflict is between the one that reads and the one that writes.
`RestartCap` and the saturation of `failovers` lie above the bounds that are checked. The
delay is 2 where one observation inside the window has to be told from the one that ends
it. `downFor` saturates at the delay and `age` just past the window, which their only
readers compare with `>=` and `>`: that loses nothing. `MaxClock` and `MaxObservations` fit two runs of
DOWN with a recovery between them. `MaxFailbacks` is 1 in `failback`: what a failback leaves behind, and
the outage after it, is all that a second one could find. `MaxRetries` is 1
(Lambda's default is 2): one repetition is the least with which
overlapping deliveries are served. `observer_pair` uses symmetry between two
processes with equal flags; its refinement is a safety property, and no liveness is checked there.

In `process` a second is the unit, `K8sTimeout` is 1 (5 in the code, only its sum with the others
matters), and `Fits` is chosen so that its longest iteration equals the window to the
second: `FreshWithinBudget` has no slack. `FailureThreshold` is the default 3. Retries are
-1, 0 and 2: clamped, none, and two backoffs of different length. `age` and `delivering` saturate past the
bound they are compared with. `TargetsAreFirstOccurrences` is evaluated over all lists of up to
four entries out of eight: a blank one, bare ones, ones qualified with the same and with another
namespace, and malformed ones; four entries hold two targets with a duplicate
of each. `BackoffsAssumption` compares the closed form `Backoffs` with the sum it stands for.

**Deadlock** is checked except in `machine` (clock and log run into their bounds) and in
`lambda` (when all deliveries have been handled nothing is left to do). A process that has exited
is started again, so `process` needs no exception.

**Fairness.** All of it is weak. A call that runs is not abandoned; a caller that has not
succeeded calls again (the loop asks every tick until the machine is marked; `Retries`); a process
that is down is started (the kubelet, `restartPolicy: Always`); the loop goes on (the ticker);
time passes; and the API server fails for some time only (`Stabilise`, an assumption about
the world without which no retry can promise anything). In `Surface` startup goes on, time
passes, a step that has a timeout ends, and the kubelet probes and restarts; a step without a
timeout need not end, which is what `StallEnds` is about. For the Lambda, what is queued is
invoked; that a failed delivery is repeated more than `MaxRetries` times is not assumed, nor that
the clusters, the alarm or the operator ever do anything.

## 4. What is proved

Every invariant, action property and refinement that a passing run checks is also a theorem, for every
value of the constants that its module's assumptions allow: any number of callers, observers, deliveries,
namespaces, targets and nodes, any delay, any command line.

| module | theorems |
|---|---|
| `K8sActuator_proofs` | `LedgerInvariant`, `StampsAreTrue`, `SuccessIsConvergence`, `DryRunIsSilent`, `Refinement` (of `RegionSwitch`); `RestartInvariant`, `RestartsAreBounded`; `MovedStaysMoved`, `RequestsAreBounded`, `ConflictsCostNoMove` |
| `StateMachineHistory_proofs` | `WindowInvariant`, `WindowIsRun`, `TimerIsSustainedDown` (refinement of `SustainedDown`) |
| `Observer_proofs` | `ObserverInvariant`, `HealthFollows`, `SeriesFollow`, `LatchIsDelivery`, `RegionIsLatch`, `FailoverIsOne`, `OnlySustainedDownMoves`, `CompletedIsNotRepeated`, `LatchRefinement` (of `RegionSwitch`); `NothingFailsBack`, `ObserversRestartBoundedly` |
| `Lambda_proofs` | `LambdaInvariant`, `HandledMeansConverged`, `DeliveriesRestartBoundedly`, `OnlyAlarmsMove`; `DeliveriesAreCalls` (refinement of `K8sActuator` and of `RegionSwitch`) |
| `Failback_proofs` | `FailbackInvariant`, `UndisturbedConverges`, `FailbackRestartsAreBounded` |
| `Health_proofs` | `HealthInvariant`, `ViewsAreOne`, `LastingFaultsAreDown`, `DownIsCaused`, `DeltasAreTrue`, `GaugesAgree`, `LeavesForBetter`; `ComputeAgreesWithByNode`, `ComputeFailsClosed` (over any probes) |
| `Surface_proofs` | `SurfaceInvariant`, `TargetsAreKept`, `OnlyUsableRuns`, `FittingStaysFresh`, `DeliveriesAreBounded`, `AnswersDescribeOneCluster` |

**Model-checked only.** The five properties under fairness, `EventuallyConverged`, `EventuallyFailsOver`,
`AlarmIsServed`, `EventuallyReady` and `StallEnds`: liveness and `ENABLED` are out of the prover's reach.
The safety facts that the first three rest on are theorems all the same (*Why retrying ends*, below).
The statements of section 6 fail, so there is nothing to prove.

### Assumptions

They are the named `ASSUME`s of the modules; TLC evaluates each of them on the instances of the runs.

* `CfgAssumption`, `TargetAssumption`: types, and two different connection strings.
* `PairedAssumption`: without it no ledger can know what the pods read. It is used where a stamp is
  justified (`StampStep`).
* `DistinctAssumption`: no Deployment twice in one list. `ParseRefs` provides it, which is `TargetsAreKept`
  and `OnlyUsableRuns`. It is used where rolls are counted.
* `FiniteAssumption`: finitely many callers and ConfigMaps, since restarts are compared with cardinalities.
* `AgreedAssumption` (`Failback`) and `LambdaAssumption` (the Lambda does not start without a ConfigMap).
* `ModesAssumption`, `ObserverTargetAssumption` (`Observer`): the loop has an actuator, with the Kubernetes
  one a ConfigMap list that is not empty (proved of startup as `OnlyUsableRuns`), and the assumptions above
  for the instance of `K8sActuator`. The lemma `ActuatorAssumptions` derives those.
* `DelayAssumption`, `BoundsAssumption`, `ThresholdAssumption`, `FailbackAssumption`: numbers are numbers.
* `HealthAssumption`: finitely many nodes, none of them called as the placeholder is, and none in both clusters.
* `BudgetAssumption`: the types of flags, and a positive interval.

### The arguments

**The ledger.** `SuccessMeansConverged` is not inductive: whether a call may report success
depends on the part of the API its loops have left behind. `LedgerInv` says that the ledger
of each running call tells the truth: behind the patch loop every ConfigMap is on the
secondary or its namespace is in `failedNS` (`PatchLoop`); behind the roll loop every
Deployment is stamped or an error has been collected (`RollLoop`); `failedNS` is
non-empty only with an error (`CallShape`); what has been reported stays true
(`ReportedStays`); and stamps are true. The step proof has two halves. What other
callers do is handled once for all of them: strings and stamps move one way
(`Monotone`) and a step of one call leaves the ledgers of the others alone (`Locality`), so
what a ledger relies on only becomes more true. What the caller itself does is one of eight
kinds of steps (`OwnStep`: a call is refused, entered or left, or a loop reads, passes or is through),
and each conjunct is proved over those (`ShapeStep`, `PatchStep`, `RollStep`, `ReportStep`). The
refinement then needs the invariant twice: a Deployment is written only when its
namespace is not barred, hence after its ConfigMap has moved; and a report without error is
made only when both loops are through.

**Restarts.** `RestartInv` adds to `LedgerInv` that an Update that can still succeed writes what is still
needed (`FreshCopy`: this is where the `resourceVersion` enters), and two accounts of each Deployment. In
`RollsAreSpent` a roll leaves its caller without a reason to roll again, so there are no more rolls than
callers that are through with the Deployment. In `RollsArePaid` a roll, or the debt of a call that
will roll, is paid for by a ConfigMap moved next to it, or by the missing stamp. The first gives one restart
per writer (`RestartsBounded`), the second one restart per patch (`RestartsBoundedByPatches`). Neither
bound follows from the other.

**Why retrying ends.** Convergence is a live property, but what makes it go one way is not. A call cannot go
on for ever: `RequestsLeft` starts at two requests per target, falls with every target the loops handle and
never grows (`RequestsBounded`, an argument on the kinds of `OwnStep`); it is also what `MaxRequests` of `TickBudget`
takes for granted. A call that follows on a failed one does not start over: what has moved stays moved
(`MovedStaysMoved`). And callers cannot keep each other from moving: a copy is stale only because another caller has
moved that object since (`StaleHasMoved`), so without faults an error in a ledger stands at a target that has
moved (`ErrorsAreConflicts`; other writers of these objects, a controller say, count as faults). On the side of the observer a latch holds as long as the process
(`NothingFailsBack`). What is left to TLC is fairness alone.

**The timer.** `WindowIsLastRun` needs the log in the order of the clock (`InOrder`) and the machine to be
in a window exactly when the last observation is DOWN (`OpenAfterDown`): `WindowInv`. A step extends the last
run, closes it or begins one; that there is only one last run (`OneRun`) carries its start over. `OldEnough`
turns the age of the window, which saturates, into the definition of `SustainedDown` over the history.

**The observer.** `Observer_proofs` instances `K8sActuator_proofs` and reuses its step lemmas for the requests
of a switch: `SameSteps` shows that a step of the process is a step of the actuator or leaves it alone.
`ObserverInv` adds what ties the loop to the call: only the process in the actuator is in a call
(`CallIsLoops`); whoever switches has seen DOWN for the whole delay and has not latched
(`SwitchHasReason`); what the Kubernetes path has completed has converged, and the latch follows it
(`MovedIsMoved`). The second gives `MovesOnlyAfterSustainedDown`, the third the refinement: the latch
of a process that has not adopted is set on `moved`, hence on converged targets. Adoption carries no such
fact, which is what `adopt_unrolled` shows. `ObserversRestartBoundedly` carries the theorems about the actuator
over to the process as a whole: each observer is one writer, so no Deployment is restarted more often than there are
observers.

**The Lambda.** `LambdaInv` is `RestartInv` with `DeliveryShape`: who is in a call handles an alarm, and a
delivery that is done has reported success. Everything else is inherited: every step of a delivery is a step of
a caller or leaves the actuator alone, so `LambdaSpec` implements `Spec` (`DeliveriesAreCalls`).

**Failback.** After a failback stamps lie, so `StampMeansServing` cannot be in the invariant, and `LedgerInv`
is split: `CallsInv` never mentions the truth of stamps and survives. In its place stands `StaleIsOwed`:
as long as nothing has failed, a stamped Deployment whose ConfigMap has moved and whose pods have not is owed by
a call that runs. When the operator acts no call runs and every ConfigMap moves back, so nothing is owed. A
caller that meets the half-done work of another may report success on an old stamp before the other has rolled.
The property therefore speaks of the moments at which no other call runs.

**Health.** `ProbesAreTrue` and `FaultsAreSeen` are the two directions between a round and the endpoints:
what is reported unreachable was broken at some moment of the round, and what was broken all along has been
reported, unless its ping failed as a whole. `FaultsAreFramed` ties the histories to what fails now;
`BaselineIsLogged` says that the baseline of the delta belongs to the probed cluster and is what the log has
shown. `VerdictCases` and `SummaryFacts` describe the service view and the node view of any set of probes, from which
`ViewsAgree` follows. Both views are functions of the probes, so what they say is also stated
apart from the process: `ComputeAgreesWithByNode`, and `ComputeFailsClosed` for a round compared with
a worse one.

**The process in time.** `FreshWithinBudget` compares `age` with the window, and no step bounds `age` by
itself. `BudgetInv` charges every finished step of an iteration with its whole timeout (`MostAge`, and
`MostDelivered` for the attempts and backoffs of a delivery), so a step may move on only by paying for what it
took; an idle loop is covered by the ticker (`ClockShape`: with no tick waiting, the heartbeat is younger than the
tick before). `LoopShape` says with what startup lets the loop run and keeps each step in its timeout. The
products of flags are named once (`Times`, `BackoffSteps`), so that the steps are linear. `SurfaceInv` adds the request
that is answered (`RequestInv`) and the misses of the kubelet.

**Target lists.** `ParseRefs` is a fold over a list of any length, so `TargetsAreKept` is an induction. The
library's induction theorems take the predicate as an operator, which the installed provers cannot
instantiate; `NatInduct` states induction for a set instead (a set that holds 0 and with n also n + 1 holds
every number) and is proved from the well-foundedness of finite sets, whose theorem takes no operator. `ParseRefsKeeps` applies it to the set of those prefixes
whose result has the first occurrences in order.

`WindowInv`, `LambdaInv`, `FailbackInv` and `HealthInv` have been checked by TLC on the instances of their
runs before they were proved; `RestartInv`, `ObserverInv` and `SurfaceInv` are invariants of runs.

## 5. What is not modelled

* *`UnpairedNamespaces`* only produces a warning. What it warns about is the complement of
  `PairedAssumption`, under which the actuator is checked and proved.
* *Payload of the webhook*: JSON and redaction are data. The event carries no key by which a receiver could tell a
  repeated request (`event.go:18-21`), so nothing in the models depends on its content.
* *Contexts*: `main` never cancels the one it passes down, so no delivery, ping or request ends for that
  reason, and the process has no shutdown of its own: it dies where it stands (`Crash`).
* *The Kubernetes client's own waiting* (its rate limiter, answers with `Retry-After`) is not counted in
  the time of a request; the code gives the client a timeout and nothing else.
* *An interval that is not positive* makes Go's ticker panic at the start of the loop; `BudgetAssumption` leaves it out.
* *Startup in seconds*: `WaitUntilReady` and the reads of `reconcileAlreadySwitched` happen before the first
  heartbeat, when `/healthz` is not served yet or answers 200, so no window runs.
* *`http.ListenAndServe` that fails* ends the process with `log.Fatal` (`main.go:203`), and the container is started
  again: `Crash` in `Observer`; `TickBudget` leaves it out.
* *Some of the command line*: that `--secondary-conn` may be empty is a constant of `Observer`, and the form of
  `--webhook-url` is not checked by the code before the first delivery. `UsableOrRefused` speaks of neither.
* *A label without its prober*: `followSecondary` assigns both, and `role` in `Observer` stands for both.
* *The startup of the Lambda* reads the environment and parses its lists by the operators of `CommandLine`
  (`TargetsRefused`); a list that is refused is an assumption of `Lambda`.
* *Logging, EKS authentication, charts*: wording, building a client, configuration. What the chart
  decides about behaviour (restarts, overlapping pods) is in the models.
* *`/metrics`* serves the library's registry. Timestamps and error counters are written and not
  read by anything in the repository.
* *The clusters, the API server, SNS and Lambda, the operator, the receiver, the kubelet* are external and
  appear as the code uses them.

Limits that no run reports, because no document claims otherwise:

* The connection to the secondary is attempted once per process (`main.go:278`). If it fails, every tick
  of that process holds the switch, and `EventuallyFailsOver` therefore assumes a prober;
  `MovesOnlyAfterSustainedDown` says that such a process moves nothing.
* `--critical` is not trimmed and its names are not checked (`main.go:157`). A misspelt name makes every
  verdict DOWN for good; since the secondary is judged by the same list the switch is then held for
  good as well (`NeverLeavesForWorse`).
* `observer_service_up` keeps its value when a whole ping fails, and is not deleted when the loop moves
  to a secondary that does not run the service. `GaugesExplainVerdict` is the direction that holds.
* A ping that fails as a whole makes the map delta report nodes as removed that have not left (`DeltasAreNews`
  speaks of what rounds report, not of membership).

## 6. Where documents and code disagree

| run | statement | what the code does |
|---|---|---|
| `adopt_unrolled` | `main.go:497-499`: ConfigMaps all on the secondary mean that a prior instance "completed the switch" | an observer that dies after the last ConfigMap and before the roll is followed by one that adopts, latches and never rolls |
| `window_unwarned` | `main.go:51`: "keep 2*probe-timeout < 3*interval so the liveness heartbeat stays fresh" | a probe is two pings with a timeout each, so an iteration can take twice the budget startup computes, and the API requests come on top; `/healthz` fails without a warning. `LongestTick` is the budget that suffices |
| `failback_retry` | `switch.go:83-84`: "a held latch is safe to retry" | the stamp survives a manual failback; in the next outage a Deployment whose Update fails once is skipped by the retry, which reports success with the pods on the primary |

Smaller ones, visible in the models and kept without a run of their own:

* `FailoverTotal` counts a call that both patched and met no error. A retry that completes the
  switch finds nothing to patch, so the observer latches uncounted, although the runbook
  (13-15) says the counter increments on a switch. The models check that it counts at most once.
* `metrics.go:48-49` describes `observer_active_region` as the "region the app ConfigMap currently points to".
  The code sets it at startup from what it found and when the switch latches (`main.go:270-275`, `436-439`), and
  never compares it with the ConfigMaps again. All of them may have moved while a process does not latch:
  a Deployment could not be rolled, a ConfigMap could not be read at startup, or another observer
  moved them. Its gauge stays on the primary until it latches, and if the primary recovers first it stays there
  for as long as the process runs. The other way round a dry run sets the gauge with no ConfigMap
  moved. `ActiveRegionIsLatch` is what holds: the gauge is the latch, and a process that moves
  ConfigMaps itself names the secondary only when all of them are there. That part says nothing of dry runs and
  of the webhook alone, whose ConfigMaps the receiver moves.
* `switchhandler.go:21-22` calls a duplicate ALARM delivery a no-op. One that overlaps with the
  first can roll a Deployment between the patch and the roll of the other, which then rolls it
  again. `RestartsBoundedByPatches` is the bound that holds.
* `webhookWorstCase` takes a negative `--webhook-retries` at its word where the delivery makes one attempt
  all the same, and a `--webhook-timeout` of 0 for no time at all where it is no timeout.
  `DeliveryWithinWorstCase` holds for everything else.

## 7. Plan

Done: all modules and runs of this plan, the proofs of every safety property the passing runs
check, and of the safety facts behind the live ones.

Left: `Observer` and `TickBudget` are two views of one loop, the one with its calls and latches, the other with
its clocks. That the two agree is argued in section 2 and by `RequestsBounded`, and not by a common abstraction
that both implement.
