------------------------------- MODULE Failback -------------------------------
(***************************************************************************)
(* The Kubernetes actuator across a manual failback                         *)
(* (docs/RUNBOOK-failover-failback.md:17-30).  Once a switch is over the    *)
(* operator points the ConfigMaps back to the primary, rolls the            *)
(* applications with kubectl and restarts the observer; the next outage is  *)
(* then served by the same actuator.  Nothing in that procedure takes the   *)
(* AnnSwitchedTo stamp off the pod templates.                               *)
(***************************************************************************)
EXTENDS K8sActuator

CONSTANT MaxFailbacks   \* model bound

ASSUME FailbackAssumption == MaxFailbacks \in Nat

\* Callers that repoint the ConfigMap of each other's Deployments roll these too:
\* observers that overlap have the same flags.
ASSUME AgreedAssumption ==
  \A c, x \in Callers : \A d \in Range(Cfg[x].deployments) :
    ReadsFrom[d] \in Range(Cfg[c].configMaps) => d \in Range(Cfg[c].deployments)

VARIABLES
  failbacks,   \* failbacks so far
  trouble      \* the worst since the last one: "none", "failed" request, "died" caller

failbackVars == <<vars, failbacks, trouble>>

FailbackInit ==
  /\ Init
  /\ failbacks = 0
  /\ trouble = "none"

\* The operator acts when every observer has latched and none is in a call:
\* patch, rollout restart, restart of the observers.
OperatorFailsBack ==
  /\ failbacks < MaxFailbacks
  /\ \A c \in Callers : phase[c] = "idle" /\ Reported(c)
  /\ cmData' = [m \in CMs |-> Primary]
  /\ serving' = [d \in Deps |-> Primary]
  /\ restarts' = [d \in Deps |-> 0]
  /\ outcome' = [c \in Callers |-> "none"]
  /\ failbacks' = failbacks + 1
  /\ trouble' = "none"
  /\ UNCHANGED <<stamped, env, phase, pos, led, fresh>>

Smooth(c) ==
  /\ Call(c) \/ Proceed(c) \/ Return(c)
  /\ UNCHANGED <<failbacks, trouble>>

Fails(c) ==
  /\ RequestFails(c)
  /\ trouble' = IF trouble = "none" THEN "failed" ELSE trouble
  /\ UNCHANGED failbacks

Dies(c) ==
  /\ Crash(c)
  /\ trouble' = "died"
  /\ UNCHANGED failbacks

FaultsStop == Stabilise /\ UNCHANGED <<failbacks, trouble>>

FailbackNext ==
  \/ OperatorFailsBack
  \/ \E c \in Callers : Smooth(c) \/ Fails(c) \/ Dies(c)
  \/ FaultsStop

FailbackSpec == FailbackInit /\ [][FailbackNext]_failbackVars

-----------------------------------------------------------------------------
(* Properties *)

\* The stamps of an earlier outage do not keep a call from rolling what it has
\* just repointed: as long as nothing fails and nobody dies, a second outage is
\* converged like the first one (the patchedNS half of the skip, k8s.go:141-146).
\* A caller that has found the work of another one half done may report success
\* early, on the old stamps; what it reports is true when the others are through.
UndisturbedSuccessConverges ==
  trouble = "none" =>
    \A c \in Writers :
      Reported(c) /\ (\A x \in Callers \ {c} : phase[x] = "idle") => Converged(c)

\* RestartsBounded holds after a failback too, whatever fails or dies: old stamps
\* only ever save restarts.

-----------------------------------------------------------------------------
(* A statement of the documentation that does not hold *)

\* switch.go:83-84: "A held latch is safe to retry: the ConfigMap patch is an
\* idempotent no-op, and only the failed path is really re-attempted", so a call
\* that succeeds after failed ones of the same process has moved the applications.
RetriedSuccessConverges == trouble # "died" => SuccessMeansConverged

-----------------------------------------------------------------------------
(* The inductive invariant *)

\* A Deployment that is stamped but still serves the primary, although its
\* ConfigMap has moved, is about to be rolled by the call that has moved it.
StaleIsOwed ==
  \A x \in Callers : \A d \in Range(Cfg[x].deployments) :
    /\ cmData[ReadsFrom[d]] = Secondary
    /\ stamped[d]
    /\ serving[d] # Secondary
    => \E c \in Callers : Owes(c, d)

\* A caller that has reported success has nothing left to patch, and a dry run
\* patches nothing: neither owes a roll.
OwesNothing(c) ==
  /\ Reported(c) => Cfg[c].configMaps # <<>>
  /\ Reported(c) \/ Cfg[c].dryRun => led[c].patchedNS = {}

FailbackInv ==
  /\ CallsInv
  /\ \A c \in Callers : FreshCopy(c) /\ OwesNothing(c)
  /\ RollsAreSpent
  /\ failbacks \in 0..MaxFailbacks
  /\ trouble \in {"none", "failed", "died"}
  /\ trouble = "none" => StaleIsOwed /\ \A c \in Callers : ~led[c].errs
=============================================================================
