----------------------------- MODULE K8sActuator -----------------------------
(***************************************************************************)
(* The Kubernetes actuator (pkg/actuator/k8s.go): one call of Switch first  *)
(* repoints every connstring ConfigMap to the secondary (patchConfigMaps)   *)
(* and then rolls every Deployment that has to re-read it                   *)
(* (rollDeployments).  Every Get and every Update is a request to the API   *)
(* server, hence a step of its own: callers interleave between them, each   *)
(* can fail, an Update can be applied and its answer lost, and the calling  *)
(* process can die between two of them.                                     *)
(*                                                                          *)
(* A caller is a process that owns a K8sActuator: the observer, a second    *)
(* observer that overlaps with it during a rollout, an invocation of the    *)
(* switch Lambda.                                                           *)
(***************************************************************************)
EXTENDS Naturals, Sequences, FiniteSets, Functions

CONSTANTS
  Callers,      \* processes that own an actuator
  Cfg,          \* Cfg[c]: the actuator.Config of caller c (see CfgType)
  Namespaces,   \* Kubernetes namespaces
  CMs,          \* every ConfigMap some caller targets
  Deps,         \* every Deployment some caller targets
  NamespaceOf,  \* the namespace of a ConfigMap or Deployment (Ref.Namespace)
  ReadsFrom,    \* the ConfigMap the pods of a Deployment read at start
  Primary, Secondary, \* the two connection strings
  RestartCap    \* the restart counters saturate here (model bound)

CfgType == [configMaps : Seq(CMs), deployments : Seq(Deps), dryRun : BOOLEAN]

\* Any list, the empty one included: the actuator itself refuses that one.
ASSUME CfgAssumption == Cfg \in [Callers -> CfgType]

ASSUME TargetAssumption ==
  /\ NamespaceOf \in [CMs \cup Deps -> Namespaces]
  /\ ReadsFrom \in [Deps -> CMs]
  /\ Primary # Secondary
  /\ RestartCap \in Nat

\* Paired targets: a pod reads a ConfigMap of its own namespace, and whoever
\* rolls the Deployment also patches that ConfigMap.  UnpairedNamespaces warns
\* at startup about configurations that are not of this shape.
ASSUME PairedAssumption ==
  /\ \A d \in Deps : NamespaceOf[ReadsFrom[d]] = NamespaceOf[d]
  /\ \A c \in Callers : Cfg[c].configMaps # <<>> =>
       \A d \in Range(Cfg[c].deployments) : ReadsFrom[d] \in Range(Cfg[c].configMaps)

\* ParseRefs drops repeated references, so a call meets a Deployment once.
ASSUME DistinctAssumption == \A c \in Callers : IsInjective(Cfg[c].deployments)

ASSUME FiniteAssumption == IsFiniteSet(Callers) /\ IsFiniteSet(CMs)

VARIABLES
  \* --- the API server and the applications (external) ---
  cmData,    \* cmData[m]: the connstring in ConfigMap m
  stamped,   \* stamped[d]: the pod template of d carries AnnSwitchedTo = Secondary
  serving,   \* serving[d]: the connstring the running pods of d were started with
  restarts,  \* restarts[d]: how often a call rolled d (history, saturates)
  env,       \* "faulty": requests may fail, callers may die; then "steady" for good
  \* --- one call of Switch per caller ---
  phase,     \* the request the call is about to make, "idle" outside a call
  pos,       \* index of the target the running loop is at
  led,       \* the patchLedger (errs: some error has been collected)
  fresh,     \* the object read before an Update has not been written since
  outcome    \* what the caller made of the last call that returned

apiVars    == <<cmData, stamped, serving, restarts>>
callerVars == <<phase, pos, led, fresh, outcome>>
vars       == <<apiVars, env, callerVars>>

Phases   == {"idle", "getCM", "putCM", "getDep", "putDep"}
Outcomes == {"none", "error", "switched", "noop"}
Ledger   == [patchedNS : SUBSET Namespaces, failedNS : SUBSET Namespaces,
             pending : Nat, errs : BOOLEAN]

\* What the loops write into the ledger.
NoLedger       == [patchedNS |-> {}, failedNS |-> {}, pending |-> 0, errs |-> FALSE]
Counted(l)     == [l EXCEPT !.pending = @ + 1]
Patched(l, ns) == [l EXCEPT !.patchedNS = @ \cup {ns}]
Erred(l)       == [l EXCEPT !.errs = TRUE]
Failed_notBarred(l, ns) == Erred(l)
Failed(l, ns)  == [l EXCEPT !.errs = TRUE, !.failedNS = @ \cup {ns}]

TypeOK ==
  /\ cmData \in [CMs -> {Primary, Secondary}]
  /\ stamped \in [Deps -> BOOLEAN]
  /\ serving \in [Deps -> {Primary, Secondary}]
  /\ restarts \in [Deps -> Nat]
  /\ env \in {"faulty", "steady"}
  /\ phase \in [Callers -> Phases]
  /\ pos \in [Callers -> Nat \ {0}]
  /\ led \in [Callers -> Ledger]
  /\ fresh \in [Callers -> BOOLEAN]
  /\ outcome \in [Callers -> Outcomes]

\* Any ConfigMap may already be on the secondary (a previous fan-out died
\* half way), and pods may lag behind their ConfigMap.  Only a Deployment that
\* no call has rolled yet is unstamped, so a stamped one has followed.
Init ==
  /\ cmData \in [CMs -> {Primary, Secondary}]
  /\ stamped \in [Deps -> BOOLEAN]
  /\ serving \in [Deps -> {Primary, Secondary}]
  /\ \A d \in Deps : stamped[d] => /\ serving[d] = Secondary
                                   /\ cmData[ReadsFrom[d]] = Secondary
  /\ restarts = [d \in Deps |-> 0]
  /\ env = "faulty"
  /\ phase = [c \in Callers |-> "idle"]
  /\ pos = [c \in Callers |-> 1]
  /\ led = [c \in Callers |-> NoLedger]
  /\ fresh = [c \in Callers |-> TRUE]
  /\ outcome = [c \in Callers |-> "none"]

-----------------------------------------------------------------------------
(* Helpers *)

MoreCMs(c)  == pos[c] <= Len(Cfg[c].configMaps)
MoreDeps(c) == pos[c] <= Len(Cfg[c].deployments)
CM(c)  == Cfg[c].configMaps[pos[c]]     \* ref of the patch loop
Dep(c) == Cfg[c].deployments[pos[c]]    \* ref of the roll loop
CMNS(c)  == NamespaceOf[CM(c)]
DepNS(c) == NamespaceOf[Dep(c)]

Faulty == env = "faulty"

\* An Update carries the resourceVersion of the preceding Get, so writing an
\* object spoils the copy any other caller is about to write back.
SpoilCM(self) ==
  [c \in Callers |-> IF c = self THEN TRUE
                     ELSE fresh[c] /\ ~(phase[c] = "putCM" /\ CM(c) = CM(self))]
SpoilDep(self) ==
  [c \in Callers |-> IF c = self THEN TRUE
                     ELSE fresh[c] /\ ~(phase[c] = "putDep" /\ Dep(c) = Dep(self))]

Keep(self) == [fresh EXCEPT ![self] = TRUE]

\* The loop goes on with the next target.
Advance(c, ph) ==
  /\ pos' = [pos EXCEPT ![c] = @ + 1]
  /\ phase' = [phase EXCEPT ![c] = ph]

\* The call is over: its locals are gone.
Leave(c) ==
  /\ phase' = [phase EXCEPT ![c] = "idle"]
  /\ pos' = [pos EXCEPT ![c] = 1]
  /\ led' = [led EXCEPT ![c] = NoLedger]
  /\ fresh' = Keep(c)

-----------------------------------------------------------------------------
(* Entering and leaving Switch *)

\* An empty ConfigMap list is refused before anything is touched.
BeginEmpty(c) ==
  /\ phase[c] = "idle"
  /\ Cfg[c].configMaps = <<>>
  /\ outcome' = [outcome EXCEPT ![c] = "error"]
  /\ UNCHANGED <<apiVars, env, phase, pos, led, fresh>>

Begin(c) ==
  /\ phase[c] = "idle"
  /\ Cfg[c].configMaps # <<>>
  /\ phase' = [phase EXCEPT ![c] = "getCM"]
  /\ UNCHANGED <<apiVars, env, pos, led, fresh, outcome>>

\* (switched, err) as every caller reads it: an error wins over the flag.
Verdict_ignoresErrors(l) == IF l.pending > 0 THEN "switched" ELSE "noop"
Verdict(l) == CASE l.errs -> "error"
                [] ~l.errs /\ l.pending > 0 -> "switched"
                [] OTHER -> "noop"

Return(c) ==
  /\ \/ phase[c] = "getCM" /\ ~MoreCMs(c) /\ Cfg[c].dryRun
     \/ phase[c] = "getDep" /\ ~MoreDeps(c)
  /\ outcome' = [outcome EXCEPT ![c] = Verdict(led[c])]
  /\ Leave(c)
  /\ UNCHANGED <<apiVars, env>>

-----------------------------------------------------------------------------
(* patchConfigMaps *)

\* A target that could not be converged: the error is collected, the namespace
\* is barred from the roll, and the loop goes on.
CMFails(c) ==
  /\ led' = [led EXCEPT ![c] = Failed(@, CMNS(c))]
  /\ Advance(c, "getCM")

GetCMFails(c) ==
  /\ phase[c] = "getCM" /\ MoreCMs(c) /\ Faulty
  /\ CMFails(c)
  /\ UNCHANGED <<apiVars, env, fresh, outcome>>

GetCMAlreadySwitched(c) ==
  /\ phase[c] = "getCM" /\ MoreCMs(c)
  /\ cmData[CM(c)] = Secondary
  /\ Advance(c, "getCM")
  /\ UNCHANGED <<apiVars, env, led, fresh, outcome>>

\* In dry-run the pending ConfigMap is counted and left alone.
GetCMPending_writesInDryRun(c) ==
  /\ phase[c] = "getCM" /\ MoreCMs(c)
  /\ cmData[CM(c)] # Secondary
  /\ led' = [led EXCEPT ![c] = Counted(@)]
  /\ phase' = [phase EXCEPT ![c] = "putCM"]
  /\ UNCHANGED <<apiVars, env, pos, fresh, outcome>>
GetCMPending(c) ==
  /\ phase[c] = "getCM" /\ MoreCMs(c)
  /\ cmData[CM(c)] # Secondary
  /\ led' = [led EXCEPT ![c] = Counted(@)]
  /\ \/ /\ Cfg[c].dryRun
        /\ Advance(c, "getCM")
     \/ /\ ~Cfg[c].dryRun
        /\ phase' = [phase EXCEPT ![c] = "putCM"]
        /\ UNCHANGED pos
  /\ UNCHANGED <<apiVars, env, fresh, outcome>>

WriteCM(c) ==
  /\ cmData' = [cmData EXCEPT ![CM(c)] = Secondary]
  /\ fresh' = SpoilCM(c)
  /\ UNCHANGED <<stamped, serving, restarts>>

PutCM(c) ==
  /\ phase[c] = "putCM" /\ fresh[c]
  /\ WriteCM(c)
  /\ led' = [led EXCEPT ![c] = Patched(@, CMNS(c))]
  /\ Advance(c, "getCM")
  /\ UNCHANGED <<env, outcome>>

\* The request fails, or the copy is stale and the server answers Conflict.
PutCMFails(c) ==
  /\ phase[c] = "putCM" /\ (Faulty \/ ~fresh[c])
  /\ CMFails(c)
  /\ fresh' = Keep(c)
  /\ UNCHANGED <<apiVars, env, outcome>>

\* The server applied the Update but the answer did not arrive in time.
PutCMAnswerLost(c) ==
  /\ phase[c] = "putCM" /\ fresh[c] /\ Faulty
  /\ WriteCM(c)
  /\ CMFails(c)
  /\ UNCHANGED <<env, outcome>>

\* Outside dry-run the roll phase follows with the ledger.
PatchDone(c) ==
  /\ phase[c] = "getCM" /\ ~MoreCMs(c) /\ ~Cfg[c].dryRun
  /\ phase' = [phase EXCEPT ![c] = "getDep"]
  /\ pos' = [pos EXCEPT ![c] = 1]
  /\ UNCHANGED <<apiVars, env, led, fresh, outcome>>

-----------------------------------------------------------------------------
(* rollDeployments *)

\* A Deployment whose namespace holds a stuck ConfigMap is not even read.
Barred_never(c) == FALSE
Barred(c) == DepNS(c) \in led[c].failedNS

\* Nothing changed in this namespace in this call and the stamp is there.
AlreadyRolled_stampOnly(c)  == stamped[Dep(c)]
AlreadyRolled_patchOnly(c)  == DepNS(c) \notin led[c].patchedNS
AlreadyRolled_never(c)      == FALSE
AlreadyRolled(c) == DepNS(c) \notin led[c].patchedNS /\ stamped[Dep(c)]

RollSkipped(c) ==
  /\ phase[c] = "getDep" /\ MoreDeps(c) /\ Barred(c)
  /\ Advance(c, "getDep")
  /\ UNCHANGED <<apiVars, env, led, fresh, outcome>>

DepFails(c) ==
  /\ led' = [led EXCEPT ![c] = Erred(@)]
  /\ Advance(c, "getDep")

GetDepFails(c) ==
  /\ phase[c] = "getDep" /\ MoreDeps(c) /\ ~Barred(c) /\ Faulty
  /\ DepFails(c)
  /\ UNCHANGED <<apiVars, env, fresh, outcome>>

GetDepAlreadyRolled(c) ==
  /\ phase[c] = "getDep" /\ MoreDeps(c) /\ ~Barred(c)
  /\ AlreadyRolled(c)
  /\ Advance(c, "getDep")
  /\ UNCHANGED <<apiVars, env, led, fresh, outcome>>

GetDepToRoll(c) ==
  /\ phase[c] = "getDep" /\ MoreDeps(c) /\ ~Barred(c)
  /\ ~AlreadyRolled(c)
  /\ phase' = [phase EXCEPT ![c] = "putDep"]
  /\ UNCHANGED <<apiVars, env, pos, led, fresh, outcome>>

\* Stamping the pod template makes Kubernetes replace the pods (external): the
\* new ones read the ConfigMap as it is now.
WriteDep(c) ==
  /\ stamped' = [stamped EXCEPT ![Dep(c)] = TRUE]
  /\ serving' = [serving EXCEPT ![Dep(c)] = cmData[ReadsFrom[Dep(c)]]]
  /\ restarts' = [restarts EXCEPT ![Dep(c)] = IF @ < RestartCap THEN @ + 1 ELSE @]
  /\ fresh' = SpoilDep(c)
  /\ UNCHANGED cmData

PutDep(c) ==
  /\ phase[c] = "putDep" /\ fresh[c]
  /\ WriteDep(c)
  /\ Advance(c, "getDep")
  /\ UNCHANGED <<env, led, outcome>>

PutDepFails(c) ==
  /\ phase[c] = "putDep" /\ (Faulty \/ ~fresh[c])
  /\ DepFails(c)
  /\ fresh' = Keep(c)
  /\ UNCHANGED <<apiVars, env, outcome>>

PutDepAnswerLost(c) ==
  /\ phase[c] = "putDep" /\ fresh[c] /\ Faulty
  /\ WriteDep(c)
  /\ DepFails(c)
  /\ UNCHANGED <<env, outcome>>

-----------------------------------------------------------------------------
(* The environment *)

\* The process dies in the middle of a call: its ledger is gone, what it wrote
\* stays.
Crash(c) ==
  /\ Faulty
  /\ phase[c] # "idle"
  /\ Leave(c)
  /\ UNCHANGED <<apiVars, env, outcome>>

Stabilise ==
  /\ Faulty
  /\ env' = "steady"
  /\ UNCHANGED <<apiVars, callerVars>>

-----------------------------------------------------------------------------

\* The steps of a running call that make progress without a fault.
Proceed(c) ==
  \/ GetCMAlreadySwitched(c) \/ GetCMPending(c) \/ PutCM(c) \/ PatchDone(c)
  \/ RollSkipped(c) \/ GetDepAlreadyRolled(c) \/ GetDepToRoll(c) \/ PutDep(c)

\* The steps in which a request fails.
RequestFails(c) ==
  \/ GetCMFails(c) \/ PutCMFails(c) \/ PutCMAnswerLost(c)
  \/ GetDepFails(c) \/ PutDepFails(c) \/ PutDepAnswerLost(c)

Switch(c) == Proceed(c) \/ RequestFails(c) \/ Return(c)

Call(c) == Begin(c) \/ BeginEmpty(c)

Next ==
  \/ \E c \in Callers : Call(c) \/ Switch(c) \/ Crash(c)
  \/ Stabilise

Spec == Init /\ [][Next]_vars

\* A caller that has not seen a call succeed calls again (the loop asks every
\* tick until it is marked switched, the alarm delivery is retried), a running
\* call is not abandoned, and faults stop some day.
Retries(c) == outcome[c] \in {"none", "error"} /\ Call(c)

Fairness ==
  /\ WF_vars(Stabilise)
  /\ \A c \in Callers : WF_vars(Retries(c)) /\ WF_vars(Switch(c))

LiveSpec == Spec /\ Fairness

-----------------------------------------------------------------------------
(* Properties *)

\* The callers that write at all.
Writers == {c \in Callers : ~Cfg[c].dryRun}

Converged(c) ==
  /\ \A m \in Range(Cfg[c].configMaps) : cmData[m] = Secondary
  /\ \A d \in Range(Cfg[c].deployments) : stamped[d] /\ serving[d] = Secondary

Reported(c) == outcome[c] \in {"switched", "noop"}

\* A Deployment stamped with the secondary runs pods that read the secondary,
\* whichever calls overlapped, failed or died: the stamp is what later calls
\* skip on, so a stamp on a Deployment that still serves the primary would
\* strand it there (the rule behind roll_skipped, k8s.go:129-135).
StampMeansServing == \A d \in Deps : stamped[d] => serving[d] = Secondary

\* A call that returns without error, switched or no-op, has left every target
\* of its configuration on the secondary: runSwitch and Handle treat both
\* answers as "the applications have moved".
SuccessMeansConverged == \A c \in Writers : Reported(c) => Converged(c)

\* Retries, overlaps and deaths do not restart a healthy app over and over: a
\* Deployment is rolled at most once per caller that targets it.
RestartsBounded ==
  \A d \in Deps :
    restarts[d] <= Cardinality({c \in Writers : d \in Range(Cfg[c].deployments)})

\* A dry run writes nothing, even while a real caller is in the middle of a
\* call: each write to the API is the Update of a caller that is not dry.
DryRunWritesNothing ==
  [][apiVars' # apiVars =>
       \E c \in Writers : /\ phase[c] \in {"putCM", "putDep"}
                         /\ phase'[c] # phase[c]]_vars

\* Once faults stop, retrying converges every target of every writer with a
\* non-empty configuration, and stays there.
EventuallyConverged ==
  \A c \in Writers : Cfg[c].configMaps # <<>> => <>[](Converged(c) /\ Reported(c))

-----------------------------------------------------------------------------
(* The inductive invariant behind the properties *)

\* A call is where its loops say it is; a dry run never gets past the patch
\* loop and never prepares a write.
CallShape(c) ==
  /\ phase[c] = "idle" => pos[c] = 1 /\ led[c] = NoLedger
  /\ phase[c] # "idle" => Cfg[c].configMaps # <<>>
  /\ phase[c] = "putCM" => MoreCMs(c)
  /\ phase[c] = "putDep" => MoreDeps(c) /\ ~Barred(c)
  /\ phase[c] \in {"putCM", "getDep", "putDep"} => ~Cfg[c].dryRun
  /\ led[c].failedNS # {} => led[c].errs

\* A ConfigMap the patch loop has passed is on the secondary, or its namespace
\* is barred.
PatchLoop(c) ==
  ~Cfg[c].dryRun => \A k \in DOMAIN Cfg[c].configMaps :
    \/ phase[c] \in {"getCM", "putCM"} /\ k < pos[c]
    \/ phase[c] \in {"getDep", "putDep"}
    => \/ cmData[Cfg[c].configMaps[k]] = Secondary
       \/ NamespaceOf[Cfg[c].configMaps[k]] \in led[c].failedNS

\* A Deployment the roll loop has passed is stamped, or the call will report an
\* error.
RollLoop(c) ==
  \A k \in DOMAIN Cfg[c].deployments :
    phase[c] \in {"getDep", "putDep"} /\ k < pos[c]
    => stamped[Cfg[c].deployments[k]] \/ led[c].errs

\* What a call that reported success has left behind stays.
ReportedStays(c) ==
  ~Cfg[c].dryRun /\ Reported(c) =>
    /\ \A m \in Range(Cfg[c].configMaps) : cmData[m] = Secondary
    /\ \A d \in Range(Cfg[c].deployments) : stamped[d]

\* The ledger of each running call tells the truth about the API.
CallsInv ==
  /\ TypeOK
  /\ \A c \in Callers : CallShape(c)
  /\ \A c \in Callers : PatchLoop(c) /\ RollLoop(c)
  /\ \A c \in Callers : ReportedStays(c)

\* Strengthening of StampMeansServing and SuccessMeansConverged that every step
\* preserves.
LedgerInv == CallsInv /\ StampMeansServing

\* An Update that can still succeed writes what its Get has found to be needed.
FreshCopy(c) ==
  /\ phase[c] = "putCM" /\ fresh[c] => cmData[CM(c)] # Secondary
  /\ phase[c] = "putDep" /\ fresh[c] => ~AlreadyRolled(c)

\* The running call of c has patched a ConfigMap next to d and is still to come
\* by d, which it will roll whatever the stamp says.
Owes(c, d) ==
  /\ NamespaceOf[d] \in led[c].patchedNS
  /\ \E k \in DOMAIN Cfg[c].deployments :
       /\ Cfg[c].deployments[k] = d
       /\ phase[c] \in {"getDep", "putDep"} => pos[c] <= k

\* c has no reason left to roll d, now or in a later call.
Spent(c, d) ==
  /\ stamped[d]
  /\ \A m \in Range(Cfg[c].configMaps) : NamespaceOf[m] = NamespaceOf[d] => cmData[m] = Secondary
  /\ ~Owes(c, d)

\* Each roll of d leaves its caller spent ...
RollsAreSpent ==
  \A d \in Deps :
    restarts[d] <= Cardinality({c \in Writers : d \in Range(Cfg[c].deployments) /\ Spent(c, d)})

\* ... and uses up a patch next to d, or the missing stamp.
MovedNear(d) == {m \in CMs : NamespaceOf[m] = NamespaceOf[d] /\ cmData[m] = Secondary}
RollsArePaid ==
  \A d \in Deps :
    restarts[d] + Cardinality({c \in Callers : Owes(c, d)})
      <= Cardinality(MovedNear(d)) + IF stamped[d] THEN 1 ELSE 0

\* Strengthening of the bounds on restarts that every step preserves.
RestartInv ==
  /\ LedgerInv
  /\ \A c \in Callers : FreshCopy(c)
  /\ RollsAreSpent
  /\ RollsArePaid

-----------------------------------------------------------------------------
(* Refinement: calls of Switch implement the one-way move of RegionSwitch.  *)

R == INSTANCE RegionSwitch WITH
  Actors <- Writers, Strings <- CMs, Apps <- Deps, Reads <- ReadsFrom,
  OwnStrings <- [c \in Writers |-> Range(Cfg[c].configMaps)],
  OwnApps <- [c \in Writers |-> Range(Cfg[c].deployments)],
  target <- cmData, app <- serving, told <- {c \in Writers : Reported(c)}

\* Every step of every call, failing ones and deaths included, is a step of
\* RegionSwitch or changes nothing it sees: strings move one way, pods follow
\* their string, success is reported only after both (k8s.go:38-47).
ImplementsRegionSwitch == R!SwitchSpec
=============================================================================
