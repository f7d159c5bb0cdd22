--------------------------- MODULE Observer_proofs ---------------------------
(***************************************************************************)
(* The observer process for every set of targets, every delay and any       *)
(* number of overlapping observers.                                         *)
(*                                                                          *)
(* The argument: the loop is in the actuator exactly while one of its calls *)
(* runs, and every step of the loop is a step of K8sActuator or leaves it   *)
(* alone, so the ledger invariant of the actuator holds here too.  A latch  *)
(* set by the Kubernetes path therefore rests on a call that reported       *)
(* success, whose targets stay moved; the roles, series and counters follow *)
(* the latch within the step that sets it.                                  *)
(***************************************************************************)
EXTENDS Observer, StateMachine_proofs, FiniteSetTheorems

USE DelayAssumption

\* The theorems about the actuator, for the calls that observers make.
KP == INSTANCE K8sActuator_proofs WITH
  Callers <- Observers \X BOOLEAN,
  Cfg <- [c \in Observers \X BOOLEAN |->
           [configMaps |-> ConfigMaps, deployments |-> Deployments, dryRun |-> c[2]]]

CallersOf == Observers \X BOOLEAN

\* The configuration of a call is the one of the process, dry or not.
LEMMA CallerCfg ==
  ASSUME NEW c \in CallersOf
  PROVE  LET cfg == [x \in Observers \X BOOLEAN |->
                       [configMaps |-> ConfigMaps, deployments |-> Deployments, dryRun |-> x[2]]]
         IN  cfg[c].configMaps = ConfigMaps /\ cfg[c].deployments = Deployments /\ cfg[c].dryRun = c[2]
  BY DEF CallersOf

\* The observer meets what the actuator assumes.
LEMMA ActuatorAssumptions ==
  /\ KP!CfgAssumption /\ KP!TargetAssumption /\ KP!PairedAssumption
  /\ KP!DistinctAssumption /\ KP!FiniteAssumption
<1>1. KP!CfgAssumption
  BY CallerCfg, ModesAssumption DEF CallersOf, KP!CfgAssumption, KP!CfgType
<1>2. KP!TargetAssumption
  BY ObserverTargetAssumption DEF KP!TargetAssumption
<1>3. KP!PairedAssumption
  BY CallerCfg, ObserverTargetAssumption DEF CallersOf, KP!PairedAssumption, KP!Range, Range
<1>4. KP!DistinctAssumption
  BY CallerCfg, ObserverTargetAssumption DEF CallersOf, KP!DistinctAssumption, KP!IsInjective, IsInjective
<1>5. KP!FiniteAssumption
  <2>1. IsFiniteSet(BOOLEAN)
    <3>1. BOOLEAN = {TRUE} \cup {FALSE}
      OBVIOUS
    <3>2. IsFiniteSet({TRUE})
      BY FS_Singleton
    <3>3. IsFiniteSet({TRUE} \cup {FALSE})
      BY <3>2, FS_AddElement
    <3> QED BY <3>1, <3>3, Zenon
  <2>2. IsFiniteSet(Observers \X BOOLEAN)
    BY <2>1, FS_Product, ObserverTargetAssumption
  <2> QED BY <2>2, ObserverTargetAssumption DEF KP!FiniteAssumption, KP!IsFiniteSet, IsFiniteSet
<1> QED BY <1>1, <1>2, <1>3, <1>4, <1>5

-----------------------------------------------------------------------------
(* K and KP are the same actuator *)

LEMMA SameState ==
  /\ K!TypeOK <=> KP!TypeOK
  /\ K!LedgerInv <=> KP!LedgerInv
  /\ K!Init <=> KP!Init
  /\ \A c \in CallersOf : K!Converged(c) <=> KP!Converged(c)
<1>1. /\ K!NoLedger = KP!NoLedger /\ K!Ledger = KP!Ledger
      /\ K!Phases = KP!Phases /\ K!Outcomes = KP!Outcomes
  BY DEF K!NoLedger, KP!NoLedger, K!Ledger, KP!Ledger, K!Phases, KP!Phases, K!Outcomes, KP!Outcomes
<1>2. K!TypeOK <=> KP!TypeOK
  BY <1>1, Zenon DEF K!TypeOK, KP!TypeOK
<1>3. K!Init <=> KP!Init
  BY <1>1, Zenon DEF K!Init, KP!Init
<1>4. ASSUME NEW S PROVE K!Range(S) = KP!Range(S)
  BY DEF K!Range, KP!Range
<1>5. \A c \in CallersOf : K!Converged(c) <=> KP!Converged(c)
  BY <1>4, Zenon DEF K!Converged, KP!Converged, CallersOf
<1>6. K!StampMeansServing <=> KP!StampMeansServing
  BY DEF K!StampMeansServing, KP!StampMeansServing
<1>7. ASSUME NEW c \in CallersOf
      PROVE  /\ K!CallShape(c) <=> KP!CallShape(c)
             /\ K!PatchLoop(c) <=> KP!PatchLoop(c)
             /\ K!RollLoop(c) <=> KP!RollLoop(c)
             /\ K!ReportedStays(c) <=> KP!ReportedStays(c)
  <2>1. /\ K!MoreCMs(c) <=> KP!MoreCMs(c)
        /\ K!MoreDeps(c) <=> KP!MoreDeps(c)
        /\ K!Barred(c) <=> KP!Barred(c)
        /\ K!Reported(c) <=> KP!Reported(c)
    BY DEF K!MoreCMs, KP!MoreCMs, K!MoreDeps, KP!MoreDeps, K!Barred, KP!Barred, K!DepNS, KP!DepNS,
       K!Dep, KP!Dep, K!Reported, KP!Reported
  <2>2. K!CallShape(c) <=> KP!CallShape(c)
    BY <1>1, <2>1, Zenon DEF K!CallShape, KP!CallShape
  <2>3. K!PatchLoop(c) <=> KP!PatchLoop(c)
    BY DEF K!PatchLoop, KP!PatchLoop
  <2>4. K!RollLoop(c) <=> KP!RollLoop(c)
    BY DEF K!RollLoop, KP!RollLoop
  <2>5. K!ReportedStays(c) <=> KP!ReportedStays(c)
    BY <1>4, <2>1, Zenon DEF K!ReportedStays, KP!ReportedStays
  <2> QED BY <2>2, <2>3, <2>4, <2>5
<1>8. K!LedgerInv <=> KP!LedgerInv
  BY <1>2, <1>6, <1>7, Zenon DEF K!LedgerInv, K!CallsInv, KP!LedgerInv, KP!CallsInv, CallersOf
<1> QED BY <1>2, <1>3, <1>5, <1>8

LEMMA SameSteps ==
  /\ K!Stabilise <=> KP!Stabilise
  /\ \A c \in CallersOf : /\ K!Begin(c) <=> KP!Begin(c)
                          /\ K!Return(c) <=> KP!Return(c)
                          /\ K!Crash(c) <=> KP!Crash(c)
                          /\ K!Proceed(c) <=> KP!Proceed(c)
                          /\ K!RequestFails(c) <=> KP!RequestFails(c)
<1>1. K!Stabilise <=> KP!Stabilise
  BY DEF K!Stabilise, KP!Stabilise, K!Faulty, KP!Faulty, K!apiVars, KP!apiVars, K!callerVars,
     KP!callerVars
<1>2. ASSUME NEW c \in CallersOf
      PROVE  /\ K!Begin(c) <=> KP!Begin(c)
             /\ K!Return(c) <=> KP!Return(c)
             /\ K!Crash(c) <=> KP!Crash(c)
  <2>1. K!Begin(c) <=> KP!Begin(c)
    BY DEF K!Begin, KP!Begin, K!apiVars, KP!apiVars
  <2>2. K!Return(c) <=> KP!Return(c)
    BY DEF K!Return, KP!Return, K!MoreCMs, KP!MoreCMs, K!MoreDeps, KP!MoreDeps, K!Verdict,
       KP!Verdict, K!Leave, KP!Leave, K!Keep, KP!Keep, K!NoLedger, KP!NoLedger, K!apiVars,
       KP!apiVars
  <2>3. K!Crash(c) <=> KP!Crash(c)
    BY DEF K!Crash, KP!Crash, K!Faulty, KP!Faulty, K!Leave, KP!Leave, K!Keep, KP!Keep,
       K!NoLedger, KP!NoLedger, K!apiVars, KP!apiVars
  <2> QED BY <2>1, <2>2, <2>3
<1>3. ASSUME NEW c \in CallersOf PROVE K!Proceed(c) <=> KP!Proceed(c)
  <2>1. K!GetCMAlreadySwitched(c) <=> KP!GetCMAlreadySwitched(c)
    BY DEF K!GetCMAlreadySwitched, KP!GetCMAlreadySwitched, K!MoreCMs, KP!MoreCMs, K!CM, KP!CM,
       K!Advance, KP!Advance, K!apiVars, KP!apiVars
  <2>2. K!GetCMPending(c) <=> KP!GetCMPending(c)
    BY DEF K!GetCMPending, KP!GetCMPending, K!MoreCMs, KP!MoreCMs, K!CM, KP!CM, K!Counted,
       KP!Counted, K!Advance, KP!Advance, K!apiVars, KP!apiVars
  <2>3. K!PutCM(c) <=> KP!PutCM(c)
    BY DEF K!PutCM, KP!PutCM, K!CM, KP!CM, K!CMNS, KP!CMNS, K!Patched, KP!Patched, K!WriteCM,
       KP!WriteCM, K!SpoilCM, KP!SpoilCM, K!Advance, KP!Advance
  <2>4. K!PatchDone(c) <=> KP!PatchDone(c)
    BY DEF K!PatchDone, KP!PatchDone, K!MoreCMs, KP!MoreCMs, K!apiVars, KP!apiVars
  <2>5. K!RollSkipped(c) <=> KP!RollSkipped(c)
    BY DEF K!RollSkipped, KP!RollSkipped, K!MoreDeps, KP!MoreDeps, K!Barred, KP!Barred, K!DepNS,
       KP!DepNS, K!Dep, KP!Dep, K!Advance, KP!Advance, K!apiVars, KP!apiVars
  <2>6. K!GetDepAlreadyRolled(c) <=> KP!GetDepAlreadyRolled(c)
    BY DEF K!GetDepAlreadyRolled, KP!GetDepAlreadyRolled, K!MoreDeps, KP!MoreDeps, K!Barred,
       KP!Barred, K!AlreadyRolled, KP!AlreadyRolled, K!DepNS, KP!DepNS, K!Dep, KP!Dep,
       K!Advance, KP!Advance, K!apiVars, KP!apiVars
  <2>7. K!GetDepToRoll(c) <=> KP!GetDepToRoll(c)
    BY DEF K!GetDepToRoll, KP!GetDepToRoll, K!MoreDeps, KP!MoreDeps, K!Barred, KP!Barred,
       K!AlreadyRolled, KP!AlreadyRolled, K!DepNS, KP!DepNS, K!Dep, KP!Dep, K!apiVars,
       KP!apiVars
  <2>8. K!PutDep(c) <=> KP!PutDep(c)
    BY DEF K!PutDep, KP!PutDep, K!Dep, KP!Dep, K!WriteDep, KP!WriteDep, K!SpoilDep, KP!SpoilDep,
       K!Advance, KP!Advance
  <2> QED BY <2>1, <2>2, <2>3, <2>4, <2>5, <2>6, <2>7, <2>8, Zenon DEF K!Proceed, KP!Proceed
<1>4. ASSUME NEW c \in CallersOf PROVE K!RequestFails(c) <=> KP!RequestFails(c)
  <2>1. K!GetCMFails(c) <=> KP!GetCMFails(c)
    BY DEF K!GetCMFails, KP!GetCMFails, K!MoreCMs, KP!MoreCMs, K!Faulty, KP!Faulty, K!CMFails,
       KP!CMFails, K!Failed, KP!Failed, K!CMNS, KP!CMNS, K!CM, KP!CM, K!Advance, KP!Advance,
       K!apiVars, KP!apiVars
  <2>2. K!PutCMFails(c) <=> KP!PutCMFails(c)
    BY DEF K!PutCMFails, KP!PutCMFails, K!Faulty, KP!Faulty, K!Keep, KP!Keep, K!CMFails,
       KP!CMFails, K!Failed, KP!Failed, K!CMNS, KP!CMNS, K!CM, KP!CM, K!Advance, KP!Advance,
       K!apiVars, KP!apiVars
  <2>3. K!PutCMAnswerLost(c) <=> KP!PutCMAnswerLost(c)
    BY DEF K!PutCMAnswerLost, KP!PutCMAnswerLost, K!Faulty, KP!Faulty, K!CMFails, KP!CMFails,
       K!Failed, KP!Failed, K!CMNS, KP!CMNS, K!CM, KP!CM, K!Advance, KP!Advance, K!WriteCM,
       KP!WriteCM, K!SpoilCM, KP!SpoilCM
  <2>4. K!GetDepFails(c) <=> KP!GetDepFails(c)
    BY DEF K!GetDepFails, KP!GetDepFails, K!MoreDeps, KP!MoreDeps, K!Barred, KP!Barred, K!DepNS,
       KP!DepNS, K!Dep, KP!Dep, K!Faulty, KP!Faulty, K!DepFails, KP!DepFails, K!Erred, KP!Erred,
       K!Advance, KP!Advance, K!apiVars, KP!apiVars
  <2>5. K!PutDepFails(c) <=> KP!PutDepFails(c)
    BY DEF K!PutDepFails, KP!PutDepFails, K!Faulty, KP!Faulty, K!Keep, KP!Keep, K!DepFails,
       KP!DepFails, K!Erred, KP!Erred, K!Advance, KP!Advance, K!apiVars, KP!apiVars
  <2>6. K!PutDepAnswerLost(c) <=> KP!PutDepAnswerLost(c)
    BY DEF K!PutDepAnswerLost, KP!PutDepAnswerLost, K!Faulty, KP!Faulty, K!DepFails,
       KP!DepFails, K!Erred, KP!Erred, K!Dep, KP!Dep, K!Advance, KP!Advance, K!WriteDep,
       KP!WriteDep, K!SpoilDep, KP!SpoilDep
  <2> QED BY <2>1, <2>2, <2>3, <2>4, <2>5, <2>6, Zenon DEF K!RequestFails, KP!RequestFails
<1> QED BY <1>1, <1>2, <1>3, <1>4

-----------------------------------------------------------------------------
(* The steps of the observers as steps of the actuator *)

\* Who a process calls as.
LEMMA CallerType ==
  ASSUME TypeOK, NEW o \in Observers
  PROVE  /\ flags[o] \in Modes
         /\ UseK8s(o) \in BOOLEAN /\ UseWebhook(o) \in BOOLEAN /\ DryRun(o) \in BOOLEAN
         /\ Caller(o) \in CallersOf /\ Caller(o)[1] = o /\ Caller(o)[2] = DryRun(o)
<1>1. flags[o] \in Modes
  BY DEF TypeOK
<1>2. flags[o] \in [k8s : BOOLEAN, webhook : BOOLEAN, dryRun : BOOLEAN]
  BY <1>1, ModesAssumption
<1> QED BY <1>1, <1>2 DEF UseK8s, UseWebhook, DryRun, Caller, CallersOf

\* A step of the loop leaves the actuator alone, or is a step of one of its calls.
LEMMA ActuatorCases ==
  ASSUME TypeOK, [Next]_vars
  PROVE  \/ UNCHANGED k8sVars
         \/ KP!Stabilise
         \/ \E o \in Observers :
              \/ StartSwitch(o) /\ KP!Begin(Caller(o)) /\ UseK8s(o)
              \/ Actuate(o) /\ (KP!Proceed(Caller(o)) \/ KP!RequestFails(Caller(o)))
              \/ ActuateReturns(o) /\ KP!Return(Caller(o))
              \/ Crash(o) /\ KP!Crash(Caller(o))
<1>1. CASE UNCHANGED vars \/ TimePasses \/ ClusterChanges \/ Stabilise
  BY <1>1, SameSteps DEF vars, TimePasses, ClusterChanges, Stabilise
<1>2. ASSUME NEW o \in Observers, Boot(o) \/ Tick(o) \/ HoldSwitch(o) \/ NotifyOK(o) \/ NotifyFails(o)
      PROVE  UNCHANGED k8sVars
  BY <1>2 DEF Boot, Tick, HoldSwitch, NotifyOK, NotifyFails
<1>3. ASSUME NEW o \in Observers, StartSwitch(o)
      PROVE  UNCHANGED k8sVars \/ (UseK8s(o) /\ KP!Begin(Caller(o)))
  BY <1>3, CallerType, SameSteps DEF StartSwitch
<1>4. ASSUME NEW o \in Observers, Actuate(o)
      PROVE  KP!Proceed(Caller(o)) \/ KP!RequestFails(Caller(o))
  BY <1>4, CallerType, SameSteps DEF Actuate
<1>5. ASSUME NEW o \in Observers, ActuateReturns(o)
      PROVE  KP!Return(Caller(o))
  BY <1>5, CallerType, SameSteps DEF ActuateReturns
<1>6. ASSUME NEW o \in Observers, Crash(o)
      PROVE  UNCHANGED k8sVars \/ KP!Crash(Caller(o))
  BY <1>6, CallerType, SameSteps DEF Crash
<1> QED BY <1>1, <1>2, <1>3, <1>4, <1>5, <1>6 DEF Next, Iteration

\* Hence the actuator makes a step of its own, or none.
LEMMA ActuatorStep ==
  ASSUME TypeOK, [Next]_vars
  PROVE  [KP!Next]_(KP!vars)
<1>1. CASE UNCHANGED k8sVars
  BY <1>1 DEF k8sVars, KP!vars, KP!apiVars, KP!callerVars
<1>2. CASE KP!Stabilise
  BY <1>2 DEF KP!Next
<1>3. ASSUME NEW o \in Observers,
             \/ KP!Begin(Caller(o)) \/ KP!Proceed(Caller(o)) \/ KP!RequestFails(Caller(o))
             \/ KP!Return(Caller(o)) \/ KP!Crash(Caller(o))
      PROVE  KP!Next
  <2>1. \E c \in Observers \X BOOLEAN : KP!Call(c) \/ KP!Switch(c) \/ KP!Crash(c)
    BY <1>3, CallerType DEF CallersOf, KP!Call, KP!Switch
  <2> QED BY <2>1 DEF KP!Next
<1> QED BY <1>1, <1>2, <1>3, ActuatorCases

LEMMA LedgerStep ==
  ASSUME TypeOK, K!LedgerInv, [Next]_vars
  PROVE  K!LedgerInv'
<1>1. KP!LedgerInv /\ [KP!Next]_(KP!vars)
  BY SameState, ActuatorStep
<1>2. KP!LedgerInv'
  BY <1>1, ActuatorAssumptions, KP!StepInv
<1>3. K!LedgerInv' <=> KP!LedgerInv'
  BY SameState, PTL
<1> QED BY <1>2, <1>3

-----------------------------------------------------------------------------
(* What the steps leave behind *)

\* The end of an iteration: on a latch the machine is marked and, outside dry-run,
\* role and series follow.
LEMMA FinishFacts ==
  ASSUME TypeOK, NEW o \in Observers, NEW latch \in BOOLEAN, Finish(o, latch)
  PROVE  /\ pc' \in [Observers -> Points] /\ pc'[o] = "wait"
         /\ machine' \in [Observers -> Machines]
         /\ machine'[o].switched <=> machine[o].switched \/ latch
         /\ role' \in [Observers -> Regions] /\ region' \in [Observers -> Regions]
         /\ role'[o] = (IF latch /\ ~DryRun(o) THEN "secondary" ELSE role[o])
         /\ region'[o] = (IF latch THEN "secondary" ELSE region[o])
         /\ up' \in [Observers -> SUBSET Regions]
         /\ up'[o] = (IF latch /\ ~DryRun(o) THEN up[o] \ {"primary"} ELSE up[o])
         /\ \A x \in Observers : x # o =>
              /\ pc'[x] = pc[x] /\ machine'[x] = machine[x] /\ role'[x] = role[x]
              /\ region'[x] = region[x] /\ up'[x] = up[x]
<1> USE DEF TypeOK, Finish
<1>1. pc' \in [Observers -> Points] /\ pc'[o] = "wait"
  BY DEF Points
<1>2. MarkSwitched(machine[o]) \in Machines /\ MarkSwitched(machine[o]).switched = TRUE
  BY MachineFacts
<1>3. /\ machine' \in [Observers -> Machines]
      /\ machine'[o] = IF latch THEN MarkSwitched(machine[o]) ELSE machine[o]
  BY <1>2
<1>4. machine'[o].switched <=> machine[o].switched \/ latch
  BY <1>2, <1>3
<1>5. /\ role' \in [Observers -> Regions] /\ region' \in [Observers -> Regions]
      /\ role'[o] = (IF latch /\ ~DryRun(o) THEN "secondary" ELSE role[o])
      /\ region'[o] = (IF latch THEN "secondary" ELSE region[o])
  BY DEF Regions
<1>6. up' \in [Observers -> SUBSET Regions]
  <2>1. (IF latch /\ ~DryRun(o) THEN up[o] \ {"primary"} ELSE up[o]) \in SUBSET Regions
    OBVIOUS
  <2> QED BY <2>1
<1>7. up'[o] = (IF latch /\ ~DryRun(o) THEN up[o] \ {"primary"} ELSE up[o])
  OBVIOUS
<1>8. \A x \in Observers : x # o =>
        /\ pc'[x] = pc[x] /\ machine'[x] = machine[x] /\ role'[x] = role[x]
        /\ region'[x] = region[x] /\ up'[x] = up[x]
  OBVIOUS
<1> QED BY <1>1, <1>3, <1>4, <1>5, <1>6, <1>7, <1>8

\* The latch is a truth value.
LEMMA LatchType ==
  ASSUME TypeOK, NEW o \in Observers
  PROVE  Latched(o, TRUE) \in BOOLEAN /\ Latched(o, FALSE) \in BOOLEAN
  BY CallerType DEF TypeOK, Latched

\* The answer of the actuator.
LEMMA AnswerFacts ==
  ASSUME TypeOK, NEW o \in Observers, ActuateReturns(o)
  PROVE  /\ phase'[Caller(o)] = "idle"
         /\ \A c \in CallersOf : c # Caller(o) => phase'[c] = phase[c]
         /\ failovers' \in [Observers -> 0..2]
         /\ failovers'[o] = (IF outcome'[Caller(o)] = "switched" /\ failovers[o] < 2
                             THEN failovers[o] + 1 ELSE failovers[o])
         /\ moved' \in [Observers -> BOOLEAN]
         /\ moved'[o] <=> outcome'[Caller(o)] # "error"
         /\ \A x \in Observers : x # o => failovers'[x] = failovers[x] /\ moved'[x] = moved[x]
<1>1. Caller(o) \in CallersOf /\ KP!Return(Caller(o))
  BY CallerType, SameSteps DEF ActuateReturns
<1>2. /\ phase'[Caller(o)] = "idle"
      /\ \A c \in CallersOf : c # Caller(o) => phase'[c] = phase[c]
  BY <1>1 DEF KP!Return, KP!Leave, TypeOK, K!TypeOK, CallersOf
<1>3. /\ failovers' \in [Observers -> 0..2]
      /\ failovers'[o] = (IF outcome'[Caller(o)] = "switched" /\ failovers[o] < 2
                          THEN failovers[o] + 1 ELSE failovers[o])
      /\ \A x \in Observers : x # o => failovers'[x] = failovers[x]
  BY DEF ActuateReturns, TypeOK
<1>4. /\ moved' \in [Observers -> BOOLEAN]
      /\ moved'[o] <=> outcome'[Caller(o)] # "error"
      /\ \A x \in Observers : x # o => moved'[x] = moved[x]
  BY DEF ActuateReturns, TypeOK
<1> QED BY <1>2, <1>3, <1>4

\* Every step preserves the types.
LEMMA TypeStep ==
  ASSUME TypeOK, K!LedgerInv, [Next]_vars
  PROVE  TypeOK'
<1>k. K!TypeOK'
  BY LedgerStep DEF K!LedgerInv, K!CallsInv
<1>1. CASE UNCHANGED <<world, pc, machine, memory, role, moved, metrics>>
  BY <1>k, <1>1 DEF TypeOK, world, memory, metrics
<1>2. CASE TimePasses
  <2>1. machine' \in [Observers -> Machines]
    <3>1. \A o \in Observers : Aged(machine[o]) \in Machines
      BY MachineFacts DEF TypeOK
    <3> QED BY <1>2, <3>1 DEF TypeOK, TimePasses
  <2> QED BY <1>k, <1>2, <2>1 DEF TypeOK, TimePasses, world, memory, metrics
<1>3. CASE ClusterChanges
  BY <1>k, <1>3 DEF TypeOK, ClusterChanges, memory, metrics
<1>4. ASSUME NEW o \in Observers, Boot(o) PROVE TypeOK'
  <2>1. PICK f \in Modes, unread \in SUBSET Targets, connected \in BOOLEAN :
          LET already == Reconciled(f, unread)
              there   == SecondaryConn /\ connected
          IN  /\ machine' = [machine EXCEPT ![o] = New(already)]
              /\ flags' = [flags EXCEPT ![o] = f]
              /\ adopted' = [adopted EXCEPT ![o] = already]
              /\ secProber' = [secProber EXCEPT ![o] = there]
              /\ role' = [role EXCEPT ![o] = BootRole(already, there)]
              /\ region' = [region EXCEPT ![o] = IF already THEN "secondary" ELSE "primary"]
    BY <1>4 DEF Boot
  <2>2. f.k8s \in BOOLEAN /\ SecondaryConn \in BOOLEAN
    BY <2>1, ModesAssumption
  <2>3. Reconciled(f, unread) \in BOOLEAN /\ (SecondaryConn /\ connected) \in BOOLEAN
    BY <2>2 DEF Reconciled
  <2>4. \A a, b \in BOOLEAN : New(a) \in Machines /\ BootRole(a, b) \in Regions
    BY NewMachine DEF BootRole, Regions
  <2>5. /\ machine' \in [Observers -> Machines] /\ role' \in [Observers -> Regions]
    BY <2>1, <2>3, <2>4 DEF TypeOK
  <2>6. /\ flags' \in [Observers -> Modes] /\ adopted' \in [Observers -> BOOLEAN]
        /\ secProber' \in [Observers -> BOOLEAN]
    BY <2>1, <2>3 DEF TypeOK
  <2>7. region' \in [Observers -> Regions]
    BY <2>1 DEF TypeOK, Regions
  <2>8. /\ pc' \in [Observers -> Points] /\ up' \in [Observers -> SUBSET Regions]
        /\ failovers' \in [Observers -> 0..2] /\ moved' \in [Observers -> BOOLEAN]
        /\ posted' \subseteq Observers /\ verdict' = verdict
    BY <1>4 DEF TypeOK, Boot, Points
  <2> QED BY <1>k, <2>5, <2>6, <2>7, <2>8 DEF TypeOK
<1>5. ASSUME NEW o \in Observers, Tick(o) PROVE TypeOK'
  <2>1. verdict[role[o]] \in Statuses
    BY DEF TypeOK
  <2>2. Observe(machine[o], verdict[role[o]]) \in Machines
    <3>1. machine[o] \in Machines
      BY DEF TypeOK
    <3>2. ObservedDown(machine[o]) \in Machines /\ ObservedHealthy(machine[o]) \in Machines
      BY <3>1, ObservedFacts
    <3> QED BY <3>2, Zenon DEF Observe
  <2>3. machine' \in [Observers -> Machines]
    BY <1>5, <2>2 DEF TypeOK, Tick
  <2>4. pc' \in [Observers -> Points] /\ up' \in [Observers -> SUBSET Regions]
    BY <1>5 DEF TypeOK, Tick, Points
  <2> QED BY <1>k, <1>5, <2>3, <2>4 DEF TypeOK, Tick, world, memory
<1>6. ASSUME NEW o \in Observers, HoldSwitch(o) \/ StartSwitch(o) \/ Actuate(o) \/ Crash(o)
      PROVE  TypeOK'
  <2>1. UNCHANGED <<world, machine, memory, role, moved, metrics>>
    BY <1>6 DEF HoldSwitch, StartSwitch, Actuate, Crash
  <2>2. pc' \in [Observers -> Points]
    <3>1. \/ pc' = pc
          \/ \E p \in Points : pc' = [pc EXCEPT ![o] = p]
      BY <1>6, Zenon DEF HoldSwitch, StartSwitch, Actuate, Crash, Points
    <3> QED BY <3>1 DEF TypeOK
  <2> QED BY <1>k, <2>1, <2>2 DEF TypeOK, world, memory, metrics
<1>7. ASSUME NEW o \in Observers, ActuateReturns(o) PROVE TypeOK'
  <2>1. failovers' \in [Observers -> 0..2] /\ moved' \in [Observers -> BOOLEAN]
    BY <1>7, AnswerFacts
  <2>2. verdict' = verdict /\ posted' = posted /\ UNCHANGED memory
    BY <1>7 DEF ActuateReturns, world
  <2>3. CASE UseWebhook(o)
    <3>1. UNCHANGED <<machine, role, region, up>>
      BY <1>7, <2>3 DEF ActuateReturns
    <3>2. pc' \in [Observers -> Points]
      BY <1>7, <2>3 DEF TypeOK, ActuateReturns, Points
    <3> QED BY <1>k, <2>1, <2>2, <3>1, <3>2 DEF TypeOK, memory
  <2>4. CASE ~UseWebhook(o)
    <3>1. PICK latch \in BOOLEAN : Finish(o, latch)
      BY <1>7, <2>4 DEF ActuateReturns
    <3>2. /\ pc' \in [Observers -> Points] /\ machine' \in [Observers -> Machines]
          /\ role' \in [Observers -> Regions] /\ region' \in [Observers -> Regions]
          /\ up' \in [Observers -> SUBSET Regions]
      BY <3>1, FinishFacts
    <3> QED BY <1>k, <2>1, <2>2, <3>2 DEF TypeOK, memory
  <2> QED BY <2>3, <2>4
<1>8. ASSUME NEW o \in Observers, NotifyOK(o) \/ NotifyFails(o) PROVE TypeOK'
  <2>1. PICK latch \in BOOLEAN : Finish(o, latch)
    BY <1>8, LatchType DEF NotifyOK, NotifyFails
  <2>2. /\ pc' \in [Observers -> Points] /\ machine' \in [Observers -> Machines]
        /\ role' \in [Observers -> Regions] /\ region' \in [Observers -> Regions]
        /\ up' \in [Observers -> SUBSET Regions]
    BY <2>1, FinishFacts
  <2>3. posted' \subseteq Observers /\ verdict' = verdict /\ UNCHANGED <<memory, moved, failovers>>
    BY <1>8 DEF TypeOK, NotifyOK, NotifyFails
  <2> QED BY <1>k, <2>2, <2>3 DEF TypeOK, memory
<1> QED BY <1>1, <1>2, <1>3, <1>4, <1>5, <1>6, <1>7, <1>8 DEF Next, Iteration, vars, Stabilise

-----------------------------------------------------------------------------
(* The invariant, observer by observer *)

\* Everything an observer can be responsible for has moved; no call of another
\* configuration exists.
AllMoved ==
  /\ \A k \in DOMAIN ConfigMaps : cmData[ConfigMaps[k]] = Secondary
  /\ \A k \in DOMAIN Deployments : stamped[Deployments[k]] /\ serving[Deployments[k]] = Secondary

\* The part of the invariant that is about one observer.
OwnInv(o) ==
  /\ SwitchHasReason(o)
  /\ moved[o] => UseK8s(o)
  /\ Alive(o) /\ moved[o] => pc[o] = "notify" \/ machine[o].switched
  /\ moved[o] /\ ~DryRun(o) => AllMoved
  /\ failovers[o] > 0 => moved[o]
  /\ Alive(o) => (role[o] = "secondary" <=>
                    machine[o].switched /\ secProber[o] /\ (adopted[o] \/ ~DryRun(o)))
  /\ Alive(o) => up[o] \subseteq {role[o]}
  /\ ~UseK8s(o) /\ ~DryRun(o) /\ Latch(o) => o \in posted
  /\ Alive(o) => /\ region[o] = "secondary" <=> machine[o].switched
                 /\ UseK8s(o) /\ ~DryRun(o) /\ region[o] = "secondary" =>
                      Targets \subseteq OnSecondary
  /\ failovers[o] <= 1

LEMMA ConvergedMeans ==
  /\ \A c \in CallersOf : K!Converged(c) <=> AllMoved
  /\ \A c \in CallersOf : K!Converged(c)' <=> AllMoved'
  /\ AllMoved => Targets \subseteq OnSecondary
  /\ AllMoved' => Targets \subseteq OnSecondary'
<1>1. ASSUME NEW c \in CallersOf
      PROVE  (K!Converged(c) <=> AllMoved) /\ (K!Converged(c)' <=> AllMoved')
  BY <1>1, CallerCfg DEF CallersOf, K!Converged, K!Range, AllMoved
<1>2. \A k \in DOMAIN ConfigMaps : ConfigMaps[k] \in CMs
  BY ModesAssumption
<1>3. (AllMoved => Targets \subseteq OnSecondary) /\ (AllMoved' => Targets \subseteq OnSecondary')
  BY <1>2 DEF AllMoved, Targets, OnSecondary
<1> QED BY <1>1, <1>3

LEMMA InvParts ==
  ObserverInv <=> /\ TypeOK /\ K!LedgerInv
                  /\ \A c \in CallersOf : CallIsLoops(c)
                  /\ \A o \in Observers : OwnInv(o)
<1>1. ASSUME TypeOK, NEW o \in Observers
      PROVE  K!Converged(Caller(o)) <=> AllMoved
  BY <1>1, CallerType, ConvergedMeans
<1>2. ASSUME TypeOK
      PROVE  (\A o \in Observers : OwnInv(o)) <=>
               /\ \A o \in Observers : SwitchHasReason(o) /\ MovedIsMoved(o)
               /\ HealthFollowsSwitch /\ NoStaleSeries /\ WebhookLatchMeansDelivered
               /\ ActiveRegionIsLatch /\ FailoverCountedOnce
  BY <1>1, <1>2, Zenon DEF OwnInv, MovedIsMoved, HealthFollowsSwitch, NoStaleSeries,
     WebhookLatchMeansDelivered, ActiveRegionIsLatch, FailoverCountedOnce
<1> QED BY <1>2, Zenon DEF ObserverInv, CallersOf

\* What has moved stays where it is.
LEMMA MovedStays ==
  ASSUME TypeOK, K!LedgerInv, [Next]_vars
  PROVE  /\ AllMoved => AllMoved'
         /\ Targets \subseteq OnSecondary => Targets \subseteq OnSecondary'
<1>1. KP!LedgerInv /\ [KP!Next]_(KP!vars) /\ KP!LedgerInv'
  <2>1. KP!LedgerInv /\ [KP!Next]_(KP!vars)
    BY SameState, ActuatorStep
  <2> QED BY <2>1, ActuatorAssumptions, KP!StepInv
<1>2. /\ \A m \in CMs : cmData[m] = Secondary => cmData'[m] = Secondary
      /\ \A d \in Deps : stamped[d] => stamped'[d]
  BY <1>1, ActuatorAssumptions, KP!Monotone DEF KP!LedgerInv, KP!CallsInv
<1>3. \A d \in Deps : stamped'[d] => serving'[d] = Secondary
  BY <1>1 DEF KP!LedgerInv, KP!CallsInv, KP!StampMeansServing
<1>4. /\ \A k \in DOMAIN ConfigMaps : ConfigMaps[k] \in CMs
      /\ \A k \in DOMAIN Deployments : Deployments[k] \in Deps
  BY ModesAssumption
<1>5. AllMoved => AllMoved'
  BY <1>2, <1>3, <1>4 DEF AllMoved
<1>6. OnSecondary \subseteq OnSecondary'
  BY <1>2 DEF OnSecondary
<1> QED BY <1>5, <1>6

\* A step of one observer is not seen by another.
LEMMA Others ==
  ASSUME TypeOK, NEW o \in Observers, Boot(o) \/ Iteration(o) \/ Crash(o),
         NEW x \in Observers, x # o
  PROVE  /\ pc'[x] = pc[x] /\ flags'[x] = flags[x] /\ machine'[x] = machine[x]
         /\ adopted'[x] = adopted[x] /\ secProber'[x] = secProber[x] /\ role'[x] = role[x]
         /\ moved'[x] = moved[x] /\ up'[x] = up[x] /\ region'[x] = region[x]
         /\ failovers'[x] = failovers[x] /\ (x \in posted' <=> x \in posted)
<1>1. CASE Boot(o)
  BY <1>1 DEF TypeOK, Boot
<1>2. CASE Tick(o)
  BY <1>2 DEF TypeOK, Tick, world, memory
<1>3. CASE HoldSwitch(o) \/ StartSwitch(o) \/ Actuate(o) \/ Crash(o)
  <2>1. UNCHANGED <<world, machine, memory, role, moved, metrics>>
    BY <1>3 DEF HoldSwitch, StartSwitch, Actuate, Crash
  <2>2. pc'[x] = pc[x]
    <3>1. \/ pc' = pc
          \/ \E p \in Points : pc' = [pc EXCEPT ![o] = p]
      BY <1>3, Zenon DEF HoldSwitch, StartSwitch, Actuate, Crash, Points
    <3> QED BY <3>1 DEF TypeOK
  <2> QED BY <2>1, <2>2 DEF world, memory, metrics
<1>4. CASE ActuateReturns(o)
  <2>1. failovers'[x] = failovers[x] /\ moved'[x] = moved[x]
    BY <1>4, AnswerFacts
  <2>2. posted' = posted /\ UNCHANGED memory
    BY <1>4 DEF ActuateReturns, world
  <2>3. CASE UseWebhook(o)
    <3>1. UNCHANGED <<machine, role, region, up>> /\ pc'[x] = pc[x]
      BY <1>4, <2>3 DEF ActuateReturns, TypeOK
    <3> QED BY <2>1, <2>2, <3>1 DEF memory
  <2>4. CASE ~UseWebhook(o)
    <3>1. PICK latch \in BOOLEAN : Finish(o, latch)
      BY <1>4, <2>4 DEF ActuateReturns
    <3> QED BY <2>1, <2>2, <3>1, FinishFacts DEF memory
  <2> QED BY <2>3, <2>4
<1>5. CASE NotifyOK(o) \/ NotifyFails(o)
  <2>1. PICK latch \in BOOLEAN : Finish(o, latch)
    BY <1>5, LatchType DEF NotifyOK, NotifyFails
  <2>2. UNCHANGED <<memory, moved, failovers>> /\ (x \in posted' <=> x \in posted)
    BY <1>5 DEF NotifyOK, NotifyFails
  <2> QED BY <2>1, <2>2, FinishFacts DEF memory
<1> QED BY <1>1, <1>2, <1>3, <1>4, <1>5 DEF Iteration

\* What keeps the invariant of an observer that does not move itself: only time
\* passes for it, and what has moved stays.
LEMMA Kept ==
  ASSUME TypeOK, NEW o \in Observers, OwnInv(o),
         pc'[o] = pc[o], flags'[o] = flags[o],
         adopted'[o] = adopted[o], secProber'[o] = secProber[o], role'[o] = role[o],
         moved'[o] = moved[o], up'[o] = up[o], region'[o] = region[o],
         failovers'[o] = failovers[o], o \in posted => o \in posted',
         machine'[o].switched = machine[o].switched, machine'[o].inDown = machine[o].inDown,
         machine[o].inDown /\ machine[o].downFor = FailoverDelay =>
           machine'[o].downFor = FailoverDelay,
         AllMoved => AllMoved',
         Targets \subseteq OnSecondary => Targets \subseteq OnSecondary'
  PROVE  OwnInv(o)'
  BY DEF OwnInv, SwitchHasReason, Alive, Latch, UseK8s, DryRun

-----------------------------------------------------------------------------
(* Only the process that is in the actuator is in a call *)

\* A step of o touches no call but its own.
LEMMA OtherCalls ==
  ASSUME TypeOK, K!LedgerInv, NEW o \in Observers, Boot(o) \/ Iteration(o) \/ Crash(o),
         NEW c \in CallersOf, c # Caller(o)
  PROVE  phase'[c] = phase[c]
<1>1. CASE UNCHANGED k8sVars
  BY <1>1 DEF k8sVars
<1>2. CASE \/ KP!Begin(Caller(o)) \/ KP!Proceed(Caller(o)) \/ KP!RequestFails(Caller(o))
           \/ KP!Return(Caller(o)) \/ KP!Crash(Caller(o))
  <2>1. KP!TypeOK
    BY SameState DEF TypeOK
  <2>2. KP!Call(Caller(o)) \/ KP!Switch(Caller(o)) \/ KP!Crash(Caller(o))
    BY <1>2 DEF KP!Call, KP!Switch
  <2>3. Caller(o) \in Observers \X BOOLEAN /\ c \in Observers \X BOOLEAN
    BY CallerType DEF CallersOf
  <2> QED BY <2>1, <2>2, <2>3, ActuatorAssumptions, KP!Locality
<1>3. ASSUME Boot(o) \/ Tick(o) \/ HoldSwitch(o) \/ NotifyOK(o) \/ NotifyFails(o)
      PROVE  UNCHANGED k8sVars
  BY <1>3 DEF Boot, Tick, HoldSwitch, NotifyOK, NotifyFails
<1>4. ASSUME StartSwitch(o) PROVE UNCHANGED k8sVars \/ KP!Begin(Caller(o))
  BY <1>4, CallerType, SameSteps DEF StartSwitch
<1>5. ASSUME Actuate(o) PROVE KP!Proceed(Caller(o)) \/ KP!RequestFails(Caller(o))
  BY <1>5, CallerType, SameSteps DEF Actuate
<1>6. ASSUME ActuateReturns(o) PROVE KP!Return(Caller(o))
  BY <1>6, CallerType, SameSteps DEF ActuateReturns
<1>7. ASSUME Crash(o) PROVE UNCHANGED k8sVars \/ KP!Crash(Caller(o))
  BY <1>7, CallerType, SameSteps DEF Crash
<1> QED BY <1>1, <1>2, <1>3, <1>4, <1>5, <1>6, <1>7 DEF Iteration

\* Where a step of o leaves o and its call.
LEMMA OwnCall ==
  ASSUME TypeOK, NEW o \in Observers, Boot(o) \/ Iteration(o) \/ Crash(o),
         CallIsLoops(Caller(o))
  PROVE  \/ phase'[Caller(o)] = "idle"
         \/ pc'[o] = "actuate" /\ flags'[o] = flags[o]
<1>0. Caller(o)[1] = o
  BY CallerType
<1>1. CASE Boot(o) \/ Tick(o) \/ HoldSwitch(o) \/ NotifyOK(o) \/ NotifyFails(o)
  <2>1. pc[o] # "actuate" /\ UNCHANGED k8sVars
    BY <1>1 DEF Boot, Tick, HoldSwitch, NotifyOK, NotifyFails
  <2> QED BY <1>0, <2>1 DEF CallIsLoops, k8sVars
<1>2. CASE StartSwitch(o)
  <2>1. pc[o] = "probeSecondary" /\ flags' = flags
    BY <1>2 DEF StartSwitch, memory
  <2>2. CASE pc' = [pc EXCEPT ![o] = "actuate"]
    BY <2>1, <2>2 DEF TypeOK
  <2>3. CASE UNCHANGED k8sVars
    BY <1>0, <2>1, <2>3 DEF CallIsLoops, k8sVars
  <2> QED BY <1>2, <2>2, <2>3 DEF StartSwitch
<1>3. CASE Actuate(o)
  BY <1>3 DEF Actuate, memory
<1>4. CASE ActuateReturns(o)
  BY <1>4, AnswerFacts
<1>5. CASE Crash(o)
  <2>1. CASE phase[Caller(o)] = "idle" /\ UNCHANGED k8sVars
    BY <2>1 DEF k8sVars
  <2>2. CASE KP!Crash(Caller(o))
    <3>1. phase \in [Observers \X BOOLEAN -> K!Phases] /\ Caller(o) \in Observers \X BOOLEAN
      BY CallerType DEF TypeOK, K!TypeOK, CallersOf
    <3> QED BY <2>2, <3>1 DEF KP!Crash, KP!Leave
  <2> QED BY <1>5, <2>1, <2>2, CallerType, SameSteps DEF Crash
<1> QED BY <1>1, <1>2, <1>3, <1>4, <1>5 DEF Iteration

LEMMA LoopStep ==
  ASSUME TypeOK, K!LedgerInv, [Next]_vars, \A c \in CallersOf : CallIsLoops(c)
  PROVE  \A c \in CallersOf : CallIsLoops(c)'
<1>1. ASSUME NEW c \in CallersOf, UNCHANGED <<phase, pc, flags>>
      PROVE  CallIsLoops(c)'
  BY <1>1 DEF CallIsLoops, Caller, DryRun
<1>2. ASSUME NEW o \in Observers, Boot(o) \/ Iteration(o) \/ Crash(o), NEW c \in CallersOf
      PROVE  CallIsLoops(c)'
  <2>0. c[1] \in Observers
    BY DEF CallersOf
  <2>1. CASE c = Caller(o)
    <3>1. CallIsLoops(Caller(o)) /\ Caller(o)[1] = o
      BY <2>1, CallerType
    <3>2. \/ phase'[c] = "idle"
          \/ pc'[o] = "actuate" /\ flags'[o] = flags[o]
      BY <1>2, <2>1, <3>1, OwnCall
    <3>3. CASE phase'[c] = "idle"
      BY <3>3 DEF CallIsLoops
    <3>4. CASE pc'[o] = "actuate" /\ flags'[o] = flags[o]
      <4>1. c = <<o, flags[o].dryRun>>
        BY <2>1 DEF Caller, DryRun
      <4> QED BY <3>4, <4>1 DEF CallIsLoops, Caller, DryRun
    <3> QED BY <3>2, <3>3, <3>4
  <2>2. CASE c # Caller(o)
    <3>1. phase'[c] = phase[c]
      BY <1>2, <2>2, OtherCalls
    <3>2. CASE c[1] = o
      BY <2>2, <3>1, <3>2 DEF CallIsLoops
    <3>3. CASE c[1] # o
      <4>1. pc'[c[1]] = pc[c[1]] /\ flags'[c[1]] = flags[c[1]]
        BY <1>2, <2>0, <3>3, Others
      <4> QED BY <3>1, <4>1 DEF CallIsLoops, Caller, DryRun
    <3> QED BY <3>2, <3>3
  <2> QED BY <2>1, <2>2
<1>3. CASE Stabilise
  BY <1>1, <1>3 DEF Stabilise, K!Stabilise, K!callerVars, memory
<1>4. CASE UNCHANGED vars \/ TimePasses \/ ClusterChanges
  BY <1>1, <1>4 DEF vars, TimePasses, ClusterChanges, k8sVars, memory
<1> QED BY <1>2, <1>3, <1>4 DEF Next

-----------------------------------------------------------------------------
(* The steps of an observer keep its own part *)

LEMMA BootOwn ==
  ASSUME TypeOK, NEW o \in Observers, Boot(o)
  PROVE  OwnInv(o)'
<1>1. PICK f \in Modes, unread \in SUBSET Targets, connected \in BOOLEAN :
        LET already == Reconciled(f, unread)
            there   == SecondaryConn /\ connected
        IN  /\ machine' = [machine EXCEPT ![o] = New(already)]
            /\ flags' = [flags EXCEPT ![o] = f]
            /\ adopted' = [adopted EXCEPT ![o] = already]
            /\ secProber' = [secProber EXCEPT ![o] = there]
            /\ role' = [role EXCEPT ![o] = BootRole(already, there)]
            /\ region' = [region EXCEPT ![o] = IF already THEN "secondary" ELSE "primary"]
  BY DEF Boot
<1> DEFINE already == Reconciled(f, unread)
           there == SecondaryConn /\ connected
<1>2. already \in BOOLEAN /\ there \in BOOLEAN
  BY <1>1, ModesAssumption DEF Reconciled
<1>3. /\ machine'[o].switched = already /\ adopted'[o] = already /\ secProber'[o] = there
      /\ role'[o] = BootRole(already, there) /\ flags'[o] = f
      /\ region'[o] = IF already THEN "secondary" ELSE "primary"
  <2>1. New(already).switched = already
    BY <1>2, NewMachine
  <2> QED BY <1>1, <2>1 DEF TypeOK
<1>4. /\ pc'[o] = "wait" /\ up'[o] = {} /\ failovers'[o] = 0 /\ moved'[o] = FALSE
      /\ UNCHANGED cmData
  BY DEF Boot, TypeOK, k8sVars
<1>5. already => f.k8s /\ Targets \subseteq OnSecondary'
  BY <1>4 DEF Reconciled, OnSecondary
<1> HIDE DEF already, there
<1>6. role'[o] = "secondary" <=> already /\ there
  BY <1>3 DEF BootRole
<1> QED BY <1>2, <1>3, <1>4, <1>5, <1>6 DEF OwnInv, SwitchHasReason, Alive, Latch, UseK8s, DryRun

\* What a tick does to the machine: a switch that is due has sustained DOWN behind it.
LEMMA TickMachine ==
  ASSUME TypeOK, NEW o \in Observers, Tick(o)
  PROVE  /\ machine'[o].switched = machine[o].switched
         /\ pc'[o] = "probeSecondary" =>
              /\ machine'[o].inDown /\ machine'[o].downFor = FailoverDelay
              /\ ~machine'[o].switched
<1> DEFINE observed == Observe(machine[o], verdict[role[o]])
<1>0. machine[o] \in Machines
  BY DEF TypeOK
<1>1. /\ observed.switched = machine[o].switched
      /\ observed.switchRequired =>
           observed.inDown /\ observed.downFor = FailoverDelay /\ ~observed.switched
  <2>1. PICK n : n = machine[o]
    OBVIOUS
  <2>2. n \in Machines
    BY <2>1, <1>0
  <2>3. CASE verdict[role[o]] = "DOWN"
    <3>1. observed = ObservedDown(n)
      BY <2>1, <2>3, Zenon DEF Observe
    <3>2. ObservedDown(n).downFor \in 0..FailoverDelay
      BY <2>2, ObservedFacts DEF Machines
    <3>3. /\ ObservedDown(n).switched = n.switched
          /\ ObservedDown(n).switchRequired =>
               /\ ObservedDown(n).inDown /\ ObservedDown(n).downFor = FailoverDelay
               /\ ~ObservedDown(n).switched
      <4>1. /\ ObservedDown(n).switched = n.switched /\ ObservedDown(n).inDown = TRUE
            /\ ObservedDown(n).switchRequired =
                 (~n.switched /\ ObservedDown(n).downFor >= FailoverDelay)
        BY <2>2, ObservedFacts, Zenon
      <4>2. ObservedDown(n).downFor >= FailoverDelay => ObservedDown(n).downFor = FailoverDelay
        BY <3>2
      <4> QED BY <4>1, <4>2, Zenon
    <3> QED BY <2>1, <3>1, <3>3, Zenon
  <2>4. CASE verdict[role[o]] # "DOWN"
    <3>1. observed = ObservedHealthy(n)
      BY <2>1, <2>4, Zenon DEF Observe
    <3>2. ObservedHealthy(n).switched = n.switched /\ ObservedHealthy(n).switchRequired = FALSE
      BY <2>2, ObservedFacts
    <3> QED BY <2>1, <3>1, <3>2, Zenon
  <2> QED BY <2>3, <2>4
<1>2. machine'[o] = observed /\ (pc'[o] = "probeSecondary" => observed.switchRequired)
  BY DEF Tick, TypeOK
<1> HIDE DEF observed
<1> QED BY <1>1, <1>2, Zenon

LEMMA TickOwn ==
  ASSUME TypeOK, NEW o \in Observers, Tick(o), OwnInv(o)
  PROVE  OwnInv(o)'
<1>1. /\ machine'[o].switched = machine[o].switched
      /\ pc'[o] = "probeSecondary" =>
           /\ machine'[o].inDown /\ machine'[o].downFor = FailoverDelay
           /\ ~machine'[o].switched
  BY TickMachine
<1>2. /\ pc[o] = "wait" /\ pc'[o] \in {"probeSecondary", "wait"}
      /\ up'[o] = up[o] \cup {role[o]}
  BY DEF Tick, TypeOK
<1>3. /\ UNCHANGED <<flags, adopted, secProber, role, moved, region, failovers, posted>>
      /\ UNCHANGED <<cmData, stamped, serving>>
  BY DEF Tick, world, memory, k8sVars
<1>4. (AllMoved' <=> AllMoved) /\ (Targets \subseteq OnSecondary' <=> Targets \subseteq OnSecondary)
  BY <1>3 DEF AllMoved, OnSecondary
<1> QED BY <1>1, <1>2, <1>3, <1>4 DEF OwnInv, SwitchHasReason, Alive, Latch, UseK8s, DryRun

LEMMA PointOwn ==
  ASSUME TypeOK, NEW o \in Observers, OwnInv(o),
         HoldSwitch(o) \/ StartSwitch(o) \/ Actuate(o) \/ Crash(o),
         AllMoved => AllMoved',
         Targets \subseteq OnSecondary => Targets \subseteq OnSecondary'
  PROVE  OwnInv(o)'
<1>1. UNCHANGED <<flags, adopted, secProber, role, moved, up, region, failovers, machine, posted>>
  BY DEF HoldSwitch, StartSwitch, Actuate, Crash, world, memory, metrics
<1>2. \/ pc'[o] = "wait" /\ pc[o] = "probeSecondary"
      \/ /\ pc'[o] \in {"actuate", "notify"} /\ pc[o] = "probeSecondary" /\ secProber[o]
         /\ pc'[o] = "actuate" => UseK8s(o)
      \/ pc'[o] = pc[o]
      \/ pc'[o] = "down"
  <2>1. CASE HoldSwitch(o)
    BY <2>1 DEF HoldSwitch, TypeOK
  <2>2. CASE StartSwitch(o)
    <3>1. /\ pc[o] = "probeSecondary" /\ secProber[o]
          /\ \/ UseK8s(o) /\ pc' = [pc EXCEPT ![o] = "actuate"]
             \/ pc' = [pc EXCEPT ![o] = "notify"]
      BY <2>2, Zenon DEF StartSwitch, SecondaryReady
    <3> QED BY <3>1 DEF TypeOK
  <2>3. CASE Actuate(o)
    BY <2>3 DEF Actuate
  <2>4. CASE Crash(o)
    <3>1. pc' = [pc EXCEPT ![o] = "down"]
      BY <2>4 DEF Crash
    <3> QED BY <3>1 DEF TypeOK
  <2> QED BY <2>1, <2>2, <2>3, <2>4
<1> QED BY <1>1, <1>2 DEF OwnInv, SwitchHasReason, Alive, Latch, UseK8s, DryRun

\* An answer without error outside dry-run: everything has moved.
LEMMA AnswerMoved ==
  ASSUME TypeOK, K!LedgerInv, [Next]_vars, NEW o \in Observers, ActuateReturns(o),
         outcome'[Caller(o)] # "error", ~DryRun(o)
  PROVE  AllMoved'
<1>c. PICK c \in CallersOf : c = Caller(o)
  BY CallerType
<1>0. c \in Observers \X BOOLEAN /\ c[2] = FALSE
  BY <1>c, CallerType DEF CallersOf
<1>1. KP!Return(c)
  BY <1>c, SameSteps DEF ActuateReturns
<1>2. KP!LedgerInv'
  BY LedgerStep, SameState, PTL
<1>3. KP!ReportedStays(c)' /\ KP!StampMeansServing'
  BY <1>0, <1>2 DEF KP!LedgerInv, KP!CallsInv
<1>4. outcome'[c] \in {"switched", "noop"}
  <2>1. outcome \in [Observers \X BOOLEAN -> K!Outcomes]
    BY DEF TypeOK, K!TypeOK
  <2>2. outcome' = [outcome EXCEPT ![c] = KP!Verdict(led[c])]
    BY <1>1 DEF KP!Return
  <2>3. outcome'[c] = KP!Verdict(led[c])
    BY <1>0, <2>1, <2>2
  <2>4. KP!Verdict(led[c]) \in {"error", "switched", "noop"}
    BY DEF KP!Verdict
  <2>5. outcome'[c] # "error"
    BY <1>c
  <2> QED BY <2>3, <2>4, <2>5
<1>5. LET cfg == [x \in Observers \X BOOLEAN |->
                    [configMaps |-> ConfigMaps, deployments |-> Deployments, dryRun |-> x[2]]]
      IN  cfg[c].configMaps = ConfigMaps /\ cfg[c].deployments = Deployments /\ cfg[c].dryRun = FALSE
  BY <1>0, CallerCfg
<1>6. /\ \A m \in KP!Range(ConfigMaps) : cmData'[m] = Secondary
      /\ \A d \in KP!Range(Deployments) : stamped'[d]
  BY <1>3, <1>4, <1>5 DEF KP!ReportedStays, KP!Reported
<1>7. /\ \A k \in DOMAIN ConfigMaps : cmData'[ConfigMaps[k]] = Secondary
      /\ \A k \in DOMAIN Deployments : stamped'[Deployments[k]]
  BY <1>6 DEF KP!Range
<1>8. \A k \in DOMAIN Deployments : Deployments[k] \in Deps
  BY ModesAssumption
<1> QED BY <1>3, <1>7, <1>8 DEF AllMoved, KP!StampMeansServing

\* The end of an iteration keeps the invariant: the latch and what was moved
\* agree, and role, series and gauge follow in the same step.
LEMMA FinishOwn ==
  ASSUME TypeOK, NEW o \in Observers, NEW latch \in BOOLEAN, Finish(o, latch), OwnInv(o),
         pc[o] \in {"actuate", "notify"},
         flags'[o] = flags[o], adopted'[o] = adopted[o], secProber'[o] = secProber[o],
         o \in posted => o \in posted',
         ~UseK8s(o) /\ ~DryRun(o) /\ latch => o \in posted',
         moved'[o] => UseK8s(o) /\ latch, UseK8s(o) /\ latch => moved'[o],
         moved'[o] /\ ~DryRun(o) => AllMoved',
         failovers'[o] <= 1, failovers'[o] > 0 => moved'[o],
         Targets \subseteq OnSecondary => Targets \subseteq OnSecondary'
  PROVE  OwnInv(o)'
<1>1. /\ pc'[o] = "wait"
      /\ machine'[o].switched <=> machine[o].switched \/ latch
      /\ role'[o] = (IF latch /\ ~DryRun(o) THEN "secondary" ELSE role[o])
      /\ region'[o] = (IF latch THEN "secondary" ELSE region[o])
      /\ up'[o] = (IF latch /\ ~DryRun(o) THEN up[o] \ {"primary"} ELSE up[o])
  BY FinishFacts
<1>2. ~machine[o].switched /\ secProber[o] /\ ~adopted[o] /\ role[o] \in {"primary", "secondary"}
  BY DEF OwnInv, SwitchHasReason, Alive, TypeOK, Regions
<1>3. role[o] = "primary" /\ up[o] \subseteq {"primary"}
  BY <1>2 DEF OwnInv, Alive
<1>4. up'[o] \subseteq {role'[o]}
  BY <1>1, <1>3
<1>5. role'[o] = "secondary" <=> latch /\ ~DryRun(o)
  BY <1>1, <1>3
<1>6. AllMoved' => Targets \subseteq OnSecondary'
  BY ConvergedMeans
<1>7. SwitchHasReason(o)'
  BY <1>1, <1>2 DEF SwitchHasReason, Alive
<1>8. UseK8s(o)' = UseK8s(o) /\ DryRun(o)' = DryRun(o)
  BY DEF UseK8s, DryRun
<1> QED BY <1>1, <1>2, <1>4, <1>5, <1>6, <1>7, <1>8 DEF OwnInv, Alive, Latch

LEMMA AnswerOwn ==
  ASSUME TypeOK, K!LedgerInv, [Next]_vars, NEW o \in Observers, ActuateReturns(o), OwnInv(o),
         Targets \subseteq OnSecondary => Targets \subseteq OnSecondary'
  PROVE  OwnInv(o)'
<1> DEFINE latch == outcome'[Caller(o)] # "error"
<1>1. pc[o] = "actuate" /\ UNCHANGED <<flags, adopted, secProber, posted>>
  BY DEF ActuateReturns, memory, world
<1>2. UseK8s(o) /\ ~machine[o].switched /\ secProber[o] /\ ~moved[o] /\ failovers[o] = 0
  <2>1. UseK8s(o) /\ ~machine[o].switched /\ secProber[o] /\ ~moved[o]
    BY <1>1 DEF OwnInv, SwitchHasReason, Alive
  <2>2. failovers[o] \in 0..2 /\ ~(failovers[o] > 0)
    BY <2>1 DEF OwnInv, TypeOK
  <2> QED BY <2>1, <2>2
<1>3. /\ moved'[o] <=> latch
      /\ failovers'[o] <= 1 /\ (failovers'[o] > 0 => moved'[o])
  <2>1. /\ moved'[o] <=> latch
        /\ failovers'[o] = IF outcome'[Caller(o)] = "switched" /\ failovers[o] < 2
                           THEN failovers[o] + 1 ELSE failovers[o]
    BY AnswerFacts
  <2> QED BY <1>2, <2>1
<1>4. moved'[o] /\ ~DryRun(o) => AllMoved'
  BY <1>3, AnswerMoved
<1>5. CASE UseWebhook(o)
  <2>1. UNCHANGED <<machine, role, region, up>> /\ pc' = [pc EXCEPT ![o] = "notify"]
    BY <1>5 DEF ActuateReturns
  <2>2. pc'[o] = "notify"
    BY <2>1 DEF TypeOK
  <2>3. SwitchHasReason(o)'
    BY <1>1, <1>2, <2>1, <2>2 DEF OwnInv, SwitchHasReason, Alive
  <2>4. UseK8s(o)' = UseK8s(o) /\ DryRun(o)' = DryRun(o)
    BY <1>1 DEF UseK8s, DryRun
  <2> QED BY <1>1, <1>2, <1>3, <1>4, <2>1, <2>2, <2>3, <2>4 DEF OwnInv, Alive, Latch
<1>6. CASE ~UseWebhook(o)
  <2>1. PICK l \in BOOLEAN : l = latch
    OBVIOUS
  <2>2. Finish(o, l)
    BY <1>6, <2>1 DEF ActuateReturns
  <2> QED BY <1>1, <1>2, <1>3, <1>4, <2>1, <2>2, FinishOwn
<1> QED BY <1>5, <1>6

LEMMA NotifyOwn ==
  ASSUME TypeOK, NEW o \in Observers, NotifyOK(o) \/ NotifyFails(o), OwnInv(o),
         AllMoved => AllMoved',
         Targets \subseteq OnSecondary => Targets \subseteq OnSecondary'
  PROVE  OwnInv(o)'
<1>1. /\ pc[o] = "notify" /\ UNCHANGED <<flags, adopted, secProber, moved, failovers>>
      /\ o \in posted => o \in posted'
  BY DEF NotifyOK, NotifyFails, memory
<1>2. PICK latch \in BOOLEAN : /\ Finish(o, latch)
                               /\ UseK8s(o) => (latch <=> moved[o])
                               /\ ~UseK8s(o) /\ ~DryRun(o) /\ latch => o \in posted'
  <2>1. CASE NotifyOK(o)
    <3>1. UseK8s(o) => (Latched(o, TRUE) <=> moved[o])
      BY DEF Latched
    <3>2. Finish(o, Latched(o, TRUE)) /\ (~DryRun(o) => o \in posted')
      BY <2>1 DEF NotifyOK
    <3> QED BY <3>1, <3>2, LatchType
  <2>2. CASE NotifyFails(o)
    <3>1. /\ UseK8s(o) => (Latched(o, FALSE) <=> moved[o])
          /\ ~UseK8s(o) => Latched(o, FALSE) = FALSE
      BY DEF Latched
    <3>2. Finish(o, Latched(o, FALSE))
      BY <2>2 DEF NotifyFails
    <3> QED BY <3>1, <3>2, LatchType
  <2> QED BY <2>1, <2>2
<1>3. /\ moved'[o] => UseK8s(o) /\ latch
      /\ UseK8s(o) /\ latch => moved'[o]
      /\ moved'[o] /\ ~DryRun(o) => AllMoved'
      /\ failovers'[o] <= 1 /\ (failovers'[o] > 0 => moved'[o])
  BY <1>1, <1>2 DEF OwnInv
<1> QED BY <1>1, <1>2, <1>3, FinishOwn

-----------------------------------------------------------------------------
(* The inductive invariant *)

LEMMA ObserverInit == Init => ObserverInv
<1> SUFFICES ASSUME Init PROVE ObserverInv
  OBVIOUS
<1>1. K!LedgerInv
  <2>1. KP!Init
    BY SameState DEF Init
  <2> QED BY <2>1, ActuatorAssumptions, KP!InitInv, SameState
<1>2. TypeOK
  <2>1. New(FALSE) \in Machines
    BY NewMachine
  <2>2. machine \in [Observers -> Machines]
    BY <2>1 DEF Init
  <2>3. K!TypeOK
    BY <1>1 DEF K!LedgerInv, K!CallsInv
  <2>4. /\ verdict \in [Regions -> Statuses] /\ flags \in [Observers -> Modes]
        /\ posted \subseteq Observers /\ pc \in [Observers -> Points]
    BY DEF Init, Points
  <2>5. /\ adopted \in [Observers -> BOOLEAN] /\ secProber \in [Observers -> BOOLEAN]
        /\ moved \in [Observers -> BOOLEAN]
    BY DEF Init
  <2>6. /\ role \in [Observers -> Regions] /\ region \in [Observers -> Regions]
        /\ up \in [Observers -> SUBSET Regions] /\ failovers \in [Observers -> 0..2]
    BY DEF Init, Regions
  <2> QED BY <2>2, <2>3, <2>4, <2>5, <2>6 DEF TypeOK
<1>3. ASSUME NEW c \in CallersOf PROVE CallIsLoops(c)
  BY DEF CallIsLoops, CallersOf, Init, K!Init
<1>4. ASSUME NEW o \in Observers PROVE OwnInv(o)
  BY DEF Init, OwnInv, SwitchHasReason, Alive, Latch
<1> QED BY <1>1, <1>2, <1>3, <1>4, InvParts

LEMMA ObserverStep == ObserverInv /\ [Next]_vars => ObserverInv'
<1> SUFFICES ASSUME ObserverInv, [Next]_vars PROVE ObserverInv'
  OBVIOUS
<1>1. /\ TypeOK /\ K!LedgerInv
      /\ \A c \in CallersOf : CallIsLoops(c)
      /\ \A o \in Observers : OwnInv(o)
  BY InvParts
<1>2. TypeOK' /\ K!LedgerInv' /\ \A c \in CallersOf : CallIsLoops(c)'
  BY <1>1, TypeStep, LedgerStep, LoopStep
<1>3. /\ AllMoved => AllMoved'
      /\ Targets \subseteq OnSecondary => Targets \subseteq OnSecondary'
  BY <1>1, MovedStays
<1>4. ASSUME NEW x \in Observers PROVE OwnInv(x)'
  <2>0. OwnInv(x)
    BY <1>1
  <2>1. CASE UNCHANGED vars \/ ClusterChanges \/ Stabilise
    <3>1. UNCHANGED <<posted, pc, machine, memory, role, moved, metrics>>
      BY <2>1 DEF vars, ClusterChanges, Stabilise, world
    <3> QED BY <1>1, <1>3, <2>0, <3>1, Kept DEF memory, metrics
  <2>2. CASE TimePasses
    <3>1. UNCHANGED <<posted, pc, memory, role, moved, metrics>>
      BY <2>2 DEF TimePasses, world
    <3>2. machine[x] \in Machines
      BY <1>1 DEF TypeOK
    <3>3. machine'[x] = machine[x] \/ machine'[x] = Aged(machine[x])
      BY <2>2 DEF TimePasses
    <3>4. PICK m \in Machines : m = machine[x]
      BY <3>2
    <3>5. PICK n : n = machine'[x]
      OBVIOUS
    <3>6. /\ n.switched = m.switched /\ n.inDown = m.inDown
          /\ m.inDown /\ m.downFor = FailoverDelay => n.downFor = FailoverDelay
      <4>1. CASE n = m
        BY <4>1
      <4>2. CASE n = Aged(m)
        <5>1. /\ Aged(m).switched = m.switched /\ Aged(m).inDown = m.inDown
              /\ m.inDown => Aged(m).downFor = IF m.downFor < FailoverDelay
                                               THEN m.downFor + 1 ELSE m.downFor
          BY MachineFacts
        <5>2. m.downFor = FailoverDelay => ~(m.downFor < FailoverDelay)
          OBVIOUS
        <5> QED BY <4>2, <5>1, <5>2
      <4> QED BY <3>3, <3>4, <3>5, <4>1, <4>2
    <3> QED BY <1>1, <1>3, <2>0, <3>1, <3>4, <3>5, <3>6, Kept DEF memory, metrics
  <2>3. ASSUME NEW o \in Observers, Boot(o) \/ Iteration(o) \/ Crash(o), x # o
        PROVE  OwnInv(x)'
    <3>1. /\ pc'[x] = pc[x] /\ flags'[x] = flags[x] /\ machine'[x] = machine[x]
          /\ adopted'[x] = adopted[x] /\ secProber'[x] = secProber[x] /\ role'[x] = role[x]
          /\ moved'[x] = moved[x] /\ up'[x] = up[x] /\ region'[x] = region[x]
          /\ failovers'[x] = failovers[x] /\ (x \in posted' <=> x \in posted)
      BY <1>1, <2>3, Others
    <3> QED BY <1>1, <1>3, <2>0, <3>1, Kept
  <2>4. ASSUME Boot(x) \/ Iteration(x) \/ Crash(x)
        PROVE  OwnInv(x)'
    <3>1. CASE Boot(x)
      BY <1>1, <3>1, BootOwn
    <3>2. CASE Tick(x)
      BY <1>1, <2>0, <3>2, TickOwn
    <3>3. CASE HoldSwitch(x) \/ StartSwitch(x) \/ Actuate(x) \/ Crash(x)
      BY <1>1, <1>3, <2>0, <3>3, PointOwn
    <3>4. CASE ActuateReturns(x)
      BY <1>1, <1>3, <2>0, <3>4, AnswerOwn
    <3>5. CASE NotifyOK(x) \/ NotifyFails(x)
      BY <1>1, <1>3, <2>0, <3>5, NotifyOwn
    <3> QED BY <2>4, <3>1, <3>2, <3>3, <3>4, <3>5 DEF Iteration
  <2> QED BY <2>1, <2>2, <2>3, <2>4 DEF Next
<1>5. (\A c \in CallersOf : CallIsLoops(c))' /\ (\A o \in Observers : OwnInv(o))'
  BY <1>2, <1>4
<1>6. ObserverInv' <=> /\ TypeOK' /\ K!LedgerInv'
                       /\ (\A c \in CallersOf : CallIsLoops(c))'
                       /\ (\A o \in Observers : OwnInv(o))'
  BY InvParts, PTL
<1> QED BY <1>2, <1>5, <1>6

\* Every reachable state of any number of overlapping observers satisfies the
\* strengthened invariant.
THEOREM ObserverInvariant == Spec => []ObserverInv
  BY ObserverInit, ObserverStep, PTL DEF Spec

-----------------------------------------------------------------------------
(* What follows from it *)

\* The cluster that is probed is the secondary exactly when this process has moved
\* the applications or found them moved, and can reach it (main.go:436-453).
THEOREM HealthFollows == Spec => []HealthFollowsSwitch
  BY ObserverInvariant, PTL DEF ObserverInv

\* The series of a cluster that is not watched any more is not left behind.
THEOREM SeriesFollow == Spec => []NoStaleSeries
  BY ObserverInvariant, PTL DEF ObserverInv

\* A webhook-only latch means that the receiver has taken the request.
THEOREM LatchIsDelivery == Spec => []WebhookLatchMeansDelivered
  BY ObserverInvariant, PTL DEF ObserverInv

\* The active region exported is the latch of the process, and an observer that
\* moves applications itself names the secondary only when all its ConfigMaps
\* point there, through crashes, adoption and overlapping observers.
THEOREM RegionIsLatch == Spec => []ActiveRegionIsLatch
  BY ObserverInvariant, PTL DEF ObserverInv

\* A process counts at most one failover, however often it retries.
THEOREM FailoverIsOne == Spec => []FailoverCountedOnce
  BY ObserverInvariant, PTL DEF ObserverInv

\* Whoever moves an application or notifies has seen DOWN for the whole delay, has a
\* prober for the secondary and has not latched.
THEOREM OnlySustainedDownMoves == Spec => MovesOnlyAfterSustainedDown
<1> DEFINE Moves == cmData' # cmData \/ restarts' # restarts \/ ~(posted' \subseteq posted)
           Reason == \E o \in Observers : /\ pc[o] \in {"actuate", "notify"} /\ secProber[o]
                                          /\ machine[o].inDown /\ machine[o].downFor = FailoverDelay
                                          /\ ~machine[o].switched
<1>1. ASSUME ObserverInv, [Next]_vars, Moves PROVE Reason
  <2>0. TypeOK /\ \A o \in Observers : SwitchHasReason(o)
    BY <1>1 DEF ObserverInv
  <2>1. ASSUME NEW o \in Observers, pc[o] \in {"actuate", "notify"} PROVE Reason
    BY <2>0, <2>1 DEF SwitchHasReason
  <2>2. CASE cmData' # cmData \/ restarts' # restarts
    <3>1. \E o \in Observers : Actuate(o)
      BY <1>1, <2>0, <2>2, ActuatorCases DEF k8sVars, KP!Stabilise, KP!Begin, KP!Return, KP!Crash,
         KP!apiVars
    <3> QED BY <2>1, <3>1 DEF Actuate
  <2>3. CASE ~(posted' \subseteq posted)
    <3>1. \E o \in Observers : NotifyOK(o) \/ NotifyFails(o)
      BY <1>1, <2>3 DEF Next, Iteration, Boot, Tick, HoldSwitch, StartSwitch, Actuate,
         ActuateReturns, Crash, TimePasses, ClusterChanges, Stabilise, vars, world
    <3> QED BY <2>1, <3>1 DEF NotifyOK, NotifyFails
  <2> QED BY <1>1, <2>2, <2>3
<1>2. ObserverInv /\ [Next]_vars => (Moves => Reason)
  BY <1>1
<1> QED BY <1>2, ObserverInvariant, PTL DEF Spec, MovesOnlyAfterSustainedDown

\* A process that has completed a failover never starts another one.
THEOREM CompletedIsNotRepeated == Spec => NeverRepeatsCompletedFailover
<1> DEFINE Once == \A o \in Observers :
                     phase[Caller(o)] = "idle" /\ phase'[Caller(o)] # "idle" => ~moved[o]
<1>1. ASSUME ObserverInv, [Next]_vars PROVE Once
  <2>0. /\ TypeOK /\ K!LedgerInv /\ \A c \in CallersOf : CallIsLoops(c)
        /\ \A o \in Observers : OwnInv(o)
    BY <1>1, InvParts
  <2> SUFFICES ASSUME NEW o \in Observers, phase[Caller(o)] = "idle", phase'[Caller(o)] # "idle"
               PROVE  ~moved[o]
    OBVIOUS
  <2>1. PICK x \in Observers : Boot(x) \/ Iteration(x) \/ Crash(x)
    BY <1>1 DEF Next, vars, k8sVars, TimePasses, ClusterChanges, Stabilise, K!Stabilise,
       K!callerVars
  <2>2. Caller(o) \in CallersOf /\ Caller(x) \in CallersOf /\ Caller(o)[1] = o /\ Caller(x)[1] = x
    BY <2>0, CallerType
  <2>3. Caller(o) = Caller(x)
    <3>1. PICK c \in CallersOf : c = Caller(o)
      BY <2>2
    <3> QED BY <2>0, <2>1, <3>1, OtherCalls
  <2>4. x = o
    BY <2>2, <2>3
  <2>5. pc'[o] = "actuate"
    BY <2>0, <2>1, <2>2, <2>4, OwnCall
  <2>6. pc[o] \in {"probeSecondary", "actuate"}
    <3>1. CASE StartSwitch(o) \/ Actuate(o)
      BY <3>1 DEF StartSwitch, Actuate
    <3>2. CASE Boot(o) \/ Tick(o) \/ HoldSwitch(o) \/ Crash(o)
      BY <2>0, <2>5, <3>2 DEF TypeOK, Boot, Tick, HoldSwitch, Crash
    <3>3. CASE ActuateReturns(o)
      BY <2>0, <3>3, AnswerFacts
    <3>4. CASE NotifyOK(o) \/ NotifyFails(o)
      <4>1. pc' = [pc EXCEPT ![o] = "wait"]
        BY <3>4 DEF NotifyOK, NotifyFails, Finish
      <4> QED BY <2>0, <2>5, <4>1 DEF TypeOK
    <3> QED BY <2>1, <2>4, <3>1, <3>2, <3>3, <3>4 DEF Iteration
  <2> QED BY <2>0, <2>6 DEF OwnInv, SwitchHasReason, Alive
<1> QED BY <1>1, ObserverInvariant, PTL DEF Spec, NeverRepeatsCompletedFailover

\* A running process takes back neither its latch, nor the cluster it watches, nor the
\* region it exports.
NoFailback ==
  [][\A o \in Observers : Alive(o) /\ Alive(o)' =>
       /\ machine[o].switched => machine'[o].switched
       /\ role[o] = "secondary" => role'[o] = "secondary"
       /\ region[o] = "secondary" => region'[o] = "secondary"]_vars

\* Iterations leave the latch, the role and the region or turn them to the secondary.
LEMMA IterationKeeps ==
  ASSUME TypeOK, NEW o \in Observers, Iteration(o)
  PROVE  /\ machine[o].switched => machine'[o].switched
         /\ role[o] = "secondary" => role'[o] = "secondary"
         /\ region[o] = "secondary" => region'[o] = "secondary"
<1>1. CASE Tick(o)
  <2>1. UNCHANGED <<role, region>>
    BY <1>1 DEF Tick
  <2> QED BY <1>1, <2>1, TickMachine
<1>2. CASE HoldSwitch(o) \/ StartSwitch(o) \/ Actuate(o)
  BY <1>2 DEF HoldSwitch, StartSwitch, Actuate, metrics
<1>3. CASE \E latch \in BOOLEAN : Finish(o, latch)
  BY <1>3, FinishFacts
<1>4. CASE ActuateReturns(o) \/ NotifyOK(o) \/ NotifyFails(o)
  <2>1. UNCHANGED <<machine, role, region>> \/ \E latch \in BOOLEAN : Finish(o, latch)
    BY <1>4, LatchType DEF ActuateReturns, NotifyOK, NotifyFails
  <2> QED BY <1>3, <2>1
<1> QED BY <1>1, <1>2, <1>4 DEF Iteration

\* There is no automatic failback: a recovery of the primary, a failed retry, a dropped
\* webhook or what other observers do never turn a running process back to the primary.
\* Only a new process starts afresh (pkg/state/machine.go:42-43,
\* pkg/svchealth/active.go:8-9).
THEOREM NothingFailsBack == Spec => NoFailback
<1> DEFINE Stays(o) == /\ machine[o].switched => machine'[o].switched
                       /\ role[o] = "secondary" => role'[o] = "secondary"
                       /\ region[o] = "secondary" => region'[o] = "secondary"
           Kept2 == \A o \in Observers : Alive(o) /\ Alive(o)' => Stays(o)
<1>1. ASSUME TypeOK, [Next]_vars, NEW o \in Observers, Alive(o), Alive(o)' PROVE Stays(o)
  <2>1. CASE UNCHANGED vars \/ ClusterChanges \/ Stabilise
    BY <2>1 DEF vars, ClusterChanges, Stabilise, metrics
  <2>2. CASE TimePasses
    <3>1. machine'[o] = machine[o] \/ machine'[o] = Aged(machine[o])
      BY <2>2 DEF TimePasses
    <3>2. Aged(machine[o]).switched = machine[o].switched
      BY <1>1, MachineFacts DEF TypeOK
    <3>3. UNCHANGED <<role, region>>
      BY <2>2 DEF TimePasses, metrics
    <3> QED BY <3>1, <3>2, <3>3
  <2>3. ASSUME NEW x \in Observers, Boot(x) \/ Iteration(x) \/ Crash(x), x # o PROVE Stays(o)
    BY <1>1, <2>3, Others
  <2>4. CASE Boot(o)
    BY <1>1, <2>4 DEF Boot, Alive
  <2>5. CASE Crash(o)
    BY <2>5 DEF Crash, metrics
  <2>6. CASE Iteration(o)
    BY <1>1, <2>6, IterationKeeps
  <2> QED BY <1>1, <2>1, <2>2, <2>3, <2>4, <2>5, <2>6 DEF Next
<1>2. ASSUME ObserverInv, [Next]_vars PROVE Kept2
  BY <1>1, <1>2 DEF ObserverInv
<1>3. ObserverInv /\ [Next]_vars => [Kept2]_vars
  BY <1>2
<1> QED BY <1>3, ObserverInvariant, PTL DEF Spec, NoFailback

-----------------------------------------------------------------------------
(* What the theorems about the actuator say of the observers *)

\* The processes that roll: one call each, as themselves.
LEMMA RollersAreObservers ==
  ASSUME NEW S \in SUBSET KP!Writers
  PROVE  /\ Cardinality(S) <= Cardinality(Observers)
         /\ Cardinality(S) \in Nat /\ Cardinality(Observers) \in Nat
<1>1. IsFiniteSet({FALSE}) /\ Cardinality({FALSE}) = 1
  BY FS_Singleton
<1>2. IsFiniteSet(Observers)
  BY ObserverTargetAssumption
<1>3. /\ IsFiniteSet(Observers \X {FALSE})
      /\ Cardinality(Observers \X {FALSE}) = Cardinality(Observers) * 1
  BY <1>1, <1>2, FS_Product
<1>4. S \in SUBSET (Observers \X {FALSE})
  <2>1. ASSUME NEW c \in S PROVE c \in Observers \X {FALSE}
    <3>1. c \in CallersOf /\ c[2] = FALSE
      BY <2>1, CallerCfg DEF KP!Writers, CallersOf
    <3> QED BY <3>1 DEF CallersOf
  <2> QED BY <2>1
<1>5. Cardinality(S) <= Cardinality(Observers \X {FALSE}) /\ IsFiniteSet(S)
  BY <1>3, <1>4, FS_Subset
<1>6. Cardinality(Observers) \in Nat /\ Cardinality(S) \in Nat
  BY <1>2, <1>5, FS_CardinalityType
<1> QED BY <1>3, <1>5, <1>6

\* However many observers overlap, die and are started again during a failover, a
\* Deployment is restarted at most once per observer (k8s.go:141-146).
RestartsPerObserver == \A d \in Deps : restarts[d] <= Cardinality(Observers)

THEOREM ObserversRestartBoundedly ==
  Spec => KP!Spec /\ []RestartsPerObserver /\ KP!RequestsBounded
<1>1. Init => KP!Init
  BY SameState DEF Init
<1>2. ObserverInv /\ [Next]_vars => [KP!Next]_(KP!vars)
  BY ActuatorStep DEF ObserverInv
<1>3. Spec => KP!Spec
  BY <1>1, <1>2, ObserverInvariant, PTL DEF Spec, KP!Spec
<1>4. KP!Spec => []KP!RestartsBounded
  BY ActuatorAssumptions, KP!RestartsAreBounded
<1>5. ObserverInv /\ KP!RestartsBounded => RestartsPerObserver
  <2> SUFFICES ASSUME TypeOK, KP!RestartsBounded, NEW d \in Deps
               PROVE  restarts[d] <= Cardinality(Observers)
    BY DEF ObserverInv, RestartsPerObserver
  <2>1. PICK S \in SUBSET KP!Writers : restarts[d] <= Cardinality(S)
    <3>1. \E S \in SUBSET KP!Writers : restarts[d] <= KP!Cardinality(S)
      BY DEF KP!RestartsBounded
    <3>2. ASSUME NEW S PROVE KP!Cardinality(S) = Cardinality(S)
      BY DEF KP!Cardinality, Cardinality
    <3> QED BY <3>1, <3>2
  <2>2. restarts[d] \in Nat
    BY DEF TypeOK, K!TypeOK
  <2> QED BY <2>1, <2>2, RollersAreObservers
<1>6. KP!Spec => KP!RequestsBounded
  BY ActuatorAssumptions, KP!RequestsAreBounded
<1> QED BY <1>3, <1>4, <1>5, <1>6, ObserverInvariant, PTL

-----------------------------------------------------------------------------
(* The latch is the report of RegionSwitch *)

Told == {o \in Movers : OwnLatch(o)}

\* What a step may do to the strings and the applications.
LEMMA WorldMoves ==
  ASSUME TypeOK, K!LedgerInv, [Next]_vars
  PROVE  \/ UNCHANGED <<cmData, serving>>
         \/ \E s \in CMs : /\ cmData[s] = Primary
                           /\ cmData' = [cmData EXCEPT ![s] = Secondary]
                           /\ serving' = serving
         \/ \E a \in Deps : /\ cmData[ReadsFrom[a]] = Secondary
                            /\ serving' = [serving EXCEPT ![a] = Secondary]
                            /\ cmData' = cmData
<1>1. KP!LedgerInv /\ [KP!Next]_(KP!vars) /\ KP!LedgerInv'
  <2>1. KP!LedgerInv /\ [KP!Next]_(KP!vars)
    BY SameState, ActuatorStep
  <2> QED BY <2>1, ActuatorAssumptions, KP!StepInv
<1>2. [KP!R!SwitchNext]_(KP!R!switchVars)
  BY <1>1, ActuatorAssumptions, KP!SwitchStepMaps
<1> QED BY <1>2 DEF KP!R!SwitchNext, KP!R!switchVars, KP!R!MoveString, KP!R!MoveApp, KP!R!Tell,
   KP!R!Retract

\* A process that is told of is one that has moved everything.
LEMMA MovedIsAll ==
  ASSUME NEW o \in Observers, AllMoved
  PROVE  R!Moved(o)
  BY DEF AllMoved, R!Moved, Targets

\* A mover of its own latch.
Tells(o) == UseK8s(o) /\ ~DryRun(o) /\ OwnLatch(o)

LEMMA ToldMeans ==
  /\ Told = {o \in Observers : Tells(o)}
  /\ Told' = {o \in Observers : Tells(o)'}
  BY DEF Told, Movers, Tells

LEMMA LatchInit == Init => R!SwitchInit
<1> SUFFICES ASSUME Init PROVE R!SwitchInit
  OBVIOUS
<1>1. {o \in Movers : OwnLatch(o)} = {}
  BY DEF Init, Movers, OwnLatch, Latch, Alive
<1>2. cmData \in [CMs -> {Primary, Secondary}] /\ serving \in [Deps -> {Primary, Secondary}]
  BY DEF Init, K!Init
<1> QED BY <1>1, <1>2 DEF R!SwitchInit

\* If nobody starts or stops telling, the step moves one string or one application.
LEMMA SilentStep ==
  ASSUME TypeOK, K!LedgerInv, [Next]_vars,
         \A x \in Observers : Tells(x)' <=> Tells(x)
  PROVE  [R!SwitchNext]_(R!switchVars)
<1>0. Told' = Told
  BY ToldMeans
<1>1. CASE UNCHANGED <<cmData, serving>>
  BY <1>0, <1>1 DEF R!switchVars, Told
<1>2. ASSUME NEW s \in CMs, cmData[s] = Primary, cmData' = [cmData EXCEPT ![s] = Secondary],
             serving' = serving
      PROVE  R!SwitchNext
  <2>1. R!MoveString(s)
    BY <1>0, <1>2 DEF R!MoveString, Told
  <2> QED BY <2>1 DEF R!SwitchNext
<1>3. ASSUME NEW a \in Deps, cmData[ReadsFrom[a]] = Secondary, cmData' = cmData,
             serving' = [serving EXCEPT ![a] = Secondary]
      PROVE  R!SwitchNext
  <2>1. R!MoveApp(a)
    BY <1>0, <1>3 DEF R!MoveApp, Told
  <2> QED BY <2>1 DEF R!SwitchNext
<1> QED BY <1>1, <1>2, <1>3, WorldMoves

\* If one process may start telling, having moved everything, or stop.
LEMMA TellingStep ==
  ASSUME NEW o \in Observers, UNCHANGED <<cmData, serving>>,
         \A x \in Observers : x # o => (Tells(x)' <=> Tells(x)),
         Tells(o)' => Tells(o) \/ AllMoved
  PROVE  [R!SwitchNext]_(R!switchVars)
<1>1. CASE Tells(o)' <=> Tells(o)
  <2>1. Told' = Told
    BY <1>1, ToldMeans
  <2> QED BY <2>1 DEF R!switchVars, Told
<1>2. CASE Tells(o)' /\ ~Tells(o)
  <2>1. Told' = Told \cup {o}
    BY <1>2, ToldMeans
  <2>2. R!Tell(o)
    BY <1>2, <2>1, MovedIsAll DEF R!Tell, Told
  <2> QED BY <2>2 DEF R!SwitchNext
<1>3. CASE ~Tells(o)' /\ Tells(o)
  <2>1. Told' = Told \ {o}
    BY <1>3, ToldMeans
  <2>2. R!Retract(o)
    BY <2>1 DEF R!Retract, Told
  <2> QED BY <2>2 DEF R!SwitchNext
<1> QED BY <1>1, <1>2, <1>3

\* Every step of the observers is a step of RegionSwitch or invisible to it.
LEMMA LatchStep ==
  ASSUME ObserverInv, ObserverInv', [Next]_vars
  PROVE  [R!SwitchNext]_(R!switchVars)
<1>0. /\ TypeOK /\ K!LedgerInv
      /\ \A o \in Observers : OwnInv(o)
  BY InvParts
<1>i. (\A o \in Observers : OwnInv(o))'
  <2>1. ObserverInv' => (\A o \in Observers : OwnInv(o))'
    BY InvParts, PTL
  <2> QED BY <2>1
<1>1. CASE UNCHANGED vars \/ ClusterChanges \/ Stabilise
  <2>1. UNCHANGED <<pc, flags, machine, adopted>>
    BY <1>1 DEF vars, ClusterChanges, Stabilise, memory
  <2> QED BY <1>0, <2>1, SilentStep DEF Tells, UseK8s, DryRun, OwnLatch, Latch, Alive
<1>2. CASE TimePasses
  <2>1. UNCHANGED <<pc, flags, adopted>>
    BY <1>2 DEF TimePasses, memory
  <2>2. \A x \in Observers : machine'[x].switched <=> machine[x].switched
    <3>1. \A x \in Observers : machine[x] \in Machines
      BY <1>0 DEF TypeOK
    <3>2. \A x \in Observers : Aged(machine[x]).switched = machine[x].switched
      BY <3>1, MachineFacts
    <3>3. \A x \in Observers : machine'[x] = machine[x] \/ machine'[x] = Aged(machine[x])
      BY <1>2 DEF TimePasses
    <3> QED BY <3>2, <3>3, Zenon
  <2> QED BY <1>0, <2>1, <2>2, SilentStep DEF Tells, UseK8s, DryRun, OwnLatch, Latch, Alive
<1>3. ASSUME NEW o \in Observers, Boot(o) \/ Iteration(o) \/ Crash(o)
      PROVE  [R!SwitchNext]_(R!switchVars)
  <2>0. \A x \in Observers : x # o => (Tells(x)' <=> Tells(x))
    <3>1. \A x \in Observers : x # o => /\ pc'[x] = pc[x] /\ flags'[x] = flags[x]
                                        /\ machine'[x] = machine[x] /\ adopted'[x] = adopted[x]
      BY <1>0, <1>3, Others
    <3> QED BY <3>1 DEF Tells, UseK8s, DryRun, OwnLatch, Latch, Alive
  <2>1. ASSUME Tells(o)' <=> Tells(o) PROVE [R!SwitchNext]_(R!switchVars)
    BY <1>0, <2>0, <2>1, SilentStep
  <2>2. CASE Boot(o)
    <3>1. ~Alive(o) /\ pc'[o] = "wait"
      BY <1>0, <2>2 DEF Boot, Alive, TypeOK
    <3>2. adopted'[o] = machine'[o].switched
      <4>1. PICK a \in BOOLEAN : /\ machine' = [machine EXCEPT ![o] = New(a)]
                                 /\ adopted' = [adopted EXCEPT ![o] = a]
        BY <2>2, ModesAssumption DEF Boot, Reconciled
      <4>2. New(a).switched = a
        BY NewMachine
      <4> QED BY <1>0, <4>1, <4>2 DEF TypeOK
    <3> QED BY <2>1, <3>1, <3>2 DEF Tells, OwnLatch, Latch, Alive
  <2>3. CASE Tick(o)
    <3>1. pc[o] # "down" /\ pc'[o] # "down" /\ UNCHANGED <<flags, adopted>>
      BY <1>0, <2>3 DEF Tick, TypeOK, memory
    <3>2. machine'[o].switched = machine[o].switched
      BY <1>0, <2>3, TickMachine
    <3> QED BY <2>1, <3>1, <3>2 DEF Tells, UseK8s, DryRun, OwnLatch, Latch, Alive
  <2>4. CASE HoldSwitch(o) \/ StartSwitch(o) \/ Actuate(o)
    <3>1. pc[o] # "down" /\ pc'[o] # "down"
      <4>1. \/ pc' = pc /\ pc[o] # "down"
            \/ \E p \in Points \ {"down"} : pc' = [pc EXCEPT ![o] = p] /\ pc[o] # "down"
        BY <2>4, Zenon DEF HoldSwitch, StartSwitch, Actuate, Points
      <4> QED BY <1>0, <4>1 DEF TypeOK
    <3>2. UNCHANGED <<flags, adopted, machine>>
      BY <2>4 DEF HoldSwitch, StartSwitch, Actuate, memory
    <3> QED BY <2>1, <3>1, <3>2 DEF Tells, UseK8s, DryRun, OwnLatch, Latch, Alive
  <2>5. CASE Crash(o)
    <3>1. UNCHANGED <<cmData, serving>>
      BY <1>0, <2>5 DEF Crash, K!Crash, K!apiVars, k8sVars
    <3>2. pc'[o] = "down"
      BY <1>0, <2>5 DEF Crash, TypeOK
    <3>3. ~Tells(o)'
      BY <3>2 DEF Tells, OwnLatch, Latch, Alive
    <3> QED BY <2>0, <3>1, <3>3, TellingStep
  <2>6. CASE ActuateReturns(o) \/ NotifyOK(o) \/ NotifyFails(o)
    <3>1. UNCHANGED <<cmData, stamped, serving>>
      BY <2>6 DEF ActuateReturns, NotifyOK, NotifyFails, K!Return, K!apiVars, k8sVars
    <3>2. UNCHANGED flags
      BY <2>6 DEF ActuateReturns, NotifyOK, NotifyFails, memory
    <3>3. AllMoved' <=> AllMoved
      BY <3>1 DEF AllMoved
    <3>4. machine[o].switched \/ (UseK8s(o) /\ machine'[o].switched => moved'[o])
      <4>1. CASE ActuateReturns(o)
        <5>1. CASE UseWebhook(o)
          BY <4>1, <5>1 DEF ActuateReturns
        <5>2. CASE ~UseWebhook(o)
          <6>1. PICK latch \in BOOLEAN : Finish(o, latch) /\ (latch <=> outcome'[Caller(o)] # "error")
            BY <4>1, <5>2 DEF ActuateReturns
          <6> QED BY <1>0, <4>1, <6>1, FinishFacts, AnswerFacts
        <5> QED BY <5>1, <5>2
      <4>2. CASE NotifyOK(o) \/ NotifyFails(o)
        <5>1. PICK latch \in BOOLEAN : Finish(o, latch) /\ (UseK8s(o) => (latch <=> moved[o]))
          <6>1. UseK8s(o) => /\ Latched(o, TRUE) <=> moved[o]
                             /\ Latched(o, FALSE) <=> moved[o]
            BY DEF Latched
          <6> QED BY <1>0, <4>2, <6>1, LatchType DEF NotifyOK, NotifyFails
        <5>2. moved' = moved
          BY <4>2 DEF NotifyOK, NotifyFails
        <5> QED BY <1>0, <5>1, <5>2, FinishFacts
      <4> QED BY <2>6, <4>1, <4>2
    <3>5. ~machine[o].switched
      BY <1>0, <2>6 DEF ActuateReturns, NotifyOK, NotifyFails, OwnInv, SwitchHasReason
    <3>6. Tells(o)' => AllMoved
      <4>1. UseK8s(o)' = UseK8s(o) /\ DryRun(o)' = DryRun(o)
        BY <3>2 DEF UseK8s, DryRun
      <4>2. OwnInv(o)'
        BY <1>i
      <4>3. moved'[o] /\ ~DryRun(o)' => AllMoved'
        BY <4>2 DEF OwnInv
      <4> QED BY <3>3, <3>4, <3>5, <4>1, <4>3 DEF Tells, OwnLatch, Latch
    <3> QED BY <2>0, <3>1, <3>6, TellingStep
  <2> QED BY <1>3, <2>2, <2>3, <2>4, <2>5, <2>6 DEF Iteration
<1> QED BY <1>1, <1>2, <1>3 DEF Next

\* A latch outside dry-run is a report that the region switch is complete: through
\* crashes, failed requests, dropped webhooks and overlapping observers.
THEOREM LatchRefinement == Spec => LatchImplementsRegionSwitch
<1>1. Init => R!SwitchInit
  BY LatchInit
<1>2. ObserverInv /\ ObserverInv' /\ [Next]_vars => [R!SwitchNext]_(R!switchVars)
  BY LatchStep
<1> QED
  BY <1>1, <1>2, ObserverInvariant, PTL DEF Spec, LatchImplementsRegionSwitch, R!SwitchSpec
=============================================================================
