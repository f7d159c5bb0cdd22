--------------------------- MODULE Failback_proofs ---------------------------
(***************************************************************************)
(* What is left of the actuator's promises once an operator has failed      *)
(* back.  LedgerInv is not: the stamps of the first outage now sit on       *)
(* Deployments that serve the primary.  CallsInv and RollsAreSpent are, for *)
(* they read no pod; StaleIsOwed takes the place of StampMeansServing as    *)
(* long as nothing has failed since.                                        *)
(*                                                                          *)
(* The argument: a patch makes every Deployment that reads the ConfigMap a  *)
(* debt of the call (AgreedAssumption), the roll loop skips none of its     *)
(* debts unless a request has failed, and a roll reads a ConfigMap that has *)
(* moved.  A caller that has reported success never patches again, so the   *)
(* debts that remain are those of the others.                               *)
(***************************************************************************)
EXTENDS Failback, K8sActuator_proofs

USE CfgAssumption, TargetAssumption, FiniteAssumption

\* No step of c that goes well loses a debt it does not pay.
LEMMA QuietKeeps ==
  ASSUME CallsInv, NEW c \in Callers, Call(c) \/ Proceed(c) \/ Return(c), ~Writes(c),
         ~led[c].errs, OwesNothing(c), NEW d \in Deps, Owes(c, d)
  PROVE  Owes(c, d)'
<1> USE DEF CallsInv, TypeOK, Owes
<1>0. /\ led[c].failedNS = {} /\ NamespaceOf[d] \in led[c].patchedNS
      /\ ~Cfg[c].dryRun /\ phase[c] # "idle"
      /\ \A k \in DOMAIN Cfg[c].deployments : k \in Nat /\ k >= 1 /\ (~MoreDeps(c) => k < pos[c])
  BY DepLoop DEF CallShape, NoLedger, OwesNothing
<1>1. CASE GetCMAlreadySwitched(c)
  BY <1>0, <1>1 DEF GetCMAlreadySwitched, Advance
<1>2. CASE GetCMPending(c)
  BY <1>0, <1>2, CallerPatched DEF GetCMPending, Advance
<1>3. CASE PatchDone(c)
  BY <1>0, <1>3 DEF PatchDone
<1>4. CASE GetDepAlreadyRolled(c)
  <2>1. PICK k \in DOMAIN Cfg[c].deployments : Cfg[c].deployments[k] = d /\ pos[c] <= k
    BY <1>4 DEF GetDepAlreadyRolled
  <2>2. k # pos[c]
    BY <1>0, <1>4, <2>1 DEF GetDepAlreadyRolled, AlreadyRolled, DepNS, Dep
  <2> QED BY <1>0, <1>4, <2>1, <2>2 DEF GetDepAlreadyRolled, Advance
<1>5. CASE GetDepToRoll(c)
  BY <1>0, <1>5 DEF GetDepToRoll
<1>6. CASE RollSkipped(c)
  BY <1>0, <1>6 DEF RollSkipped, Barred
<1>7. CASE Return(c)
  BY <1>0, <1>7 DEF Return
<1> QED
  BY <1>0, <1>1, <1>2, <1>3, <1>4, <1>5, <1>6, <1>7 DEF Proceed, Call, Begin, BeginEmpty, Writes

\* A patch keeps the debts of its call and adds what reads the ConfigMap.
LEMMA PatchKeeps ==
  ASSUME CallsInv, NEW c \in Callers, PutCM(c), NEW d \in Deps,
         \/ Owes(c, d)
         \/ ReadsFrom[d] = CM(c) /\ \E x \in Callers : d \in Range(Cfg[x].deployments)
  PROVE  Owes(c, d)'
<1> USE DEF CallsInv, TypeOK
<1>1. /\ MoreCMs(c) /\ CM(c) \in Range(Cfg[c].configMaps)
      /\ phase'[c] = "getCM" /\ led'[c] = Patched(led[c], CMNS(c))
  BY CurrentCM DEF PutCM, CallShape, Advance, CM, Range
<1>2. led'[c].patchedNS = led[c].patchedNS \cup {NamespaceOf[CM(c)]}
  BY <1>1, CallerPatched DEF CMNS
<1>3. CASE Owes(c, d)
  BY <1>1, <1>2, <1>3 DEF Owes
<1>4. ASSUME NEW x \in Callers, ReadsFrom[d] = CM(c), d \in Range(Cfg[x].deployments)
      PROVE  Owes(c, d)'
  <2>1. d \in Range(Cfg[c].deployments)
    BY <1>1, <1>4, AgreedAssumption
  <2>2. NamespaceOf[CM(c)] = NamespaceOf[d]
    BY <1>4, PairedAssumption
  <2> QED BY <1>1, <1>2, <2>1, <2>2 DEF Owes, Range
<1> QED BY <1>3, <1>4

\* A roll keeps the debts for the Deployments that are still to come.
LEMMA RollKeeps ==
  ASSUME CallsInv, NEW c \in Callers, PutDep(c), NEW d \in Deps, Owes(c, d), d # Dep(c)
  PROVE  Owes(c, d)'
<1> USE DEF CallsInv, TypeOK
<1>1. /\ phase[c] = "putDep" /\ phase'[c] = "getDep" /\ pos'[c] = pos[c] + 1 /\ led' = led
  BY DEF PutDep, Advance
<1>2. PICK k \in DOMAIN Cfg[c].deployments : Cfg[c].deployments[k] = d /\ pos[c] <= k
  BY <1>1 DEF Owes
<1>3. k # pos[c] /\ k \in Nat
  BY <1>2, DepLoop DEF Dep
<1> QED BY <1>1, <1>2, <1>3 DEF Owes

\* As long as all goes well, what is stamped and stale stays the debt of a call.
LEMMA StaleStep ==
  ASSUME CallsInv, StaleIsOwed, \A x \in Callers : ~led[x].errs /\ OwesNothing(x),
         NEW c \in Callers, Call(c) \/ Proceed(c) \/ Return(c)
  PROVE  StaleIsOwed'
<1> SUFFICES ASSUME NEW x \in Callers, NEW d \in Range(Cfg[x].deployments),
                    cmData'[ReadsFrom[d]] = Secondary, stamped'[d], serving'[d] # Secondary
             PROVE  \E y \in Callers : Owes(y, d)'
  BY DEF StaleIsOwed
<1> USE DEF CallsInv, TypeOK
<1>1. d \in Deps
  BY RefTypes DEF Range
<1>2. ASSUME NEW y \in Callers, y # c, Owes(y, d) PROVE Owes(y, d)'
  BY <1>2, Locality DEF Owes, Switch
<1>3. CASE ~Writes(c)
  <2>1. UNCHANGED <<cmData, stamped, serving>>
    BY <1>3, QuietOwes, <1>1 DEF apiVars, Switch
  <2>2. PICK y \in Callers : Owes(y, d)
    BY <2>1 DEF StaleIsOwed
  <2> QED BY <1>1, <1>2, <1>3, <2>2, QuietKeeps
<1>4. CASE PutCM(c)
  <2>1. /\ MoreCMs(c) /\ CM(c) \in CMs
        /\ cmData' = [cmData EXCEPT ![CM(c)] = Secondary] /\ UNCHANGED <<stamped, serving>>
    BY <1>4, CallerFacts DEF PutCM, WriteCM
  <2>2. CASE ReadsFrom[d] = CM(c)
    BY <1>1, <1>4, <2>2, PatchKeeps
  <2>3. CASE ReadsFrom[d] # CM(c)
    <3>1. PICK y \in Callers : Owes(y, d)
      BY <1>1, <2>1, <2>3 DEF StaleIsOwed
    <3> QED BY <1>1, <1>2, <1>4, <3>1, PatchKeeps
  <2> QED BY <2>2, <2>3
<1>5. CASE PutDep(c)
  <2>1. /\ Dep(c) \in Deps /\ cmData' = cmData
        /\ stamped' = [stamped EXCEPT ![Dep(c)] = TRUE]
        /\ serving' = [serving EXCEPT ![Dep(c)] = cmData[ReadsFrom[Dep(c)]]]
    BY <1>5, CallerFacts DEF PutDep, WriteDep
  <2>2. d # Dep(c)
    BY <1>1, <2>1
  <2>3. PICK y \in Callers : Owes(y, d)
    BY <1>1, <2>1, <2>2 DEF StaleIsOwed
  <2> QED BY <1>1, <1>2, <1>5, <2>2, <2>3, RollKeeps
<1>6. Writes(c) => PutCM(c) \/ PutDep(c)
  <2>1. Writes(c) => phase[c] \in {"putCM", "putDep"}
    BY DEF Writes, PutCM, PutCMAnswerLost, PutDep, PutDepAnswerLost
  <2>2. phase[c] \in {"putCM", "putDep"} => PutCM(c) \/ PutDep(c)
    BY DEF Call, Begin, BeginEmpty, Proceed, Return, GetCMAlreadySwitched, GetCMPending, PatchDone,
           RollSkipped, GetDepAlreadyRolled, GetDepToRoll
  <2> QED BY <2>1, <2>2
<1> QED BY <1>3, <1>4, <1>5, <1>6

\* A step that goes well records no error.
LEMMA ErrsStep ==
  ASSUME CallsInv, NEW c \in Callers, Call(c) \/ Proceed(c) \/ Return(c), ~led[c].errs
  PROVE  ~led'[c].errs
<1> USE DEF CallsInv, TypeOK
<1>1. /\ NoLedger.errs = FALSE /\ Counted(led[c]).errs = led[c].errs
      /\ MoreCMs(c) => Patched(led[c], CMNS(c)).errs = led[c].errs
  BY CallerLedger
<1>2. CASE GetCMPending(c)
  BY <1>1, <1>2 DEF GetCMPending
<1>3. CASE PutCM(c)
  BY <1>1, <1>3 DEF PutCM, CallShape
<1>4. CASE Return(c)
  BY <1>1, <1>4 DEF Return, Leave
<1> QED BY <1>2, <1>3, <1>4 DEF Call, Begin, BeginEmpty, Proceed, GetCMAlreadySwitched, PatchDone,
           RollSkipped, GetDepAlreadyRolled, GetDepToRoll, PutDep

\* A caller patches nothing once it has reported, and nothing in a dry run.
LEMMA OwesNothingStep ==
  ASSUME CallsInv, NEW c \in Callers, FreshCopy(c), OwesNothing(c),
         Call(c) \/ Switch(c) \/ Crash(c)
  PROVE  OwesNothing(c)'
<1> USE DEF CallsInv, TypeOK, OwesNothing
<1>1. CASE PutCM(c) \/ PutCMAnswerLost(c)
  <2>1. phase[c] = "putCM" /\ fresh[c] /\ outcome' = outcome
    BY <1>1 DEF PutCM, PutCMAnswerLost
  <2>2. /\ ~Cfg[c].dryRun /\ cmData[CM(c)] # Secondary
        /\ CM(c) \in Range(Cfg[c].configMaps)
    BY <2>1, CurrentCM DEF FreshCopy, CallShape, CM, Range
  <2>3. ~Reported(c)
    BY <2>2 DEF ReportedStays
  <2> QED BY <2>1, <2>2, <2>3 DEF Reported
<1>2. CASE Return(c)
  <2>1. Cfg[c].configMaps # <<>> /\ led'[c].patchedNS = {}
    BY <1>2, CallerPatched DEF Return, Leave, CallShape
  <2> QED BY <2>1
<1>3. CASE Crash(c)
  <2>1. outcome' = outcome /\ led'[c].patchedNS = {}
    BY <1>3, CallerPatched DEF Crash, Leave
  <2> QED BY <2>1 DEF Reported
<1>4. CASE BeginEmpty(c)
  <2>1. outcome'[c] = "error" /\ led' = led
    BY <1>4 DEF BeginEmpty
  <2> QED BY <2>1 DEF Reported
<1>5. ASSUME Call(c) \/ Switch(c), ~PutCM(c), ~PutCMAnswerLost(c), ~Return(c), ~BeginEmpty(c)
      PROVE  OwesNothing(c)'
  <2>1. outcome' = outcome
    BY <1>5 DEF Call, Begin, Switch, Proceed, RequestFails, GetCMAlreadySwitched, GetCMPending, PatchDone,
       RollSkipped, GetDepAlreadyRolled, GetDepToRoll, PutDep, GetCMFails, PutCMFails, GetDepFails,
       PutDepFails, PutDepAnswerLost
  <2>2. \/ led'[c] \in {led[c], Counted(led[c]), Erred(led[c])}
        \/ MoreCMs(c) /\ led'[c] = Failed(led[c], CMNS(c))
    BY <1>5 DEF Call, Begin, Switch, Proceed, RequestFails, GetCMAlreadySwitched, GetCMPending, PatchDone,
       RollSkipped, GetDepAlreadyRolled, GetDepToRoll, PutDep, GetCMFails, PutCMFails, GetDepFails,
       PutDepFails, PutDepAnswerLost, CMFails, DepFails, CallShape
  <2>3. led'[c].patchedNS = led[c].patchedNS
    BY <2>2, CallerPatched
  <2> QED BY <2>1, <2>3 DEF Reported
<1> QED BY <1>1, <1>2, <1>3, <1>4, <1>5

\* The step of a caller, or the end of the faults.
LEMMA ActuatorKeeps ==
  ASSUME FailbackInv, [Next]_vars
  PROVE  /\ CallsInv' /\ RollsAreSpent'
         /\ \A c \in Callers : FreshCopy(c)' /\ OwesNothing(c)'
<1> USE DEF FailbackInv
<1>1. CallsInv' /\ RollsAreSpent' /\ \A c \in Callers : FreshCopy(c)'
  BY CallsStep, SpentStep, FreshStep
<1>2. ASSUME NEW x \in Callers,
             led'[x] = led[x], outcome'[x] = outcome[x]
      PROVE  OwesNothing(x)'
  BY <1>2 DEF OwesNothing, Reported
<1>3. CASE UNCHANGED vars \/ Stabilise
  BY <1>1, <1>2, <1>3 DEF vars, callerVars, Stabilise
<1>4. ASSUME NEW c \in Callers, Call(c) \/ Switch(c) \/ Crash(c)
      PROVE  \A x \in Callers : OwesNothing(x)'
  <2>1. OwesNothing(c)'
    BY <1>4, OwesNothingStep
  <2>2. ASSUME NEW x \in Callers, x # c PROVE OwesNothing(x)'
    BY <1>2, <1>4, <2>2, Locality DEF CallsInv
  <2> QED BY <2>1, <2>2
<1> QED BY <1>1, <1>3, <1>4 DEF Next

\* The operator starts the history of moves and rolls again; no call is running.
LEMMA OperatorKeeps ==
  ASSUME FailbackInv, OperatorFailsBack
  PROVE  FailbackInv'
<1> USE DEF FailbackInv, OperatorFailsBack
<1>1. /\ phase' = phase /\ pos' = pos /\ led' = led /\ stamped' = stamped
      /\ \A c \in Callers : phase[c] = "idle" /\ led[c] = NoLedger /\ outcome'[c] = "none"
  BY DEF CallsInv, CallShape
<1>2. CallsInv'
  <2>1. TypeOK'
    BY DEF CallsInv, TypeOK, Outcomes
  <2>2. ASSUME NEW c \in Callers
        PROVE  CallShape(c)' /\ PatchLoop(c)' /\ RollLoop(c)' /\ ReportedStays(c)'
    BY <1>1 DEF CallsInv, CallShape, PatchLoop, RollLoop, ReportedStays, Reported, MoreCMs, MoreDeps
  <2> QED BY <2>1, <2>2 DEF CallsInv
<1>3. ASSUME NEW c \in Callers PROVE FreshCopy(c)' /\ OwesNothing(c)'
  BY <1>1, <1>3, CallerPatched DEF FreshCopy, OwesNothing, Reported, CallsInv
<1>4. RollsAreSpent'
  <2> SUFFICES ASSUME NEW d \in Deps PROVE restarts'[d] <= Cardinality(SpentOn(d)')
    BY DEF RollsAreSpent, SpentOn
  <2>1. SpentOn(d)' \in SUBSET Callers
    BY DEF SpentOn, Writers
  <2>2. IsFiniteSet(SpentOn(d)')
    BY <2>1, FS_Subset
  <2> QED BY <2>2, FS_CardinalityType
<1>5. StaleIsOwed'
  <2>1. ASSUME NEW x \in Callers, NEW d \in Range(Cfg[x].deployments)
        PROVE  cmData'[ReadsFrom[d]] # Secondary
    BY <2>1, RefTypes DEF Range
  <2> QED BY <2>1 DEF StaleIsOwed
<1>6. failbacks' \in 0..MaxFailbacks /\ \A c \in Callers : ~led'[c].errs
  BY <1>1, FailbackAssumption, LedgerUpdates DEF NoLedger
<1> QED BY <1>2, <1>3, <1>4, <1>5, <1>6

LEMMA FailbackStep == FailbackInv /\ [FailbackNext]_failbackVars => FailbackInv'
<1> SUFFICES ASSUME FailbackInv, [FailbackNext]_failbackVars PROVE FailbackInv'
  OBVIOUS
<1>1. CASE OperatorFailsBack
  BY <1>1, OperatorKeeps
<1>2. ASSUME [Next]_vars, UNCHANGED failbacks, trouble' \in {"failed", "died"}
      PROVE  FailbackInv'
  BY <1>2, ActuatorKeeps DEF FailbackInv
<1>3. ASSUME UNCHANGED <<apiVars, callerVars, failbacks, trouble>>, [Next]_vars
      PROVE  FailbackInv'
  <2>1. StaleIsOwed' = StaleIsOwed /\ led' = led
    BY <1>3 DEF StaleIsOwed, Owes, apiVars, callerVars
  <2> QED BY <1>3, <2>1, ActuatorKeeps DEF FailbackInv
<1>4. ASSUME NEW c \in Callers, Smooth(c) PROVE FailbackInv'
  <2>1. [Next]_vars /\ (Call(c) \/ Proceed(c) \/ Return(c)) /\ UNCHANGED <<failbacks, trouble>>
    BY <1>4 DEF Smooth, Next, Switch
  <2>2. ASSUME trouble = "none"
        PROVE  StaleIsOwed' /\ \A x \in Callers : ~led'[x].errs
    <3>1. StaleIsOwed' /\ ~led'[c].errs
      BY <2>1, <2>2, StaleStep, ErrsStep DEF FailbackInv
    <3>2. ASSUME NEW x \in Callers, x # c PROVE ~led'[x].errs
      BY <2>1, <2>2, <3>2, Locality DEF FailbackInv, CallsInv, Switch
    <3> QED BY <3>1, <3>2
  <2> QED BY <2>1, <2>2, ActuatorKeeps DEF FailbackInv
<1>5. ASSUME NEW c \in Callers, Fails(c) PROVE FailbackInv'
  <2>1. [Next]_vars /\ UNCHANGED failbacks /\ trouble' \in {"failed", "died"}
    BY <1>5 DEF Fails, Next, Switch, FailbackInv
  <2> QED BY <1>2, <2>1
<1>6. ASSUME NEW c \in Callers, Dies(c) PROVE FailbackInv'
  <2>1. [Next]_vars /\ UNCHANGED failbacks /\ trouble' \in {"failed", "died"}
    BY <1>6 DEF Dies, Next
  <2> QED BY <1>2, <2>1
<1>7. CASE FaultsStop
  <2>1. UNCHANGED <<apiVars, callerVars, failbacks, trouble>> /\ [Next]_vars
    BY <1>7 DEF FaultsStop, Stabilise, Next
  <2> QED BY <1>3, <2>1
<1>8. CASE UNCHANGED failbackVars
  <2>1. UNCHANGED <<apiVars, callerVars, failbacks, trouble>> /\ [Next]_vars
    BY <1>8 DEF failbackVars, vars
  <2> QED BY <1>3, <2>1
<1> QED BY <1>1, <1>4, <1>5, <1>6, <1>7, <1>8 DEF FailbackNext

LEMMA FailbackStart == FailbackInit => FailbackInv
<1> SUFFICES ASSUME FailbackInit PROVE FailbackInv
  OBVIOUS
<1>1. RestartInv /\ Init
  BY RestartInit DEF FailbackInit
<1>2. \A c \in Callers : OwesNothing(c) /\ ~led[c].errs
  BY <1>1, LedgerUpdates DEF Init, OwesNothing, Reported, NoLedger
<1>3. StaleIsOwed
  <2>1. ASSUME NEW x \in Callers, NEW d \in Range(Cfg[x].deployments)
        PROVE  stamped[d] => serving[d] = Secondary
    BY <1>1, <2>1, RefTypes DEF Init, Range
  <2> QED BY <2>1 DEF StaleIsOwed
<1> QED BY <1>1, <1>2, <1>3, FailbackAssumption DEF FailbackInit, FailbackInv, RestartInv, LedgerInv

-----------------------------------------------------------------------------

\* The inductive invariant of any number of outages and failbacks.
THEOREM FailbackInvariant == FailbackSpec => []FailbackInv
<1> QED BY FailbackStart, FailbackStep, PTL DEF FailbackSpec

\* An outage in which nothing fails is converged in spite of the stamps of the
\* earlier ones (k8s.go:141-146).
THEOREM UndisturbedConverges == FailbackSpec => []UndisturbedSuccessConverges
<1>1. FailbackInv => UndisturbedSuccessConverges
  <2> SUFFICES ASSUME FailbackInv, trouble = "none", NEW c \in Writers, Reported(c),
                      \A x \in Callers \ {c} : phase[x] = "idle"
               PROVE  Converged(c)
    BY DEF UndisturbedSuccessConverges
  <2> USE DEF FailbackInv, CallsInv
  <2>1. /\ c \in Callers /\ Cfg[c].configMaps # <<>>
        /\ \A m \in Range(Cfg[c].configMaps) : cmData[m] = Secondary
        /\ \A d \in Range(Cfg[c].deployments) : stamped[d]
    BY DEF Writers, ReportedStays, OwesNothing
  <2>2. ASSUME NEW d \in Range(Cfg[c].deployments), serving[d] # Secondary PROVE FALSE
    <3>1. cmData[ReadsFrom[d]] = Secondary
      BY <2>1, <2>2, PairedAssumption
    <3>2. PICK y \in Callers : Owes(y, d)
      BY <2>1, <2>2, <3>1 DEF StaleIsOwed
    <3>3. led[y].patchedNS = {}
      BY <2>1, CallerPatched DEF OwesNothing, CallShape
    <3> QED BY <3>2, <3>3 DEF Owes
  <2> QED BY <2>1, <2>2 DEF Converged
<1> QED BY <1>1, FailbackInvariant, PTL

\* Old stamps do not make a later outage restart an application more often.
THEOREM FailbackRestartsAreBounded == FailbackSpec => []RestartsBounded
<1>1. FailbackInv => RestartsBounded
  BY SpentBounds DEF FailbackInv
<1> QED BY <1>1, FailbackInvariant, PTL
=============================================================================
