---------------------------- MODULE Lambda_proofs ----------------------------
(***************************************************************************)
(* The deliveries of the switch Lambda: what they move they move for an     *)
(* ALARM, what Lambda counts as handled has converged, and the restarts are *)
(* bounded by the ConfigMaps.  Every step of a delivery is a step of the    *)
(* actuator or leaves it alone, so the invariants of K8sActuator carry      *)
(* over; what is new is which delivery may be in a call.                    *)
(***************************************************************************)
EXTENDS Lambda, K8sActuator_proofs

USE LambdaAssumption

\* The only event that Handle acts on.
LEMMA ActionableIsAlarm ==
  ASSUME NEW raw \in Events
  PROVE  Actionable(raw) <=> raw = <<"ALARM">>
<1>1. raw \in EventType /\ NotJSON # <<"ALARM">>
  BY DEF AlarmStates
<1>2. CASE raw = NotJSON
  BY <1>1, <1>2 DEF Actionable, ParseFails
<1>3. CASE raw # NotJSON /\ raw = <<>>
  BY <1>3 DEF Actionable, NewStateValue
<1>4. CASE raw # NotJSON /\ raw # <<>>
  <2>1. PICK n \in 0..1 : raw \in [1..n -> AlarmStates \cup {NotJSON}]
    BY <1>1, <1>4 DEF EventType
  <2>2. n = 1
    BY <1>4, <2>1
  <2>3. raw = <<raw[1]>>
    BY <2>1, <2>2
  <2>4. Actionable(raw) <=> raw[1] # NotJSON /\ raw[1] = "ALARM"
    BY <1>4 DEF Actionable, ParseFails, NewStateValue
  <2>5. "ALARM" # NotJSON
    BY DEF AlarmStates
  <2>6. raw = <<"ALARM">> <=> raw[1] = "ALARM"
    BY <2>3
  <2> QED BY <2>4, <2>5, <2>6
<1> QED BY <1>2, <1>3, <1>4

\* Every step of the deliveries is a step of the actuator or leaves it alone.
LEMMA ActuatorStep == [LambdaNext]_lambdaVars => [Next]_vars
  BY DEF LambdaNext, lambdaVars, Publish, Invoke, Run, Dies, FaultsStop, HandleUndecodable,
     HandleIgnored, HandleAlarm, Actuate, HandleReturns, Next, Call, Switch, vars

\* Deliveries, with their retries and deaths, are callers of the actuator and nothing
\* more, so what is proved of any callers holds of them: an invocation makes finitely many
\* requests, a conflict between two costs a repetition and never a move, and together
\* they implement RegionSwitch (switchhandler.go:33-35).
THEOREM DeliveriesAreCalls ==
  LambdaSpec => Spec /\ RequestsBounded /\ ErrorsAreConflicts /\ ImplementsRegionSwitch
<1>1. LambdaInit => Init
  BY DEF LambdaInit
<1>2. LambdaSpec => Spec
  BY <1>1, ActuatorStep, PTL DEF LambdaSpec, Spec
<1> QED BY <1>2, RequestsAreBounded, ConflictsCostNoMove, Refinement, PTL

\* The types of the deliveries.
LEMMA LambdaTypeStep == LambdaTypeOK /\ [LambdaNext]_lambdaVars => LambdaTypeOK'
<1> SUFFICES ASSUME LambdaTypeOK, [LambdaNext]_lambdaVars PROVE LambdaTypeOK'
  OBVIOUS
<1> USE DEF LambdaTypeOK
<1>1. CASE UNCHANGED <<event, progress, retries>>
  BY <1>1
<1>2. ASSUME NEW c \in Callers, Failed_invocation(c), UNCHANGED event PROVE LambdaTypeOK'
  BY <1>2 DEF Failed_invocation
<1>3. ASSUME NEW c \in Callers, Succeeded_invocation(c), UNCHANGED event PROVE LambdaTypeOK'
  BY <1>3 DEF Succeeded_invocation
<1>4. ASSUME NEW c \in Callers, Publish(c) \/ HandleAlarm(c) PROVE LambdaTypeOK'
  BY <1>4 DEF Publish, HandleAlarm
<1>5. \/ UNCHANGED <<event, progress, retries>>
      \/ \E c \in Callers : \/ Publish(c) \/ HandleAlarm(c)
                            \/ Failed_invocation(c) /\ UNCHANGED event
                            \/ Succeeded_invocation(c) /\ UNCHANGED event
  BY DEF LambdaNext, lambdaVars, Invoke, Run, Dies, FaultsStop, HandleUndecodable,
     HandleIgnored, Actuate, HandleReturns, Answered
<1> QED BY <1>1, <1>2, <1>3, <1>4, <1>5

\* A step of delivery c leaves the other deliveries and their calls alone.
LEMMA OtherDeliveries ==
  ASSUME LambdaInv, NEW c \in Callers, Publish(c) \/ Invoke(c) \/ Run(c) \/ Dies(c),
         NEW x \in Callers, x # c
  PROVE  DeliveryShape(x)'
<1>1. event' = event /\ progress'[x] = progress[x]
  BY DEF LambdaInv, LambdaTypeOK, Publish, Invoke, Run, Dies, HandleUndecodable, HandleIgnored,
     HandleAlarm, Actuate, HandleReturns, Answered, Failed_invocation, Succeeded_invocation
<1>2. phase'[x] = phase[x] /\ outcome'[x] = outcome[x]
  <2>1. CASE UNCHANGED vars
    BY <2>1 DEF vars, callerVars
  <2>2. CASE Call(c) \/ Switch(c) \/ Crash(c)
    BY <2>2, Locality DEF LambdaInv, RestartInv, LedgerInv, CallsInv
  <2> QED BY <2>1, <2>2 DEF Publish, Invoke, Run, Dies, HandleUndecodable, HandleIgnored,
          HandleAlarm, Actuate, HandleReturns, Call, Switch
<1> QED BY <1>1, <1>2 DEF LambdaInv, DeliveryShape, Reported

\* The delivery that steps.
LEMMA OwnDelivery ==
  ASSUME LambdaInv, NEW c \in Callers, Publish(c) \/ Invoke(c) \/ Run(c) \/ Dies(c)
  PROVE  DeliveryShape(c)'
<1> USE DEF LambdaInv, LambdaTypeOK, DeliveryShape
<1>0. DeliveryShape(c) /\ event' = event
  BY DEF Publish, Invoke, Run, Dies, HandleUndecodable, HandleIgnored,
     HandleAlarm, Actuate, HandleReturns
<1>1. CASE Publish(c)
  BY <1>0, <1>1 DEF Publish, vars, callerVars
<1>2. CASE HandleUndecodable(c)
  BY <1>0, <1>2 DEF HandleUndecodable, Failed_invocation, vars, callerVars
<1>3. CASE HandleIgnored(c)
  BY <1>0, <1>3 DEF HandleIgnored, Succeeded_invocation, vars, callerVars
<1>4. CASE HandleAlarm(c)
  BY <1>0, <1>4 DEF HandleAlarm
<1>5. CASE Actuate(c)
  BY <1>0, <1>5 DEF Actuate
<1>6. CASE HandleReturns(c)
  <2>1. /\ phase'[c] = "idle" /\ outcome'[c] = Verdict(led[c]) /\ led[c] \in Ledger
        /\ progress[c] = "running"
    BY <1>6 DEF HandleReturns, Return, Leave, RestartInv, LedgerInv, CallsInv, TypeOK
  <2>2. progress'[c] = "done" => outcome'[c] # "error"
    BY <1>6 DEF HandleReturns, Answered, Failed_invocation
  <2>3. progress'[c] # "running"
    BY <1>6 DEF HandleReturns, Answered, Failed_invocation, Succeeded_invocation
  <2>4. outcome'[c] # "error" => Reported(c)'
    BY <2>1 DEF Reported, Verdict
  <2> QED BY <1>0, <2>1, <2>2, <2>3, <2>4
<1>7. CASE Dies(c)
  BY <1>0, <1>7 DEF Dies, Crash, Leave, Failed_invocation, RestartInv, LedgerInv, CallsInv, TypeOK
<1> QED BY <1>1, <1>2, <1>3, <1>4, <1>5, <1>6, <1>7 DEF Invoke, Run

LEMMA LambdaStep == LambdaInv /\ [LambdaNext]_lambdaVars => LambdaInv'
<1> SUFFICES ASSUME LambdaInv, [LambdaNext]_lambdaVars PROVE LambdaInv'
  OBVIOUS
<1>1. RestartInv'
  BY ActuatorStep, RestartStep DEF LambdaInv
<1>2. LambdaTypeOK'
  BY LambdaTypeStep DEF LambdaInv
<1>3. CASE UNCHANGED lambdaVars \/ FaultsStop
  BY <1>1, <1>2, <1>3 DEF lambdaVars, vars, callerVars, FaultsStop, Stabilise, LambdaInv,
     DeliveryShape, Reported
<1>4. ASSUME NEW c \in Callers, Publish(c) \/ Invoke(c) \/ Run(c) \/ Dies(c)
      PROVE  \A x \in Callers : DeliveryShape(x)'
  BY <1>4, OwnDelivery, OtherDeliveries
<1> QED BY <1>1, <1>2, <1>3, <1>4 DEF LambdaNext, LambdaInv

LEMMA LambdaInitInv == LambdaInit => LambdaInv
<1> SUFFICES ASSUME LambdaInit PROVE LambdaInv
  OBVIOUS
<1>1. RestartInv
  BY RestartInit DEF LambdaInit
<1>2. 0 \in 0..MaxRetries
  OBVIOUS
<1> QED BY <1>1, <1>2 DEF LambdaInit, Init, LambdaInv, LambdaTypeOK, DeliveryShape

-----------------------------------------------------------------------------

\* Only an invocation for an ALARM is ever in a call, and a handled ALARM has been
\* reported, whatever is delivered twice, late or side by side.
THEOREM LambdaInvariant == LambdaSpec => []LambdaInv
<1>1. LambdaInit => LambdaInv
  BY LambdaInitInv
<1>2. LambdaInv /\ [LambdaNext]_lambdaVars => LambdaInv'
  BY LambdaStep
<1> QED BY <1>1, <1>2, PTL DEF LambdaSpec

\* A delivery that Lambda counts as handled has moved every target
\* (switchhandler.go:33-35).
THEOREM HandledMeansConverged == LambdaSpec => []DoneMeansConverged
<1>1. ASSUME LambdaInv PROVE DoneMeansConverged
  <2> SUFFICES ASSUME NEW c \in Writers, progress[c] = "done", event[c] = <<"ALARM">>
               PROVE  Converged(c)
    BY DEF DoneMeansConverged
  <2>1. c \in Callers /\ ~Cfg[c].dryRun
    BY DEF Writers
  <2>2. Reported(c)
    BY <1>1, <2>1, ActionableIsAlarm DEF LambdaInv, LambdaTypeOK, DeliveryShape
  <2> QED BY <1>1, <2>1, <2>2, RefTypes DEF LambdaInv, RestartInv, LedgerInv, CallsInv, ReportedStays,
          StampMeansServing, Converged, Range
<1> QED BY <1>1, LambdaInvariant, PTL

\* A Deployment is restarted at most once for its missing stamp and once per
\* ConfigMap of its namespace, however many deliveries overlap (k8s.go:141-146).
THEOREM DeliveriesRestartBoundedly == LambdaSpec => []RestartsBoundedByPatches
<1>1. LambdaInv => RestartsBoundedByPatches
  BY PaidBounds DEF LambdaInv, RestartInv, LedgerInv, RestartsBoundedByPatches
<1> QED BY <1>1, LambdaInvariant, PTL

\* Nothing is written but by an invocation that handles an ALARM: no automatic
\* failback (switchhandler.go:20-31).
THEOREM OnlyAlarmsMove == LambdaSpec => MovesOnlyOnAlarm
<1> DEFINE A == apiVars' # apiVars =>
                  \E c \in Callers : event[c] = <<"ALARM">> /\ progress[c] = "running"
<1>1. ASSUME LambdaInv, [LambdaNext]_lambdaVars PROVE A
  <2>1. CASE apiVars' = apiVars
    BY <2>1
  <2>2. ASSUME NEW c \in Callers, Writes(c) PROVE A
    <3>1. phase[c] # "idle"
      BY <2>2 DEF Writes, PutCM, PutCMAnswerLost, PutDep, PutDepAnswerLost
    <3>2. progress[c] = "running" /\ Actionable(event[c]) /\ event[c] \in Events
      BY <1>1, <3>1 DEF LambdaInv, DeliveryShape, LambdaTypeOK
    <3> QED BY <3>2, ActionableIsAlarm
  <2> QED BY <1>1, <2>1, <2>2, ActuatorStep, WhoWrites DEF LambdaInv, RestartInv, LedgerInv
<1> QED BY <1>1, LambdaInvariant, PTL DEF LambdaSpec, MovesOnlyOnAlarm
=============================================================================
