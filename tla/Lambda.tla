-------------------------------- MODULE Lambda --------------------------------
(***************************************************************************)
(* The switch Lambda (cmd/switch-lambda, pkg/switchhandler, pkg/event): SNS *)
(* notifications of a CloudWatch alarm, each delivered to an invocation     *)
(* that calls the Kubernetes actuator.                                      *)
(*                                                                          *)
(* A delivery is a caller of K8sActuator, because every invocation has its  *)
(* own ledger.  SNS delivers at least once and in any order, and Lambda     *)
(* runs deliveries side by side and repeats a failed one a few times        *)
(* (external); so a set of deliveries covers duplicates, repeated alarms    *)
(* and late recoveries alike.                                               *)
(***************************************************************************)
EXTENDS K8sActuator

CONSTANTS
  Events,      \* the raw events that can arrive (see EventType)
  NotJSON,     \* an event, or a message, that does not decode
  MaxRetries   \* how often Lambda repeats a failed invocation (two by default)

AlarmStates == {"ALARM", "OK", "INSUFFICIENT_DATA"}

\* An event is an envelope with at most one record, or does not decode at all.
EventType ==
  {NotJSON} \cup UNION {[1..n -> AlarmStates \cup {NotJSON}] : n \in 0..1}

\* ParseRefsRequired: the Lambda does not start on an empty ConfigMap list.
ASSUME LambdaAssumption ==
  /\ \A c \in Callers : Cfg[c].configMaps # <<>>
  /\ Events \subseteq EventType
  /\ NotJSON \notin AlarmStates \cup {<<a>> : a \in AlarmStates}
  /\ MaxRetries \in Nat

VARIABLES
  event,      \* event[c]: what delivery c carries
  progress,   \* "unsent", "queued", "running", "done" or "dropped"
  retries     \* how often delivery c has been repeated

lambdaVars == <<vars, event, progress, retries>>

LambdaInit ==
  /\ Init
  /\ event \in [Callers -> Events]
  /\ progress = [c \in Callers |-> "unsent"]
  /\ retries = [c \in Callers |-> 0]

-----------------------------------------------------------------------------
(* pkg/event *)

\* Parse looks at the first record only; without one it returns the zero Alarm.
ParseFails(raw) ==
  \/ raw = NotJSON
  \/ raw # NotJSON /\ raw # <<>> /\ raw[1] = NotJSON

NewStateValue(raw) == IF raw = <<>> THEN "" ELSE raw[1]

Actionable_recoveryToo(raw) == ~ParseFails(raw) /\ raw # <<>>
Actionable(raw) == ~ParseFails(raw) /\ NewStateValue(raw) = "ALARM"

-----------------------------------------------------------------------------
(* Deliveries *)

\* The alarm changes state and SNS publishes it, or publishes it again.
Publish(c) ==
  /\ progress[c] = "unsent"
  /\ progress' = [progress EXCEPT ![c] = "queued"]
  /\ UNCHANGED <<vars, event, retries>>

\* An invocation that failed is queued again until its retries are used up.
Failed_invocation(c) ==
  /\ retries' = [retries EXCEPT ![c] = IF @ < MaxRetries THEN @ + 1 ELSE @]
  /\ progress' = [progress EXCEPT ![c] =
                    IF retries[c] < MaxRetries THEN "queued" ELSE "dropped"]

Succeeded_invocation(c) ==
  /\ progress' = [progress EXCEPT ![c] = "done"]
  /\ UNCHANGED retries

-----------------------------------------------------------------------------
(* Handle *)

HandleUndecodable(c) ==
  /\ progress[c] = "queued"
  /\ ParseFails(event[c])
  /\ Failed_invocation(c)
  /\ UNCHANGED <<vars, event>>

HandleIgnored(c) ==
  /\ progress[c] = "queued"
  /\ ~ParseFails(event[c]) /\ ~Actionable(event[c])
  /\ Succeeded_invocation(c)
  /\ UNCHANGED <<vars, event>>

HandleAlarm(c) ==
  /\ progress[c] = "queued"
  /\ Actionable(event[c])
  /\ Begin(c)
  /\ progress' = [progress EXCEPT ![c] = "running"]
  /\ UNCHANGED <<event, retries>>

Actuate(c) ==
  /\ progress[c] = "running"
  /\ Proceed(c) \/ RequestFails(c)
  /\ UNCHANGED <<event, progress, retries>>

\* Handle returns the error of Switch, and so fails the invocation; switched or
\* not makes no difference beyond the log line.
Answered_swallowsErrors(c) == Succeeded_invocation(c)
Answered(c) ==
  IF outcome'[c] = "error" THEN Failed_invocation(c) ELSE Succeeded_invocation(c)

HandleReturns(c) ==
  /\ progress[c] = "running"
  /\ Return(c)
  /\ Answered(c)
  /\ UNCHANGED event

\* The invocation runs into the Lambda timeout or its instance dies.
Dies(c) ==
  /\ progress[c] = "running"
  /\ Crash(c)
  /\ Failed_invocation(c)
  /\ UNCHANGED event

FaultsStop == Stabilise /\ UNCHANGED <<event, progress, retries>>

Invoke(c) == HandleUndecodable(c) \/ HandleIgnored(c) \/ HandleAlarm(c)
Run(c)    == Actuate(c) \/ HandleReturns(c)

LambdaNext ==
  \/ \E c \in Callers : Publish(c) \/ Invoke(c) \/ Run(c) \/ Dies(c)
  \/ FaultsStop

LambdaSpec == LambdaInit /\ [][LambdaNext]_lambdaVars

\* Lambda invokes what is queued and lets an invocation run; no fairness is
\* assumed for the alarm, nor for the retries of a failed delivery beyond
\* MaxRetries.
LambdaLiveSpec ==
  /\ LambdaSpec
  /\ \A c \in Callers : WF_lambdaVars(Invoke(c)) /\ WF_lambdaVars(Run(c))

-----------------------------------------------------------------------------
(* Properties *)

\* Without an ALARM nothing moves: a recovery, an empty or an undecodable event
\* never writes, whatever is delivered beside it (no automatic failback,
\* switchhandler.go:20-31).
MovesOnlyOnAlarm ==
  [][apiVars' # apiVars =>
       \E c \in Callers : event[c] = <<"ALARM">> /\ progress[c] = "running"]_lambdaVars

\* However many deliveries overlap, fail and are repeated, a Deployment is
\* restarted once for its missing stamp and once per ConfigMap of its namespace
\* that was still to be patched, and never again (k8s.go:141-146).  Once is not
\* enough: one delivery may roll between the patch and the roll of another.
RestartsBoundedByPatches ==
  \A d \in Deps :
    restarts[d] <= 1 + Cardinality({m \in CMs : NamespaceOf[m] = NamespaceOf[d]})

\* A delivery that Lambda counts as handled has moved every target.
DoneMeansConverged ==
  \A c \in Writers : progress[c] = "done" /\ event[c] = <<"ALARM">> => Converged(c)

\* An alarm that is delivered when requests no longer fail is served, although
\* overlapping deliveries make each other's updates conflict: one repetition is
\* enough (the error of Switch must reach Lambda, switchhandler.go:33-35).
AlarmIsServed ==
  \A c \in Writers :
    (/\ env = "steady" /\ progress[c] = "queued"
     /\ event[c] = <<"ALARM">> /\ retries[c] < MaxRetries) ~> Converged(c)

-----------------------------------------------------------------------------
(* The inductive invariant behind the properties *)

LambdaTypeOK ==
  /\ event \in [Callers -> Events]
  /\ progress \in [Callers -> {"unsent", "queued", "running", "done", "dropped"}]
  /\ retries \in [Callers -> 0..MaxRetries]

\* Only an invocation that handles an ALARM is in a call of Switch, and a handled
\* ALARM has been reported by its last call.
DeliveryShape(c) ==
  /\ progress[c] = "running" => Actionable(event[c])
  /\ phase[c] # "idle" => progress[c] = "running"
  /\ progress[c] = "done" /\ Actionable(event[c]) => Reported(c)

LambdaInv == RestartInv /\ LambdaTypeOK /\ \A c \in Callers : DeliveryShape(c)
=============================================================================
