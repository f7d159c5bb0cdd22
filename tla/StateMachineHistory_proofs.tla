--------------------- MODULE StateMachineHistory_proofs ---------------------
(***************************************************************************)
(* The timer of the decision machine is the last run of DOWN observations,  *)
(* and so it implements SustainedDown, for every delay and every history.   *)
(* The argument: an observation of DOWN either continues the run the log    *)
(* ends with or begins one, any other ends it; and because the clock does   *)
(* not go back, "some observation of the run is old enough" is the same as  *)
(* "its first one is", which is what the timer measures.                    *)
(***************************************************************************)
EXTENDS StateMachineHistory, StateMachine_proofs

USE DelayAssumption, BoundsAssumption

\* The observations in the log.
LEMMA LogFacts ==
  ASSUME TypeOK
  PROVE  /\ DOMAIN log = 1..Len(log) /\ Len(log) \in Nat
         /\ \A k \in DOMAIN log : log[k] \in Observation /\ log[k].at \in Nat
<1>1. /\ DOMAIN log = 1..Len(log) /\ Len(log) \in Nat
      /\ \A k \in DOMAIN log : log[k] \in Observation
  BY DEF TypeOK
<1> QED BY <1>1 DEF Observation

\* The log after an observation.
LEMMA LogAppended ==
  ASSUME TypeOK, NEW o \in Observation
  PROVE  /\ Append(log, o) \in Seq(Observation)
         /\ Len(log) \in Nat /\ Len(Append(log, o)) = Len(log) + 1
         /\ Append(log, o)[Len(log) + 1] = o
         /\ \A k \in 1..Len(log) : Append(log, o)[k] = log[k] /\ log[k] \in Observation
         /\ DOMAIN log = 1..Len(log) /\ DOMAIN Append(log, o) = 1..Len(log) + 1
  BY DEF TypeOK

\* The observation a tick appends.
LEMMA Ticked ==
  ASSUME TypeOK, NEW status \in Statuses, ObserveTick(status)
  PROVE  /\ [at |-> now, down |-> status = "DOWN"] \in Observation
         /\ log' = Append(log, [at |-> now, down |-> status = "DOWN"])
         /\ machine' = IF status = "DOWN" THEN ObservedDown(machine) ELSE ObservedHealthy(machine)
         /\ now' = now
  BY DEF TypeOK, ObserveTick, Observation, Observe, Statuses

\* The types and the order of the log.
LEMMA TypeStep == TypeOK /\ InOrder /\ [Next]_vars => TypeOK' /\ InOrder'
<1> SUFFICES ASSUME TypeOK, InOrder, [Next]_vars PROVE TypeOK' /\ InOrder'
  OBVIOUS
<1>0. machine \in Machines /\ now \in Nat /\ log \in Seq(Observation)
  BY DEF TypeOK
<1>1. CASE UNCHANGED vars
  BY <1>1 DEF vars, TypeOK, InOrder
<1>2. CASE TimePasses
  <2>m. Aged(machine) \in Machines
    BY <1>0, MachineFacts
  <2>1. TypeOK'
    BY <1>2, <1>0, <2>m DEF TimePasses, TypeOK
  <2>2. InOrder'
    BY <1>2, <1>0, LogFacts DEF TimePasses, InOrder
  <2> QED BY <2>1, <2>2
<1>3. CASE Actuated
  BY <1>3, <1>0, MachineFacts DEF Actuated, TypeOK, InOrder
<1>4. ASSUME NEW status \in Statuses, ObserveTick(status) PROVE TypeOK' /\ InOrder'
  <2> DEFINE o == [at |-> now, down |-> status = "DOWN"]
  <2>1. o \in Observation /\ log' = Append(log, o) /\ now' = now
    BY <1>4, Ticked
  <2>m. machine' = IF status = "DOWN" THEN ObservedDown(machine) ELSE ObservedHealthy(machine)
    BY <1>4, Ticked
  <2>n. ObservedDown(machine) \in Machines /\ ObservedHealthy(machine) \in Machines
    BY <1>0, ObservedFacts
  <2>2. machine' \in Machines
    BY <2>m, <2>n, Zenon
  <2>3. TypeOK'
    BY <2>1, <2>2, <1>0, LogAppended DEF TypeOK
  <2>4. o.at = now
    OBVIOUS
  <2> HIDE DEF o
  <2>5. InOrder'
    BY <2>1, <2>4, <1>0, LogAppended DEF InOrder, Observation
  <2> QED BY <2>3, <2>5
<1> QED BY <1>1, <1>2, <1>3, <1>4 DEF Next

\* An observation begins a run, continues one or ends one.
LEMMA RunStep ==
  ASSUME TypeOK, NEW o \in Observation, log' = Append(log, o), NEW n, n = Len(log) + 1
  PROVE  /\ ~o.down => \A k \in DOMAIN log' : ~RunStart(k)'
         /\ o.down => \A k \in DOMAIN log : RunStart(k) => RunStart(k)' /\ k \in DOMAIN log'
         /\ o.down /\ (\A k \in DOMAIN log : ~RunStart(k)) /\ (log # <<>> => ~log[Len(log)].down)
              => RunStart(n)' /\ n \in DOMAIN log'
<1>1. /\ Len(log) \in Nat /\ Len(log') = Len(log) + 1 /\ log'[Len(log) + 1] = o
      /\ \A k \in 1..Len(log) : log'[k] = log[k]
      /\ DOMAIN log = 1..Len(log) /\ DOMAIN log' = 1..Len(log) + 1
  BY LogAppended
<1>2. ASSUME ~o.down, NEW k \in DOMAIN log' PROVE ~RunStart(k)'
  BY <1>1, <1>2 DEF RunStart
<1>3. ASSUME o.down, NEW k \in DOMAIN log, RunStart(k) PROVE RunStart(k)' /\ k \in DOMAIN log'
  BY <1>1, <1>3 DEF RunStart
<1>4. ASSUME o.down, log # <<>> => ~log[Len(log)].down
      PROVE  RunStart(n)' /\ n \in DOMAIN log'
  <2>1. Len(log) + 1 > 1 => log # <<>> /\ Len(log) \in 1..Len(log)
    BY <1>1
  <2>2. Len(log) + 1 > 1 => ~log'[Len(log)].down
    BY <1>1, <1>4, <2>1
  <2>3. \A j \in Len(log) + 1..Len(log') : log'[j].down
    BY <1>1, <1>4
  <2>4. n \in DOMAIN log' /\ (\A j \in n..Len(log') : log'[j].down) /\ (n > 1 => ~log'[n - 1].down)
    <3>1. n \in DOMAIN log' /\ n - 1 = Len(log)
      BY <1>1
    <3>2. \A j \in n..Len(log') : log'[j].down
      BY <2>3
    <3>3. n > 1 => ~log'[n - 1].down
      BY <2>2, <3>1
    <3> QED BY <3>1, <3>2, <3>3
  <2> QED BY <2>4 DEF RunStart
<1> QED BY <1>2, <1>3, <1>4

\* There is at most one run.
LEMMA OneRun ==
  ASSUME TypeOK, NEW j \in DOMAIN log, NEW k \in DOMAIN log, RunStart(j), RunStart(k)
  PROVE  j = k
<1>1. DOMAIN log = 1..Len(log) /\ Len(log) \in Nat
  BY DEF TypeOK
<1>2. ASSUME NEW x \in DOMAIN log, NEW y \in DOMAIN log, RunStart(x), RunStart(y), x < y
      PROVE  FALSE
  <2>1. y - 1 \in x..Len(log) /\ y > 1
    BY <1>1, <1>2
  <2> QED BY <1>2, <2>1 DEF RunStart
<1> QED BY <1>1, <1>2

\* The age of the window, as the machine counts it.
Counted(t, k) == IF t - log[k].at < FailoverDelay THEN t - log[k].at ELSE FailoverDelay

\* The run the log ends with keeps its age until the clock moves or it ends.
LEMMA WindowStep == WindowInv /\ [Next]_vars => WindowInv'
<1> SUFFICES ASSUME WindowInv, [Next]_vars PROVE WindowInv'
  OBVIOUS
<1>0. /\ TypeOK /\ machine \in Machines /\ now \in Nat /\ log \in Seq(Observation)
      /\ DOMAIN log = 1..Len(log) /\ Len(log) \in Nat
      /\ \A k \in DOMAIN log : log[k] \in Observation /\ log[k].at \in Nat /\ log[k].at <= now
  BY LogFacts DEF WindowInv, TypeOK, InOrder
<1>t. TypeOK' /\ InOrder'
  BY TypeStep DEF WindowInv
<1>1. CASE UNCHANGED vars
  BY <1>1 DEF vars, WindowInv, TypeOK, InOrder, OpenAfterDown, WindowIsLastRun, RunStart
<1>2. CASE TimePasses
  <2>1. /\ now' = now + 1 /\ log' = log /\ machine'.inDown = machine.inDown
        /\ machine.inDown => machine'.downFor = IF machine.downFor < FailoverDelay
                                               THEN machine.downFor + 1 ELSE machine.downFor
    BY <1>0, <1>2, MachineFacts DEF TimePasses
  <2>2. OpenAfterDown'
    BY <2>1 DEF WindowInv, OpenAfterDown
  <2>3. \A k \in DOMAIN log : RunStart(k)' = RunStart(k)
    BY <2>1 DEF RunStart
  <2>4. machine.inDown => \E k \in DOMAIN log : RunStart(k) /\ machine.downFor = Counted(now, k)
    BY DEF WindowInv, WindowIsLastRun, Counted
  <2>5. ASSUME NEW k \in DOMAIN log, machine.inDown, machine.downFor = Counted(now, k)
        PROVE  machine'.downFor = Counted(now + 1, k)
    <3>1. /\ now \in Nat /\ log[k].at \in Nat /\ log[k].at <= now /\ FailoverDelay \in Nat
          /\ (now + 1) - log[k].at = (now - log[k].at) + 1
      BY <1>0, DelayAssumption
    <3>2. CASE now - log[k].at < FailoverDelay
      <4>1. machine.downFor = now - log[k].at
        BY <2>5, <3>2 DEF Counted
      <4> QED BY <2>1, <2>5, <3>1, <3>2, <4>1 DEF Counted
    <3>3. CASE ~(now - log[k].at < FailoverDelay)
      <4>1. machine.downFor = FailoverDelay
        BY <2>5, <3>3 DEF Counted
      <4>2. machine'.downFor = FailoverDelay
        BY <2>1, <2>5, <3>1, <4>1
      <4> QED BY <3>1, <3>3, <4>2 DEF Counted
    <3> QED BY <3>2, <3>3
  <2>6. (\E k \in DOMAIN log : RunStart(k))' = \E k \in DOMAIN log : RunStart(k)
    BY <2>1, <2>3
  <2>7. machine'.inDown => \E k \in DOMAIN log : RunStart(k)' /\ machine'.downFor = Counted(now + 1, k)
    BY <2>1, <2>3, <2>4, <2>5
  <2>8. WindowIsLastRun'
    BY <2>1, <2>6, <2>7 DEF WindowInv, WindowIsLastRun, Counted
  <2> QED BY <1>t, <2>2, <2>8 DEF WindowInv
<1>3. CASE Actuated
  <2>1. /\ now' = now /\ log' = log /\ machine'.inDown = machine.inDown
        /\ machine'.downFor = machine.downFor
    BY <1>0, <1>3, MachineFacts DEF Actuated
  <2>2. OpenAfterDown' /\ WindowIsLastRun'
    BY <2>1 DEF WindowInv, OpenAfterDown, WindowIsLastRun, RunStart
  <2> QED BY <1>t, <2>2 DEF WindowInv
<1>4. ASSUME NEW status \in Statuses, ObserveTick(status) PROVE WindowInv'
  <2> DEFINE o == [at |-> now, down |-> status = "DOWN"]
  <2>0. o \in Observation /\ o.at = now /\ (o.down <=> status = "DOWN")
    BY <1>0, <1>4, Ticked
  <2>1. log' = Append(log, o) /\ now' = now
    BY <1>0, <1>4, Ticked
  <2>2. machine' = IF status = "DOWN" THEN ObservedDown(machine) ELSE ObservedHealthy(machine)
    BY <1>0, <1>4, Ticked
  <2> HIDE DEF o
  <2>3. /\ Len(log') = Len(log) + 1 /\ log'[Len(log) + 1] = o
        /\ \A k \in 1..Len(log) : log'[k] = log[k]
        /\ DOMAIN log' = 1..Len(log) + 1 /\ log' # <<>>
    BY <1>0, <2>0, <2>1, LogAppended
  <2>4. CASE status # "DOWN"
    <3>1. ~machine'.inDown
      BY <1>0, <2>2, <2>4, ObservedFacts
    <3>n. PICK n : n = Len(log) + 1
      OBVIOUS
    <3>2. \A k \in DOMAIN log' : ~RunStart(k)'
      BY <1>0, <2>0, <2>1, <2>4, <3>n, RunStep
    <3>3. OpenAfterDown' /\ WindowIsLastRun'
      BY <2>0, <2>3, <2>4, <3>1, <3>2 DEF OpenAfterDown, WindowIsLastRun
    <3> QED BY <1>t, <3>3 DEF WindowInv
  <2>5. CASE status = "DOWN" /\ machine.inDown
    <3>1. machine'.inDown /\ machine'.downFor = machine.downFor
      BY <1>0, <2>2, <2>5, ObservedFacts
    <3>2. PICK k \in DOMAIN log : RunStart(k) /\ machine.downFor = Counted(now, k)
      BY <2>5 DEF WindowInv, WindowIsLastRun, Counted
    <3>n. PICK n : n = Len(log) + 1
      OBVIOUS
    <3>3. RunStart(k)' /\ k \in DOMAIN log' /\ log'[k] = log[k]
      BY <1>0, <2>0, <2>1, <2>3, <2>5, <3>2, <3>n, RunStep
    <3>4. WindowIsLastRun'
      BY <2>1, <3>1, <3>2, <3>3 DEF WindowIsLastRun, Counted
    <3>5. OpenAfterDown'
      BY <1>0, <2>0, <2>3, <2>5, <3>1 DEF OpenAfterDown
    <3> QED BY <1>t, <3>4, <3>5 DEF WindowInv
  <2>6. CASE status = "DOWN" /\ ~machine.inDown
    <3>1. machine'.inDown /\ machine'.downFor = 0
      BY <1>0, <2>2, <2>6, ObservedFacts
    <3>2. /\ \A k \in DOMAIN log : ~RunStart(k)
          /\ log # <<>> => ~log[Len(log)].down
      BY <2>6 DEF WindowInv, WindowIsLastRun, OpenAfterDown
    <3>n. PICK n : n = Len(log) + 1
      OBVIOUS
    <3>3. RunStart(n)' /\ n \in DOMAIN log'
      BY <1>0, <2>0, <2>1, <2>6, <3>2, <3>n, RunStep
    <3>4. (IF now' - log'[n].at < FailoverDelay
           THEN now' - log'[n].at ELSE FailoverDelay) = 0
      BY <1>0, <2>0, <2>1, <2>3, <3>n
    <3>5. WindowIsLastRun'
      BY <3>1, <3>3, <3>4 DEF WindowIsLastRun
    <3>6. OpenAfterDown'
      BY <1>0, <2>0, <2>3, <2>6, <3>1 DEF OpenAfterDown
    <3> QED BY <1>t, <3>5, <3>6 DEF WindowInv
  <2> QED BY <2>4, <2>5, <2>6
<1> QED BY <1>1, <1>2, <1>3, <1>4 DEF Next

\* A new machine has no window and an empty log no run.
LEMMA WindowInit == Init => WindowInv
<1> SUFFICES ASSUME Init PROVE WindowInv
  OBVIOUS
<1>1. PICK already \in BOOLEAN : machine = New(already)
  BY DEF Init
<1>2. machine \in Machines /\ ~machine.inDown
  BY <1>1, NewMachine
<1>3. TypeOK /\ log = <<>> /\ DOMAIN log = {}
  BY <1>2 DEF Init, TypeOK
<1> QED BY <1>2, <1>3 DEF WindowInv, InOrder, OpenAfterDown, WindowIsLastRun

-----------------------------------------------------------------------------

\* The window of the machine is the last run of DOWN observations, and its age is
\* the time since that run began (machine.go:35-60).
THEOREM WindowInvariant == Spec => []WindowInv
<1>1. Init => WindowInv
  BY WindowInit
<1>2. WindowInv /\ [Next]_vars => WindowInv'
  BY WindowStep
<1> QED BY <1>1, <1>2, PTL DEF Spec

THEOREM WindowIsRun == Spec => []WindowIsLastRun
<1>1. WindowInv => WindowIsLastRun
  BY DEF WindowInv
<1> QED BY <1>1, WindowInvariant, PTL

-----------------------------------------------------------------------------

\* The last run is old enough exactly when the timer says so: the clock does not
\* go back, so no observation of a run is older than its first one.
LEMMA OldEnough ==
  ASSUME WindowInv
  PROVE  S!SustainedSince(log, now) <=> machine.inDown /\ machine.downFor >= FailoverDelay
<1>0. /\ TypeOK /\ machine \in Machines /\ now \in Nat /\ log \in Seq(Observation)
      /\ DOMAIN log = 1..Len(log) /\ Len(log) \in Nat
      /\ \A k \in DOMAIN log : log[k] \in Observation /\ log[k].at \in Nat /\ log[k].at <= now
  BY LogFacts DEF WindowInv, TypeOK, InOrder
<1>1. ASSUME machine.inDown, machine.downFor >= FailoverDelay PROVE S!SustainedSince(log, now)
  <2>1. PICK k \in DOMAIN log : RunStart(k) /\ machine.downFor = Counted(now, k)
    BY <1>1 DEF WindowInv, WindowIsLastRun, Counted
  <2>2. now - log[k].at >= FailoverDelay
    BY <1>0, <1>1, <2>1 DEF Counted
  <2> QED BY <2>1, <2>2 DEF S!SustainedSince, RunStart
<1>2. ASSUME S!SustainedSince(log, now) PROVE machine.inDown /\ machine.downFor >= FailoverDelay
  <2>1. PICK j \in DOMAIN log : (\A i \in j..Len(log) : log[i].down) /\ now - log[j].at >= FailoverDelay
    BY <1>2 DEF S!SustainedSince
  <2>2. machine.inDown
    BY <1>0, <2>1 DEF WindowInv, OpenAfterDown
  <2>3. PICK k \in DOMAIN log : RunStart(k) /\ machine.downFor = Counted(now, k)
    BY <2>2 DEF WindowInv, WindowIsLastRun, Counted
  <2>4. k <= j
    <3>1. ASSUME j < k PROVE FALSE
      <4>1. k > 1 /\ k - 1 \in j..Len(log)
        BY <1>0, <3>1
      <4> QED BY <2>1, <2>3, <4>1 DEF RunStart
    <3> QED BY <1>0, <3>1
  <2>5. log[k].at <= log[j].at
    BY <1>0, <2>4 DEF WindowInv, InOrder
  <2>6. now - log[k].at >= FailoverDelay
    BY <1>0, <2>1, <2>5
  <2> QED BY <1>0, <2>2, <2>3, <2>6 DEF Counted
<1> QED BY <1>1, <1>2

\* Every step of the machine is a step of SustainedDown or leaves it alone.
LEMMA SustainedStep ==
  ASSUME WindowInv, WindowInv', [Next]_vars
  PROVE  [S!SustainedNext]_(S!sustainedVars)
<1>0. TypeOK /\ machine \in Machines
  BY DEF WindowInv, TypeOK
<1>1. CASE UNCHANGED vars
  BY <1>1 DEF vars, S!sustainedVars
<1>2. CASE TimePasses
  <2>1. /\ machine'.switchRequired = machine.switchRequired
        /\ machine'.switched = machine.switched
    BY <1>0, <1>2, MachineFacts DEF TimePasses
  <2> QED BY <1>2, <2>1 DEF TimePasses, S!PassTime, S!SustainedNext
<1>3. CASE Actuated
  <2>1. /\ machine'.switchRequired = machine.switchRequired
        /\ machine'.switched = TRUE
    BY <1>0, <1>3, MachineFacts DEF Actuated
  <2> QED BY <1>3, <2>1 DEF Actuated, S!CarryOut, S!SustainedNext
<1>4. ASSUME NEW status \in Statuses, ObserveTick(status) PROVE S!SustainedNext
  <2>1. /\ log' = Append(log, [at |-> now, down |-> status = "DOWN"])
        /\ machine' = IF status = "DOWN" THEN ObservedDown(machine) ELSE ObservedHealthy(machine)
        /\ now' = now
    BY <1>0, <1>4, Ticked
  <2>2. machine'.switched = machine.switched
    BY <1>0, <2>1, ObservedFacts
  <2>3. S!SustainedSince(log', now) <=> machine'.inDown /\ machine'.downFor >= FailoverDelay
    <3>1. (S!SustainedSince(log, now) <=> machine.inDown /\ machine.downFor >= FailoverDelay)'
      BY OldEnough, PTL
    <3> QED BY <2>1, <3>1
  <2>4. machine'.switchRequired = (~machine.switched /\ S!SustainedSince(log', now))
    <3>1. CASE status = "DOWN"
      BY <1>0, <2>1, <2>3, <3>1, ObservedFacts
    <3>2. CASE status # "DOWN"
      BY <1>0, <2>1, <2>3, <3>2, ObservedFacts
    <3> QED BY <3>1, <3>2
  <2>5. S!See(status = "DOWN")
    BY <2>1, <2>2, <2>4 DEF S!See
  <2> QED BY <2>5 DEF S!SustainedNext
<1> QED BY <1>1, <1>2, <1>3, <1>4 DEF Next

\* The timer decides what the definition over the whole history decides: a
\* request exactly when DOWN has been observed without interruption for the delay
\* and nothing has been switched (machine.go:35-60).
THEOREM TimerIsSustainedDown == Spec => TimerImplementsSustainedDown
<1>1. Init => S!SustainedInit
  BY NewMachine DEF Init, S!SustainedInit
<1>2. WindowInv /\ WindowInv' /\ [Next]_vars => [S!SustainedNext]_(S!sustainedVars)
  BY SustainedStep
<1> QED BY <1>1, <1>2, WindowInvariant, PTL DEF Spec, TimerImplementsSustainedDown, S!SustainedSpec
=============================================================================
