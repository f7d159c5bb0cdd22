------------------------- MODULE StateMachine_proofs -------------------------
(***************************************************************************)
(* What the functions of the decision machine return, field by field, for   *)
(* every machine and every delay.  The proofs of the machine's history and  *)
(* of the observer rest on these and never look at the functions again.     *)
(***************************************************************************)
EXTENDS StateMachine, TLAPS

USE DelayAssumption

\* A machine that is new, one that ages and one that is marked, field by field.
LEMMA MachineFacts ==
  ASSUME NEW m \in Machines
  PROVE  /\ Aged(m) \in Machines /\ Aged(m).inDown = m.inDown
         /\ Aged(m).switchRequired = m.switchRequired /\ Aged(m).switched = m.switched
         /\ m.inDown => Aged(m).downFor = IF m.downFor < FailoverDelay
                                          THEN m.downFor + 1 ELSE m.downFor
         /\ MarkSwitched(m) \in Machines
         /\ MarkSwitched(m).inDown = m.inDown /\ MarkSwitched(m).downFor = m.downFor
         /\ MarkSwitched(m).switchRequired = m.switchRequired /\ MarkSwitched(m).switched = TRUE
<1>m. /\ MarkSwitched(m) \in Machines
      /\ MarkSwitched(m).inDown = m.inDown /\ MarkSwitched(m).downFor = m.downFor
      /\ MarkSwitched(m).switchRequired = m.switchRequired /\ MarkSwitched(m).switched = TRUE
  BY DEF MarkSwitched, Machines
<1>1. CASE m.inDown /\ m.downFor < FailoverDelay
  <2>1. PICK d : d = m.downFor + 1
    OBVIOUS
  <2>2. d \in 0..FailoverDelay
    BY <1>1, <2>1 DEF Machines
  <2>3. Aged(m) = [m EXCEPT !.downFor = d]
    BY <1>1, <2>1, Zenon DEF Aged
  <2>4. /\ Aged(m) \in Machines /\ Aged(m).inDown = m.inDown /\ Aged(m).downFor = d
        /\ Aged(m).switchRequired = m.switchRequired /\ Aged(m).switched = m.switched
    BY <2>2, <2>3 DEF Machines
  <2> QED BY <1>1, <2>1, <2>4, <1>m
<1>2. CASE ~(m.inDown /\ m.downFor < FailoverDelay)
  <2>1. Aged(m) = m
    BY <1>2, Zenon DEF Aged
  <2> QED BY <1>2, <2>1, <1>m
<1> QED BY <1>1, <1>2

LEMMA NewMachine ==
  ASSUME NEW b \in BOOLEAN
  PROVE  New(b) \in Machines /\ New(b).inDown = FALSE
         /\ New(b).switchRequired = FALSE /\ New(b).switched = b
<1>1. 0 \in 0..FailoverDelay
  OBVIOUS
<1> QED BY <1>1 DEF New, Machines

\* The machine after an observation.
LEMMA ObservedFacts ==
  ASSUME NEW m \in Machines
  PROVE  /\ ObservedHealthy(m) \in Machines /\ ObservedHealthy(m).inDown = FALSE
         /\ ObservedHealthy(m).switchRequired = FALSE
         /\ ObservedHealthy(m).switched = m.switched
         /\ ObservedDown(m) \in Machines /\ ObservedDown(m).inDown = TRUE
         /\ ObservedDown(m).downFor = (IF m.inDown THEN m.downFor ELSE 0)
         /\ ObservedDown(m).switchRequired = (~m.switched /\ ObservedDown(m).downFor >= FailoverDelay)
         /\ ObservedDown(m).switched = m.switched
<1>0. 0 \in 0..FailoverDelay
  OBVIOUS
<1>1. /\ ObservedHealthy(m) \in Machines /\ ObservedHealthy(m).inDown = FALSE
      /\ ObservedHealthy(m).switchRequired = FALSE
      /\ ObservedHealthy(m).switched = m.switched
  BY <1>0 DEF ObservedHealthy, Machines
<1>2. Due(m, 0) \in BOOLEAN /\ Due(m, m.downFor) \in BOOLEAN
  BY DEF Due
<1>3. ObservedDown(m) \in Machines
  BY <1>0, <1>2 DEF ObservedDown, Machines
<1>4. ObservedDown(m).switchRequired = Due(m, ObservedDown(m).downFor)
  BY <1>0 DEF ObservedDown, Machines
<1> QED BY <1>0, <1>1, <1>3, <1>4 DEF ObservedDown, Machines, Due
=============================================================================
