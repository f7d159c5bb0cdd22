---------------------------- MODULE StateMachine ----------------------------
(***************************************************************************)
(* The decision machine of the observer (pkg/state/machine.go) as functions *)
(* on its state.  It turns the stream of point-in-time verdicts into "a     *)
(* region switch is due": DOWN has been observed without interruption for   *)
(* FailoverDelay and no switch has been marked yet.                         *)
(*                                                                          *)
(* Time: the code keeps firstDownAt and compares now - firstDownAt with the *)
(* delay.  The model keeps that difference, downFor, which Aged advances.   *)
(* It saturates at FailoverDelay: the only reader compares it with >=.      *)
(* The clock is Go's monotonic one, so the difference never shrinks.        *)
(***************************************************************************)
EXTENDS Naturals

CONSTANT FailoverDelay   \* in units of the model's clock

ASSUME DelayAssumption == FailoverDelay \in Nat

\* Anything but "DOWN" is healthy for the machine.
Statuses == {"UP", "DEGRADED", "DOWN"}

Machines == [inDown : BOOLEAN, downFor : 0..FailoverDelay,
             switched : BOOLEAN, switchRequired : BOOLEAN]

\* New: switched is seeded from what the startup reconcile found.
New(alreadySwitched) ==
  [inDown |-> FALSE, downFor |-> 0, switched |-> alreadySwitched, switchRequired |-> FALSE]

\* One unit of time passes between two observations.
Aged(m) ==
  IF m.inDown /\ m.downFor < FailoverDelay THEN [m EXCEPT !.downFor = @ + 1] ELSE m

\* Observe of a healthy status closes the window; failback is never requested.
ObservedHealthy_keepsWindow(m) == [m EXCEPT !.switchRequired = FALSE]
ObservedHealthy(m) ==
  [m EXCEPT !.inDown = FALSE, !.downFor = 0, !.switchRequired = FALSE]

\* Observe of DOWN: the first one opens the window, every one past the delay
\* requests the switch until it is marked.
Due_strict(m, age) == ~m.switched /\ age > FailoverDelay
Due_early(m, age)  == ~m.switched /\ age + 1 >= FailoverDelay
Due(m, age) == ~m.switched /\ age >= FailoverDelay

ObservedDown(m) ==
  LET age == IF m.inDown THEN m.downFor ELSE 0
  IN  [m EXCEPT !.inDown = TRUE, !.downFor = age, !.switchRequired = Due(m, age)]

Observe(m, status) ==
  IF status = "DOWN" THEN ObservedDown(m) ELSE ObservedHealthy(m)

MarkSwitched(m) == [m EXCEPT !.switched = TRUE]
=============================================================================
