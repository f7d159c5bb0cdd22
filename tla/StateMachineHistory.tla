------------------------- MODULE StateMachineHistory -------------------------
(***************************************************************************)
(* One state machine driven by the poll loop, together with a clock and the *)
(* history of what it observed.  The history is read by no action of the    *)
(* machine; it is there to compare the timer with SustainedDown.            *)
(***************************************************************************)
EXTENDS StateMachine, Sequences

CONSTANTS MaxClock, MaxObservations   \* model bounds

ASSUME BoundsAssumption == MaxClock \in Nat /\ MaxObservations \in Nat

VARIABLES
  machine,   \* the Machine
  now,       \* the clock behind time.Now
  log        \* observations so far

vars == <<machine, now, log>>

Init ==
  /\ \E already \in BOOLEAN : machine = New(already)
  /\ now = 0
  /\ log = <<>>

TimePasses ==
  /\ now < MaxClock
  /\ now' = now + 1
  /\ machine' = Aged(machine)
  /\ UNCHANGED log

ObserveTick(status) ==
  /\ Len(log) < MaxObservations
  /\ machine' = Observe(machine, status)
  /\ log' = Append(log, [at |-> now, down |-> status = "DOWN"])
  /\ UNCHANGED now

\* The loop marks the machine after the switch it asked for has been actuated,
\* possibly long after it asked.
Actuated ==
  /\ machine.switchRequired
  /\ machine' = MarkSwitched(machine)
  /\ UNCHANGED <<now, log>>

Next == TimePasses \/ Actuated \/ \E status \in Statuses : ObserveTick(status)

Spec == Init /\ [][Next]_vars

-----------------------------------------------------------------------------
(* Properties *)

\* The window is the last run of DOWN observations: it is open exactly when the
\* last observation was DOWN, it began with the first DOWN of that run, and its
\* age is the time since (up to the saturation).
RunStart(k) ==
  /\ k \in DOMAIN log
  /\ \A j \in k..Len(log) : log[j].down
  /\ k > 1 => ~log[k - 1].down

WindowIsLastRun ==
  /\ machine.inDown <=> \E k \in DOMAIN log : RunStart(k)
  /\ machine.inDown =>
       \E k \in DOMAIN log :
         /\ RunStart(k)
         /\ machine.downFor = IF now - log[k].at < FailoverDelay
                              THEN now - log[k].at ELSE FailoverDelay

Observation == [at : Nat, down : BOOLEAN]

TypeOK == machine \in Machines /\ now \in Nat /\ log \in Seq(Observation)

\* The clock does not go back, so a later observation of a run is a younger one.
InOrder ==
  \A k \in DOMAIN log : /\ log[k].at <= now
                        /\ \A j \in 1..k : log[j].at <= log[k].at

OpenAfterDown == machine.inDown <=> log # <<>> /\ log[Len(log)].down

\* The strengthening of WindowIsLastRun that every step preserves.
WindowInv == TypeOK /\ InOrder /\ OpenAfterDown /\ WindowIsLastRun

S == INSTANCE SustainedDown WITH
  Delay <- FailoverDelay, clock <- now, history <- log,
  requested <- machine.switchRequired, done <- machine.switched

\* The timer decides what the definition over the whole history decides: no
\* request before the delay, none after a healthy observation in between, none
\* once switched, and always one otherwise (machine.go:35-60).
TimerImplementsSustainedDown == S!SustainedSpec
=============================================================================
