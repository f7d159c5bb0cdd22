SPECIFICATION Spec
CONSTANTS
  FailoverDelay = 2
  MaxClock = 5
  MaxObservations = 5
INVARIANT WindowIsLastRun
PROPERTY TimerImplementsSustainedDown
\* The clock and the log run into their bounds.
CHECK_DEADLOCK FALSE
