---------------------------- MODULE SustainedDown ----------------------------
(***************************************************************************)
(* What the decision machine promises, stated over the whole history of     *)
(* observations instead of a timer: a switch is requested by an observation *)
(* exactly when it ends an unbroken run of DOWN observations that began at  *)
(* least Delay ago, and no switch has been carried out.                     *)
(***************************************************************************)
EXTENDS Naturals, Sequences

CONSTANT Delay

VARIABLES
  clock,      \* the time
  history,    \* the observations so far, [at, down]
  requested,  \* the last observation requested a switch
  done        \* a switch has been carried out (or was found done at startup)

sustainedVars == <<clock, history, requested, done>>

\* The history ends with a run of DOWN that began at least Delay before t.
SustainedSince(h, t) ==
  \E k \in DOMAIN h : /\ \A j \in k..Len(h) : h[j].down
                      /\ t - h[k].at >= Delay

SustainedInit ==
  /\ clock = 0
  /\ history = <<>>
  /\ requested = FALSE
  /\ done \in BOOLEAN

PassTime ==
  /\ clock' = clock + 1
  /\ UNCHANGED <<history, requested, done>>

See(isDown) ==
  /\ history' = Append(history, [at |-> clock, down |-> isDown])
  /\ requested' = (~done /\ SustainedSince(history', clock))
  /\ UNCHANGED <<clock, done>>

\* Only a requested switch is ever carried out.
CarryOut ==
  /\ requested
  /\ done' = TRUE
  /\ UNCHANGED <<clock, history, requested>>

SustainedNext == PassTime \/ CarryOut \/ \E isDown \in BOOLEAN : See(isDown)

SustainedSpec == SustainedInit /\ [][SustainedNext]_sustainedVars
=============================================================================
