--------------------------- MODULE MCStateMachine ---------------------------
(* Instances of StateMachineHistory for TLC. *)
EXTENDS StateMachineHistory
=============================================================================
