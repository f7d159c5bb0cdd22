---------------------------- MODULE RegionSwitch ----------------------------
(***************************************************************************)
(* What a region switch promises, whoever performs it and however its       *)
(* requests fail: a one-way move.  Connection strings only ever go from the *)
(* primary to the secondary, an application is restarted onto the secondary *)
(* only after the connection string it reads has moved, and an actor says   *)
(* that the switch is complete only when everything it is responsible for   *)
(* has moved.  Going back is an operator's decision, outside this module.   *)
(***************************************************************************)
EXTENDS Naturals

CONSTANTS
  Actors,      \* who performs the switch
  Strings,     \* where connection strings are kept
  Apps,        \* the applications that read them
  Reads,       \* Reads[a]: the connection string application a reads
  OwnStrings,  \* OwnStrings[x], OwnApps[x]: what actor x is responsible for
  OwnApps,
  Primary, Secondary

VARIABLES
  target,  \* target[s]: the cluster connection string s points to
  app,     \* app[a]: the cluster application a is connected to
  told     \* the actors that report a completed switch

switchVars == <<target, app, told>>

SwitchInit ==
  /\ target \in [Strings -> {Primary, Secondary}]
  /\ app \in [Apps -> {Primary, Secondary}]
  /\ told = {}

MoveString(s) ==
  /\ target[s] = Primary
  /\ target' = [target EXCEPT ![s] = Secondary]
  /\ UNCHANGED <<app, told>>

MoveApp(a) ==
  /\ target[Reads[a]] = Secondary
  /\ app' = [app EXCEPT ![a] = Secondary]
  /\ UNCHANGED <<target, told>>

Moved(x) ==
  /\ \A s \in OwnStrings[x] : target[s] = Secondary
  /\ \A a \in OwnApps[x] : app[a] = Secondary

Tell(x) ==
  /\ Moved(x)
  /\ told' = told \cup {x}
  /\ UNCHANGED <<target, app>>

\* A later attempt of the same actor failed: it reports nothing any more.
Retract(x) ==
  /\ told' = told \ {x}
  /\ UNCHANGED <<target, app>>

SwitchNext ==
  \/ \E s \in Strings : MoveString(s)
  \/ \E a \in Apps : MoveApp(a)
  \/ \E x \in Actors : Tell(x) \/ Retract(x)

SwitchSpec == SwitchInit /\ [][SwitchNext]_switchVars
=============================================================================
