------------------------- MODULE K8sActuator_proofs -------------------------
(***************************************************************************)
(* LedgerInv is an invariant of every instance of K8sActuator, and with it  *)
(* StampMeansServing, SuccessMeansConverged and the refinement of           *)
(* RegionSwitch.  The argument: without an operator, connection strings     *)
(* only move to the secondary and stamps are only added, so what a call has *)
(* read stays true while other callers interleave; the ledger of a call     *)
(* therefore describes the API at every later step, and the roll loop acts  *)
(* on the ledger alone.  The second half bounds how often an app restarts.  *)
(***************************************************************************)
EXTENDS K8sActuator, TLAPS, FiniteSetTheorems

USE CfgAssumption, TargetAssumption

\* The references of a caller are targets.
LEMMA RefTypes ==
  ASSUME NEW c \in Callers
  PROVE  /\ Cfg[c].configMaps \in Seq(CMs)
         /\ Cfg[c].deployments \in Seq(Deps)
         /\ Cfg[c].dryRun \in BOOLEAN
         /\ \A k \in DOMAIN Cfg[c].configMaps :
              /\ Cfg[c].configMaps[k] \in CMs
              /\ NamespaceOf[Cfg[c].configMaps[k]] \in Namespaces
         /\ \A k \in DOMAIN Cfg[c].deployments :
              /\ Cfg[c].deployments[k] \in Deps
              /\ NamespaceOf[Cfg[c].deployments[k]] \in Namespaces
  BY DEF CfgType

\* The ledger updates, field by field.
LEMMA LedgerUpdates ==
  ASSUME NEW l \in Ledger
  PROVE  /\ NoLedger \in Ledger /\ NoLedger.failedNS = {} /\ NoLedger.errs = FALSE
         /\ Counted(l) \in Ledger
         /\ Counted(l).failedNS = l.failedNS /\ Counted(l).errs = l.errs
         /\ Erred(l) \in Ledger
         /\ Erred(l).failedNS = l.failedNS /\ Erred(l).errs = TRUE
         /\ \A ns \in Namespaces :
              /\ Patched(l, ns) \in Ledger
              /\ Patched(l, ns).failedNS = l.failedNS /\ Patched(l, ns).errs = l.errs
              /\ Failed(l, ns) \in Ledger
              /\ l.failedNS \subseteq Failed(l, ns).failedNS
              /\ ns \in Failed(l, ns).failedNS /\ Failed(l, ns).errs = TRUE
<1>1. NoLedger \in Ledger /\ NoLedger.failedNS = {} /\ NoLedger.errs = FALSE
  BY DEF NoLedger, Ledger
<1>2. /\ Counted(l) \in Ledger
      /\ Counted(l).failedNS = l.failedNS /\ Counted(l).errs = l.errs
  BY DEF Counted, Ledger
<1>3. ASSUME NEW ns \in Namespaces
      PROVE  /\ Patched(l, ns) \in Ledger
             /\ Patched(l, ns).failedNS = l.failedNS /\ Patched(l, ns).errs = l.errs
  BY DEF Patched, Ledger
<1>4. /\ Erred(l) \in Ledger
      /\ Erred(l).failedNS = l.failedNS /\ Erred(l).errs = TRUE
  BY DEF Erred, Ledger
<1>5. ASSUME NEW ns \in Namespaces
      PROVE  /\ Failed(l, ns) \in Ledger
             /\ l.failedNS \subseteq Failed(l, ns).failedNS
              /\ ns \in Failed(l, ns).failedNS /\ Failed(l, ns).errs = TRUE
  BY DEF Failed, Ledger
<1> QED BY <1>1, <1>2, <1>3, <1>4, <1>5

\* The verdict on a ledger.
LEMMA VerdictCases ==
  ASSUME NEW l \in Ledger
  PROVE  /\ Verdict(l) \in Outcomes
         /\ Verdict(l) \in {"switched", "noop"} => ~l.errs
  BY DEF Verdict, Outcomes, Ledger

\* The target the patch loop is at.
LEMMA CurrentCM ==
  ASSUME TypeOK, NEW c \in Callers, MoreCMs(c)
  PROVE  /\ pos[c] \in DOMAIN Cfg[c].configMaps
         /\ CM(c) \in CMs /\ CMNS(c) \in Namespaces
<1>1. pos[c] \in DOMAIN Cfg[c].configMaps
  BY RefTypes DEF TypeOK, MoreCMs
<1> QED BY <1>1, RefTypes DEF CM, CMNS

\* The target the roll loop is at.
LEMMA CurrentDep ==
  ASSUME TypeOK, NEW c \in Callers, MoreDeps(c)
  PROVE  /\ pos[c] \in DOMAIN Cfg[c].deployments
         /\ Dep(c) \in Deps /\ DepNS(c) \in Namespaces
<1>1. pos[c] \in DOMAIN Cfg[c].deployments
  BY RefTypes DEF TypeOK, MoreDeps
<1> QED BY <1>1, RefTypes DEF Dep, DepNS

\* A caller's step is one of these actions.
LEMMA StepCases ==
  ASSUME Next
  PROVE  \/ \E c \in Callers :
              \/ Begin(c) \/ BeginEmpty(c) \/ Crash(c) \/ Return(c)
              \/ GetCMAlreadySwitched(c) \/ GetCMPending(c) \/ PutCM(c)
              \/ PatchDone(c) \/ RollSkipped(c) \/ GetDepAlreadyRolled(c)
              \/ GetDepToRoll(c) \/ PutDep(c) \/ GetCMFails(c) \/ PutCMFails(c)
              \/ PutCMAnswerLost(c) \/ GetDepFails(c) \/ PutDepFails(c)
              \/ PutDepAnswerLost(c)
         \/ Stabilise
  BY DEF Next, Call, Switch, Proceed, RequestFails

\* Spoiling copies keeps the flags Boolean.
LEMMA SpoilType ==
  ASSUME TypeOK, NEW c \in Callers
  PROVE  /\ SpoilCM(c) \in [Callers -> BOOLEAN]
         /\ SpoilDep(c) \in [Callers -> BOOLEAN]
<1>1. ASSUME NEW k \in Callers, NEW spoilt \in BOOLEAN
      PROVE  (IF k = c THEN TRUE ELSE fresh[k] /\ ~spoilt) \in BOOLEAN
  OBVIOUS
<1>2. SpoilCM(c) \in [Callers -> BOOLEAN]
  BY <1>1, Zenon DEF SpoilCM
<1>3. SpoilDep(c) \in [Callers -> BOOLEAN]
  BY <1>1, Zenon DEF SpoilDep
<1> QED BY <1>2, <1>3

\* The facts about the state of caller c that its next step needs.
LEMMA CallerFacts ==
  ASSUME TypeOK, NEW c \in Callers, CallShape(c)
  PROVE  /\ MoreCMs(c) \/ phase[c] = "putCM" =>
              /\ MoreCMs(c) /\ CM(c) \in CMs /\ CMNS(c) \in Namespaces
              /\ Patched(led[c], CMNS(c)) \in Ledger
              /\ Failed(led[c], CMNS(c)) \in Ledger
         /\ MoreDeps(c) \/ phase[c] = "putDep" =>
              MoreDeps(c) /\ Dep(c) \in Deps /\ DepNS(c) \in Namespaces
         /\ NoLedger \in Ledger
         /\ Counted(led[c]) \in Ledger
         /\ Erred(led[c]) \in Ledger
         /\ Verdict(led[c]) \in Outcomes
<1>1. led[c] \in Ledger
  BY DEF TypeOK
<1>2. /\ phase[c] = "putCM" => MoreCMs(c)
      /\ phase[c] = "putDep" => MoreDeps(c)
  BY DEF CallShape
<1>3. MoreCMs(c) => CM(c) \in CMs /\ CMNS(c) \in Namespaces
  BY CurrentCM
<1>4. MoreDeps(c) => Dep(c) \in Deps /\ DepNS(c) \in Namespaces
  BY CurrentDep
<1>5. ASSUME MoreCMs(c) PROVE Patched(led[c], CMNS(c)) \in Ledger /\ Failed(led[c], CMNS(c)) \in Ledger
  BY <1>1, <1>3, <1>5, LedgerUpdates
<1>6. Counted(led[c]) \in Ledger /\ Erred(led[c]) \in Ledger
  BY <1>1, LedgerUpdates
<1>7. NoLedger \in Ledger
  BY DEF NoLedger, Ledger
<1>8. Verdict(led[c]) \in Outcomes
  BY <1>1, VerdictCases
<1> QED BY <1>2, <1>3, <1>4, <1>5, <1>6, <1>7, <1>8

\* Every action preserves the types.
LEMMA TypeStep == TypeOK /\ (\A c \in Callers : CallShape(c)) /\ [Next]_vars => TypeOK'
<1> SUFFICES ASSUME TypeOK, \A c \in Callers : CallShape(c), [Next]_vars PROVE TypeOK'
  OBVIOUS
<1> USE DEF TypeOK, apiVars, callerVars, Phases
<1>1. CASE UNCHANGED vars
  BY <1>1 DEF vars
<1>2. CASE Stabilise
  BY <1>2 DEF Stabilise
<1>3. ASSUME NEW c \in Callers, BeginEmpty(c) PROVE TypeOK'
  BY <1>3, CallerFacts DEF BeginEmpty, Outcomes
<1>4. ASSUME NEW c \in Callers, Begin(c) PROVE TypeOK'
  BY <1>4, CallerFacts DEF Begin
<1>5. ASSUME NEW c \in Callers, GetCMAlreadySwitched(c) PROVE TypeOK'
  BY <1>5, CallerFacts DEF GetCMAlreadySwitched, Advance
<1>6. ASSUME NEW c \in Callers, GetCMPending(c) PROVE TypeOK'
  BY <1>6, CallerFacts DEF GetCMPending, Advance
<1>7. ASSUME NEW c \in Callers, PutCM(c) PROVE TypeOK'
  BY <1>7, CallerFacts, SpoilType DEF PutCM, WriteCM, Advance
<1>8. ASSUME NEW c \in Callers, PatchDone(c) PROVE TypeOK'
  BY <1>8, CallerFacts DEF PatchDone
<1>9. ASSUME NEW c \in Callers, RollSkipped(c) PROVE TypeOK'
  BY <1>9, CallerFacts DEF RollSkipped, Advance
<1>10. ASSUME NEW c \in Callers, GetDepAlreadyRolled(c) PROVE TypeOK'
  BY <1>10, CallerFacts DEF GetDepAlreadyRolled, Advance
<1>11. ASSUME NEW c \in Callers, GetDepToRoll(c) PROVE TypeOK'
  BY <1>11, CallerFacts DEF GetDepToRoll
<1>12. ASSUME NEW c \in Callers, PutDep(c) PROVE TypeOK'
  BY <1>12, CallerFacts, SpoilType DEF PutDep, WriteDep, Advance
<1>13. ASSUME NEW c \in Callers, Return(c) PROVE TypeOK'
  BY <1>13, CallerFacts DEF Return, Leave, Keep
<1>14. ASSUME NEW c \in Callers, GetCMFails(c) PROVE TypeOK'
  BY <1>14, CallerFacts DEF GetCMFails, CMFails, Advance
<1>15. ASSUME NEW c \in Callers, PutCMFails(c) PROVE TypeOK'
  BY <1>15, CallerFacts DEF PutCMFails, CMFails, Advance, Keep
<1>16. ASSUME NEW c \in Callers, PutCMAnswerLost(c) PROVE TypeOK'
  BY <1>16, CallerFacts, SpoilType DEF PutCMAnswerLost, CMFails, WriteCM, Advance
<1>17. ASSUME NEW c \in Callers, GetDepFails(c) PROVE TypeOK'
  BY <1>17, CallerFacts DEF GetDepFails, DepFails, Advance
<1>18. ASSUME NEW c \in Callers, PutDepFails(c) PROVE TypeOK'
  BY <1>18, CallerFacts DEF PutDepFails, DepFails, Advance, Keep
<1>19. ASSUME NEW c \in Callers, PutDepAnswerLost(c) PROVE TypeOK'
  BY <1>19, CallerFacts, SpoilType DEF PutDepAnswerLost, DepFails, WriteDep, Advance
<1>20. ASSUME NEW c \in Callers, Crash(c) PROVE TypeOK'
  BY <1>20, CallerFacts DEF Crash, Leave, Keep
<1> QED
  BY <1>1, <1>2, <1>3, <1>4, <1>5, <1>6, <1>7, <1>8, <1>9, <1>10, <1>11, <1>12, <1>13, <1>14, <1>15, <1>16, <1>17, <1>18, <1>19, <1>20, StepCases

\* A step of c leaves the call of every other caller where it is, ledger and
\* last answer included.
LEMMA Locality ==
  ASSUME TypeOK, NEW c \in Callers, Call(c) \/ Switch(c) \/ Crash(c),
         NEW x \in Callers, x # c
  PROVE  phase'[x] = phase[x] /\ pos'[x] = pos[x] /\ led'[x] = led[x]
         /\ outcome'[x] = outcome[x]
  BY DEF TypeOK, callerVars, Call, Switch, Proceed, RequestFails,
         Begin, BeginEmpty, Crash, Return, GetCMAlreadySwitched, GetCMPending, PutCM, PatchDone, RollSkipped, GetDepAlreadyRolled, GetDepToRoll, PutDep, GetCMFails, PutCMFails, PutCMAnswerLost, GetDepFails, PutDepFails, PutDepAnswerLost, Stabilise, Advance, Leave, Keep, CMFails, DepFails, WriteCM, WriteDep

\* Connection strings move one way and stamps are never removed.
LEMMA Monotone ==
  ASSUME TypeOK, \A c \in Callers : CallShape(c), [Next]_vars
  PROVE  /\ \A m \in CMs : cmData[m] = Secondary => cmData'[m] = Secondary
         /\ \A d \in Deps : stamped[d] => stamped'[d]
<1> DEFINE M == /\ \A m \in CMs : cmData[m] = Secondary => cmData'[m] = Secondary
               /\ \A d \in Deps : stamped[d] => stamped'[d]
<1>1. CASE apiVars' = apiVars
  BY <1>1 DEF apiVars
<1>2. ASSUME NEW c \in Callers, WriteCM(c), CM(c) \in CMs PROVE M
  BY <1>2 DEF WriteCM, TypeOK
<1>3. ASSUME NEW c \in Callers, WriteDep(c), Dep(c) \in Deps PROVE M
  BY <1>3 DEF WriteDep, TypeOK
<1>4. \/ apiVars' = apiVars
      \/ \E c \in Callers : \/ PutCM(c) \/ PutCMAnswerLost(c)
                            \/ PutDep(c) \/ PutDepAnswerLost(c)
  BY StepCases DEF vars, Begin, BeginEmpty, Crash, Return, GetCMAlreadySwitched,
     GetCMPending, PatchDone, RollSkipped, GetDepAlreadyRolled, GetDepToRoll,
     GetCMFails, PutCMFails, GetDepFails, PutDepFails, Stabilise
<1>5. ASSUME NEW c \in Callers, PutCM(c) \/ PutCMAnswerLost(c) PROVE M
  BY <1>5, <1>2, CallerFacts DEF PutCM, PutCMAnswerLost
<1>6. ASSUME NEW c \in Callers, PutDep(c) \/ PutDepAnswerLost(c) PROVE M
  BY <1>6, <1>3, CallerFacts DEF PutDep, PutDepAnswerLost
<1> QED BY <1>1, <1>4, <1>5, <1>6

\* The ledger of caller c after each kind of update.
LEMMA CallerLedger ==
  ASSUME TypeOK, NEW c \in Callers, CallShape(c)
  PROVE  /\ NoLedger.failedNS = {} /\ NoLedger.errs = FALSE
         /\ Counted(led[c]).failedNS = led[c].failedNS
         /\ Counted(led[c]).errs = led[c].errs
         /\ Erred(led[c]).failedNS = led[c].failedNS /\ Erred(led[c]).errs = TRUE
         /\ MoreCMs(c) =>
              /\ Patched(led[c], CMNS(c)).failedNS = led[c].failedNS
              /\ Patched(led[c], CMNS(c)).errs = led[c].errs
              /\ led[c].failedNS \subseteq Failed(led[c], CMNS(c)).failedNS
              /\ CMNS(c) \in Failed(led[c], CMNS(c)).failedNS
              /\ Failed(led[c], CMNS(c)).errs = TRUE
<1>1. led[c] \in Ledger
  BY DEF TypeOK
<1>2. MoreCMs(c) => CMNS(c) \in Namespaces
  BY CurrentCM
<1>3. /\ NoLedger.failedNS = {} /\ NoLedger.errs = FALSE
      /\ Counted(led[c]).failedNS = led[c].failedNS
      /\ Counted(led[c]).errs = led[c].errs
      /\ Erred(led[c]).failedNS = led[c].failedNS /\ Erred(led[c]).errs = TRUE
  BY <1>1, LedgerUpdates
<1>4. ASSUME NEW ns \in Namespaces
      PROVE  /\ Patched(led[c], ns).failedNS = led[c].failedNS
             /\ Patched(led[c], ns).errs = led[c].errs
             /\ led[c].failedNS \subseteq Failed(led[c], ns).failedNS
             /\ ns \in Failed(led[c], ns).failedNS
             /\ Failed(led[c], ns).errs = TRUE
  <2> DEFINE l == led[c]
  <2>1. l \in Ledger
    BY <1>1
  <2> HIDE DEF l
  <2>2. /\ Patched(l, ns).failedNS = l.failedNS /\ Patched(l, ns).errs = l.errs
        /\ l.failedNS \subseteq Failed(l, ns).failedNS
        /\ ns \in Failed(l, ns).failedNS /\ Failed(l, ns).errs = TRUE
    BY <2>1, LedgerUpdates
  <2> QED BY <2>2 DEF l
<1>5. ASSUME MoreCMs(c)
      PROVE  /\ Patched(led[c], CMNS(c)).failedNS = led[c].failedNS
             /\ Patched(led[c], CMNS(c)).errs = led[c].errs
             /\ led[c].failedNS \subseteq Failed(led[c], CMNS(c)).failedNS
             /\ CMNS(c) \in Failed(led[c], CMNS(c)).failedNS
             /\ Failed(led[c], CMNS(c)).errs = TRUE
  <2> DEFINE ns == CMNS(c)
  <2>1. ns \in Namespaces
    BY <1>2, <1>5
  <2> HIDE DEF ns
  <2>2. /\ Patched(led[c], ns).failedNS = led[c].failedNS
        /\ Patched(led[c], ns).errs = led[c].errs
        /\ led[c].failedNS \subseteq Failed(led[c], ns).failedNS
        /\ ns \in Failed(led[c], ns).failedNS
        /\ Failed(led[c], ns).errs = TRUE
    BY <1>4, <2>1
  <2> QED BY <2>2 DEF ns
<1> QED BY <1>3, <1>5

-----------------------------------------------------------------------------
(* What a step does to the call that makes it *)

SameFaults(c) == led'[c].failedNS = led[c].failedNS /\ led'[c].errs = led[c].errs

Refused(c) ==
  phase[c] = "idle" /\ phase'[c] = phase[c] /\ pos'[c] = pos[c] /\ led'[c] = led[c]
Left(c)    == phase'[c] = "idle" /\ pos'[c] = 1 /\ led'[c] = NoLedger
Entered(c) ==
  /\ phase[c] = "idle" /\ phase'[c] = "getCM" /\ Cfg[c].configMaps # <<>>
  /\ pos'[c] = pos[c] /\ led'[c] = led[c]

ReadCM(c) ==
  /\ phase[c] = "getCM" /\ phase'[c] = "putCM" /\ pos'[c] = pos[c]
  /\ MoreCMs(c) /\ ~Cfg[c].dryRun /\ SameFaults(c)
PassedCM(c) ==
  /\ phase[c] \in {"getCM", "putCM"} /\ MoreCMs(c)
  /\ phase'[c] = "getCM" /\ pos'[c] = pos[c] + 1
  /\ SameFaults(c) \/ (led[c].failedNS \subseteq led'[c].failedNS /\ led'[c].errs)
  /\ Cfg[c].dryRun \/ cmData'[CM(c)] = Secondary \/ CMNS(c) \in led'[c].failedNS
TurnedToRoll(c) ==
  /\ phase[c] = "getCM" /\ ~MoreCMs(c) /\ ~Cfg[c].dryRun
  /\ phase'[c] = "getDep" /\ pos'[c] = 1 /\ led'[c] = led[c]

ReadDep(c) ==
  /\ phase[c] = "getDep" /\ phase'[c] = "putDep" /\ pos'[c] = pos[c] /\ led'[c] = led[c]
  /\ MoreDeps(c) /\ ~Barred(c)
PassedDep(c) ==
  /\ phase[c] \in {"getDep", "putDep"} /\ MoreDeps(c)
  /\ phase'[c] = "getDep" /\ pos'[c] = pos[c] + 1
  /\ led'[c].failedNS = led[c].failedNS /\ (led[c].errs => led'[c].errs)
  /\ stamped'[Dep(c)] \/ led'[c].errs

\* A call is refused, entered or left, or one of its loops goes on.
LEMMA OwnStep ==
  ASSUME TypeOK, NEW c \in Callers, CallShape(c), Call(c) \/ Switch(c) \/ Crash(c)
  PROVE  \/ Refused(c) \/ Entered(c) \/ Left(c)
         \/ ReadCM(c) \/ PassedCM(c) \/ TurnedToRoll(c)
         \/ ReadDep(c) \/ PassedDep(c)
<1>0. /\ phase \in [Callers -> Phases] /\ pos \in [Callers -> Nat \ {0}] /\ led \in [Callers -> Ledger]
      /\ cmData \in [CMs -> {Primary, Secondary}] /\ stamped \in [Deps -> BOOLEAN]
      /\ phase[c] = "putCM" => MoreCMs(c)
      /\ MoreCMs(c) => CM(c) \in CMs
      /\ phase[c] = "putDep" => MoreDeps(c)
      /\ MoreDeps(c) => Dep(c) \in Deps
  BY CallerFacts DEF TypeOK, CallShape
<1>a. ASSUME NEW ph, Advance(c, ph) PROVE phase'[c] = ph /\ pos'[c] = pos[c] + 1
  BY <1>0, <1>a DEF Advance
<1>b. ASSUME CMFails(c), phase[c] \in {"getCM", "putCM"}, MoreCMs(c) PROVE PassedCM(c)
  <2>1. led'[c] = Failed(led[c], CMNS(c))
    BY <1>0, <1>b DEF CMFails
  <2>2. phase'[c] = "getCM" /\ pos'[c] = pos[c] + 1
    BY <1>a, <1>b DEF CMFails
  <2> QED BY <1>b, <2>1, <2>2, CallerLedger DEF PassedCM
<1>c. ASSUME DepFails(c), phase[c] \in {"getDep", "putDep"}, MoreDeps(c) PROVE PassedDep(c)
  <2>1. led'[c] = Erred(led[c])
    BY <1>0, <1>c DEF DepFails
  <2>2. phase'[c] = "getDep" /\ pos'[c] = pos[c] + 1
    BY <1>a, <1>c DEF DepFails
  <2> QED BY <1>c, <2>1, <2>2, CallerLedger DEF PassedDep
<1>d. ASSUME WriteCM(c), MoreCMs(c) PROVE cmData'[CM(c)] = Secondary
  BY <1>0, <1>d DEF WriteCM
<1>e. ASSUME WriteDep(c), MoreDeps(c) PROVE stamped'[Dep(c)]
  BY <1>0, <1>e DEF WriteDep
<1>1. CASE Begin(c)
  BY <1>0, <1>1 DEF Begin, Entered
<1>2. CASE BeginEmpty(c)
  BY <1>2 DEF BeginEmpty, Refused
<1>3. CASE Crash(c) \/ Return(c)
  BY <1>0, <1>3 DEF Crash, Return, Leave, Left
<1>4. CASE GetCMAlreadySwitched(c)
  BY <1>a, <1>4 DEF GetCMAlreadySwitched, apiVars, PassedCM, SameFaults
<1>5. CASE GetCMPending(c)
  <2>1. /\ phase[c] = "getCM" /\ MoreCMs(c)
        /\ led'[c] = Counted(led[c])
        /\ \/ Cfg[c].dryRun /\ Advance(c, "getCM")
           \/ ~Cfg[c].dryRun /\ phase'[c] = "putCM" /\ pos'[c] = pos[c]
    BY <1>0, <1>5 DEF GetCMPending
  <2>2. SameFaults(c)
    BY <2>1, CallerLedger DEF SameFaults
  <2> QED BY <1>a, <2>1, <2>2 DEF PassedCM, ReadCM
<1>6. CASE PutCM(c)
  <2>1. /\ phase[c] = "putCM" /\ WriteCM(c) /\ Advance(c, "getCM")
        /\ led'[c] = Patched(led[c], CMNS(c))
    BY <1>0, <1>6 DEF PutCM
  <2>2. MoreCMs(c) /\ SameFaults(c)
    BY <1>0, <2>1, CallerLedger DEF SameFaults
  <2> QED BY <1>a, <1>d, <2>1, <2>2 DEF PassedCM
<1>7. CASE GetCMFails(c) \/ PutCMFails(c) \/ PutCMAnswerLost(c)
  BY <1>0, <1>b, <1>7 DEF GetCMFails, PutCMFails, PutCMAnswerLost
<1>8. CASE PatchDone(c)
  BY <1>0, <1>8 DEF PatchDone, TurnedToRoll
<1>9. CASE RollSkipped(c)
  <2>1. /\ phase[c] = "getDep" /\ MoreDeps(c) /\ led'[c] = led[c] /\ Advance(c, "getDep")
        /\ led[c].failedNS # {}
    BY <1>9 DEF RollSkipped, Barred
  <2>2. led[c].errs
    BY <2>1 DEF CallShape
  <2> QED BY <1>a, <2>1, <2>2 DEF PassedDep
<1>10. CASE GetDepAlreadyRolled(c)
  <2>1. /\ phase[c] = "getDep" /\ MoreDeps(c) /\ led'[c] = led[c] /\ Advance(c, "getDep")
        /\ stamped' = stamped /\ stamped[Dep(c)]
    BY <1>10 DEF GetDepAlreadyRolled, AlreadyRolled, apiVars
  <2> QED BY <1>a, <2>1 DEF PassedDep
<1>11. CASE GetDepToRoll(c)
  BY <1>0, <1>11 DEF GetDepToRoll, ReadDep
<1>12. CASE PutDep(c)
  <2>1. phase[c] = "putDep" /\ led'[c] = led[c] /\ Advance(c, "getDep") /\ WriteDep(c)
    BY <1>12 DEF PutDep
  <2> QED BY <1>0, <1>a, <1>e, <2>1 DEF PassedDep
<1>13. CASE GetDepFails(c) \/ PutDepFails(c) \/ PutDepAnswerLost(c)
  BY <1>0, <1>c, <1>13 DEF GetDepFails, PutDepFails, PutDepAnswerLost
<1> QED BY <1>1, <1>2, <1>3, <1>4, <1>5, <1>6, <1>7, <1>8, <1>9, <1>10, <1>11, <1>12, <1>13
        DEF Call, Switch, Proceed, RequestFails

\* A step of c keeps its own call in shape.
LEMMA ShapeStep ==
  ASSUME CallsInv, NEW c \in Callers, Call(c) \/ Switch(c) \/ Crash(c)
  PROVE  CallShape(c)'
<1>0. TypeOK /\ CallShape(c)
  BY DEF CallsInv
<1> USE DEF CallShape, MoreCMs, MoreDeps, Barred, DepNS, Dep, SameFaults
<1>1. CASE Refused(c) \/ Entered(c)
  BY <1>0, <1>1 DEF Refused, Entered
<1>2. CASE Left(c)
  BY <1>2, LedgerUpdates DEF Left, NoLedger
<1>3. CASE ReadCM(c) \/ PassedCM(c) \/ TurnedToRoll(c)
  BY <1>0, <1>3 DEF ReadCM, PassedCM, TurnedToRoll
<1>4. CASE ReadDep(c) \/ PassedDep(c)
  BY <1>0, <1>4 DEF ReadDep, PassedDep
<1> QED BY <1>0, <1>1, <1>2, <1>3, <1>4, OwnStep

\* How far the two loops of caller c have come.
LEMMA CMLoop ==
  ASSUME TypeOK, NEW c \in Callers
  PROVE  /\ CMNS(c) = NamespaceOf[CM(c)]
         /\ \A k \in DOMAIN Cfg[c].configMaps :
              /\ k \in Nat /\ k >= 1 /\ (~MoreCMs(c) => k < pos[c])
              /\ k < pos[c] + 1 => k < pos[c] \/ Cfg[c].configMaps[k] = CM(c)
  BY RefTypes DEF TypeOK, MoreCMs, CM, CMNS

\* The same for the roll loop.
LEMMA DepLoop ==
  ASSUME TypeOK, NEW c \in Callers
  PROVE  /\ DepNS(c) = NamespaceOf[Dep(c)]
         /\ \A k \in DOMAIN Cfg[c].deployments :
              /\ k \in Nat /\ k >= 1 /\ (~MoreDeps(c) => k < pos[c])
              /\ k < pos[c] + 1 => k < pos[c] \/ Cfg[c].deployments[k] = Dep(c)
  BY RefTypes DEF TypeOK, MoreDeps, Dep, DepNS

\* A step of c keeps its own patch loop honest.
LEMMA PatchStep ==
  ASSUME CallsInv, NEW c \in Callers, Call(c) \/ Switch(c) \/ Crash(c)
  PROVE  PatchLoop(c)'
<1>0. /\ TypeOK /\ CallShape(c) /\ PatchLoop(c) /\ pos[c] \in Nat
      /\ \A k \in DOMAIN Cfg[c].configMaps :
           cmData[Cfg[c].configMaps[k]] = Secondary => cmData'[Cfg[c].configMaps[k]] = Secondary
  BY Monotone, RefTypes DEF CallsInv, TypeOK, Next
<1> SUFFICES ASSUME ~Cfg[c].dryRun, NEW k \in DOMAIN Cfg[c].configMaps,
                    \/ phase'[c] \in {"getCM", "putCM"} /\ k < pos'[c]
                    \/ phase'[c] \in {"getDep", "putDep"}
             PROVE  \/ cmData'[Cfg[c].configMaps[k]] = Secondary
                    \/ NamespaceOf[Cfg[c].configMaps[k]] \in led'[c].failedNS
  BY DEF PatchLoop
<1>1. CASE Left(c)
  BY <1>1 DEF Left
<1>2. CASE Entered(c)
  <2>1. ~(k < pos'[c])
    BY <1>0, <1>2, CMLoop DEF Entered, CallShape
  <2> QED BY <1>2, <2>1 DEF Entered
<1>3. ASSUME \/ phase[c] \in {"getCM", "putCM"} /\ k < pos[c]
             \/ phase[c] \in {"getDep", "putDep"},
             led[c].failedNS \subseteq led'[c].failedNS
      PROVE  \/ cmData'[Cfg[c].configMaps[k]] = Secondary
             \/ NamespaceOf[Cfg[c].configMaps[k]] \in led'[c].failedNS
  BY <1>0, <1>3 DEF PatchLoop
<1>4. CASE Refused(c)
  BY <1>3, <1>4 DEF Refused
<1>5. CASE ReadCM(c)
  BY <1>3, <1>5 DEF ReadCM, SameFaults
<1>6. CASE PassedCM(c)
  <2>1. k < pos[c] \/ Cfg[c].configMaps[k] = CM(c)
    BY <1>0, <1>6, CMLoop DEF PassedCM
  <2>2. CASE k < pos[c]
    BY <1>3, <1>6, <2>2 DEF PassedCM, SameFaults
  <2>3. CASE Cfg[c].configMaps[k] = CM(c)
    BY <1>6, <2>3 DEF PassedCM, CMNS
  <2> QED BY <2>1, <2>2, <2>3
<1>7. CASE TurnedToRoll(c)
  <2>1. k < pos[c]
    BY <1>0, <1>7, CMLoop DEF TurnedToRoll
  <2> QED BY <1>3, <1>7, <2>1 DEF TurnedToRoll
<1>8. CASE ReadDep(c) \/ PassedDep(c)
  BY <1>3, <1>8 DEF ReadDep, PassedDep
<1> QED BY <1>0, <1>1, <1>2, <1>4, <1>5, <1>6, <1>7, <1>8, OwnStep

\* A step of c keeps its own roll loop honest.
LEMMA RollStep ==
  ASSUME CallsInv, NEW c \in Callers, Call(c) \/ Switch(c) \/ Crash(c)
  PROVE  RollLoop(c)'
<1>0. /\ TypeOK /\ CallShape(c) /\ RollLoop(c) /\ pos[c] \in Nat
      /\ \A k \in DOMAIN Cfg[c].deployments :
           stamped[Cfg[c].deployments[k]] => stamped'[Cfg[c].deployments[k]]
  BY Monotone, RefTypes DEF CallsInv, TypeOK, Next
<1> SUFFICES ASSUME NEW k \in DOMAIN Cfg[c].deployments,
                    phase'[c] \in {"getDep", "putDep"}, k < pos'[c]
             PROVE  stamped'[Cfg[c].deployments[k]] \/ led'[c].errs
  BY DEF RollLoop
<1>1. ASSUME phase[c] \in {"getDep", "putDep"}, k < pos[c], led[c].errs => led'[c].errs
      PROVE  stamped'[Cfg[c].deployments[k]] \/ led'[c].errs
  BY <1>0, <1>1 DEF RollLoop
<1>2. CASE Refused(c) \/ ReadDep(c)
  BY <1>1, <1>2 DEF Refused, ReadDep
<1>3. CASE Entered(c) \/ Left(c) \/ ReadCM(c) \/ PassedCM(c)
  BY <1>3 DEF Entered, Left, ReadCM, PassedCM
<1>4. CASE TurnedToRoll(c)
  <2>1. ~(k < pos'[c])
    BY <1>0, <1>4, DepLoop DEF TurnedToRoll
  <2> QED BY <2>1
<1>5. CASE PassedDep(c)
  <2>1. k < pos[c] \/ Cfg[c].deployments[k] = Dep(c)
    BY <1>0, <1>5, DepLoop DEF PassedDep
  <2>2. CASE k < pos[c]
    BY <1>1, <1>5, <2>2 DEF PassedDep
  <2>3. CASE Cfg[c].deployments[k] = Dep(c)
    BY <1>5, <2>3 DEF PassedDep
  <2> QED BY <2>1, <2>2, <2>3
<1> QED BY <1>0, <1>2, <1>3, <1>4, <1>5, OwnStep

\* What c reports after its step is true.
LEMMA ReportStep ==
  ASSUME CallsInv, NEW c \in Callers, Call(c) \/ Switch(c) \/ Crash(c)
  PROVE  ReportedStays(c)'
<1> USE DEF CallsInv, ReportedStays, Reported, TypeOK, apiVars
<1>0. /\ \A m \in Range(Cfg[c].configMaps) : cmData[m] = Secondary => cmData'[m] = Secondary
      /\ \A d \in Range(Cfg[c].deployments) : stamped[d] => stamped'[d]
  BY Monotone, RefTypes DEF Next, Range
<1>a. ASSUME Return(c) PROVE ReportedStays(c)'
  <2> SUFFICES ASSUME ~Cfg[c].dryRun, Verdict(led[c]) \in {"switched", "noop"}
               PROVE  /\ \A m \in Range(Cfg[c].configMaps) : cmData'[m] = Secondary
                      /\ \A d \in Range(Cfg[c].deployments) : stamped'[d]
    BY <1>a DEF Return
  <2>1. phase[c] = "getDep" /\ ~MoreDeps(c)
    BY <1>a DEF Return
  <2>2. ~led[c].errs
    BY VerdictCases
  <2>3. led[c].failedNS = {}
    BY <2>2 DEF CallShape
  <2>4. \A k \in DOMAIN Cfg[c].configMaps : cmData[Cfg[c].configMaps[k]] = Secondary
    BY <2>1, <2>3 DEF PatchLoop
  <2>5. \A k \in DOMAIN Cfg[c].deployments : stamped[Cfg[c].deployments[k]]
    BY <2>1, <2>2, DepLoop DEF RollLoop
  <2> QED BY <1>0, <2>4, <2>5 DEF Range
<1>1. CASE Begin(c)
  BY <1>1, <1>0 DEF Begin
<1>2. CASE BeginEmpty(c)
  BY <1>2, <1>0 DEF BeginEmpty
<1>3. CASE Crash(c)
  BY <1>3, <1>0 DEF Crash, Leave, Keep
<1>4. CASE Return(c)
  BY <1>4, <1>a
<1>5. CASE GetCMAlreadySwitched(c)
  BY <1>5, <1>0 DEF GetCMAlreadySwitched, Advance
<1>6. CASE GetCMPending(c)
  BY <1>6, <1>0 DEF GetCMPending, Advance
<1>7. CASE PutCM(c)
  BY <1>7, <1>0 DEF PutCM, WriteCM, Advance
<1>8. CASE PatchDone(c)
  BY <1>8, <1>0 DEF PatchDone
<1>9. CASE RollSkipped(c)
  BY <1>9, <1>0 DEF RollSkipped, Advance
<1>10. CASE GetDepAlreadyRolled(c)
  BY <1>10, <1>0 DEF GetDepAlreadyRolled, Advance
<1>11. CASE GetDepToRoll(c)
  BY <1>11, <1>0 DEF GetDepToRoll
<1>12. CASE PutDep(c)
  BY <1>12, <1>0 DEF PutDep, WriteDep, Advance
<1>13. CASE GetCMFails(c)
  BY <1>13, <1>0 DEF GetCMFails, CMFails, Advance
<1>14. CASE PutCMFails(c)
  BY <1>14, <1>0 DEF PutCMFails, CMFails, Advance, Keep
<1>15. CASE PutCMAnswerLost(c)
  BY <1>15, <1>0 DEF PutCMAnswerLost, CMFails, WriteCM, Advance
<1>16. CASE GetDepFails(c)
  BY <1>16, <1>0 DEF GetDepFails, DepFails, Advance
<1>17. CASE PutDepFails(c)
  BY <1>17, <1>0 DEF PutDepFails, DepFails, Advance, Keep
<1>18. CASE PutDepAnswerLost(c)
  BY <1>18, <1>0 DEF PutDepAnswerLost, DepFails, WriteDep, Advance
<1> QED
  BY <1>1, <1>2, <1>3, <1>4, <1>5, <1>6, <1>7, <1>8, <1>9, <1>10, <1>11, <1>12, <1>13, <1>14, <1>15, <1>16, <1>17, <1>18 DEF Call, Switch, Proceed, RequestFails

\* Whoever steps, a stamped Deployment serves the secondary: it is stamped only
\* after the ConfigMap its pods read has been converged by the same call.
LEMMA StampStep ==
  ASSUME LedgerInv, [Next]_vars
  PROVE  StampMeansServing'
<1> USE DEF LedgerInv, CallsInv, StampMeansServing
<1>1. CASE UNCHANGED <<stamped, serving>>
  BY <1>1
<1>2. ASSUME NEW c \in Callers, PutDep(c) \/ PutDepAnswerLost(c)
      PROVE  StampMeansServing'
  <2>1. WriteDep(c) /\ phase[c] = "putDep"
    BY <1>2 DEF PutDep, PutDepAnswerLost
  <2>2. MoreDeps(c) /\ ~Barred(c) /\ ~Cfg[c].dryRun /\ Cfg[c].configMaps # <<>>
    BY <2>1 DEF CallShape
  <2>3. Dep(c) \in Deps /\ Dep(c) \in Range(Cfg[c].deployments)
    BY <2>2, CurrentDep DEF Dep, Range
  <2>4. PICK k \in DOMAIN Cfg[c].configMaps : Cfg[c].configMaps[k] = ReadsFrom[Dep(c)]
    BY <2>2, <2>3, PairedAssumption DEF Range
  <2>5. NamespaceOf[Cfg[c].configMaps[k]] \notin led[c].failedNS
    BY <2>2, <2>3, <2>4, PairedAssumption DEF Barred, DepNS
  <2>6. cmData[ReadsFrom[Dep(c)]] = Secondary
    BY <2>1, <2>2, <2>4, <2>5 DEF PatchLoop
  <2> QED BY <2>1, <2>3, <2>6 DEF WriteDep, TypeOK
<1>3. \/ UNCHANGED <<stamped, serving>>
      \/ \E c \in Callers : PutDep(c) \/ PutDepAnswerLost(c)
  BY StepCases DEF vars, apiVars, Begin, BeginEmpty, Crash, Return, GetCMAlreadySwitched,
     GetCMPending, PatchDone, RollSkipped, GetDepAlreadyRolled, GetDepToRoll,
     GetCMFails, PutCMFails, GetDepFails, PutDepFails, Stabilise,
     PutCM, PutCMAnswerLost, WriteCM
<1> QED BY <1>1, <1>2, <1>3

\* The invariant holds before any call.
LEMMA InitInv == Init => LedgerInv
<1> SUFFICES ASSUME Init PROVE LedgerInv
  OBVIOUS
<1> USE DEF Init
<1>1. TypeOK
  BY LedgerUpdates DEF TypeOK, Phases, Outcomes, Ledger, NoLedger
<1>2. \A c \in Callers : CallShape(c)
  BY DEF CallShape, NoLedger
<1>3. \A c \in Callers : PatchLoop(c) /\ RollLoop(c)
  BY DEF PatchLoop, RollLoop
<1>4. \A c \in Callers : ReportedStays(c)
  BY DEF ReportedStays, Reported
<1>5. StampMeansServing
  BY DEF StampMeansServing
<1> QED BY <1>1, <1>2, <1>3, <1>4, <1>5 DEF LedgerInv, CallsInv

\* Every step preserves the truth of the ledgers: the stepping call by the lemmas above, the
\* other calls because what they have relied on only becomes more true.
LEMMA CallsStep == CallsInv /\ [Next]_vars => CallsInv'
<1> SUFFICES ASSUME CallsInv, [Next]_vars PROVE CallsInv'
  OBVIOUS
<1>1. TypeOK'
  BY TypeStep DEF CallsInv
<1> DEFINE Call3(x) == CallShape(x) /\ PatchLoop(x) /\ RollLoop(x) /\ ReportedStays(x)
<1>2. \A x \in Callers : Call3(x)
  BY DEF CallsInv
<1>3. ASSUME NEW x \in Callers,
             phase'[x] = phase[x], pos'[x] = pos[x], led'[x] = led[x],
             outcome'[x] = outcome[x]
      PROVE  Call3(x)'
  <2>1. \A k \in DOMAIN Cfg[x].configMaps :
          cmData[Cfg[x].configMaps[k]] = Secondary => cmData'[Cfg[x].configMaps[k]] = Secondary
    BY Monotone, RefTypes DEF CallsInv
  <2>2. \A k \in DOMAIN Cfg[x].deployments :
          stamped[Cfg[x].deployments[k]] => stamped'[Cfg[x].deployments[k]]
    BY Monotone, RefTypes DEF CallsInv
  <2>3. CallShape(x)'
    BY <1>2, <1>3 DEF CallShape, MoreCMs, MoreDeps, Barred, DepNS, Dep
  <2>4. PatchLoop(x)'
    BY <1>2, <1>3, <2>1 DEF PatchLoop
  <2>5. RollLoop(x)'
    BY <1>2, <1>3, <2>2 DEF RollLoop
  <2>6. ReportedStays(x)'
    BY <1>2, <1>3, <2>1, <2>2 DEF ReportedStays, Reported, Range
  <2> QED BY <2>3, <2>4, <2>5, <2>6
<1>4. CASE UNCHANGED vars
  BY <1>3, <1>4, <1>1 DEF vars, callerVars, CallsInv
<1>5. CASE Stabilise
  BY <1>3, <1>5, <1>1 DEF Stabilise, callerVars, CallsInv
<1>6. ASSUME NEW c \in Callers, Call(c) \/ Switch(c) \/ Crash(c) PROVE CallsInv'
  <2>1. Call3(c)'
    BY <1>6, ShapeStep, PatchStep, RollStep, ReportStep
  <2>2. ASSUME NEW x \in Callers, x # c PROVE Call3(x)'
    BY <1>3, <1>6, <2>2, Locality DEF CallsInv
  <2> QED BY <1>1, <2>1, <2>2 DEF CallsInv
<1> QED BY <1>4, <1>5, <1>6 DEF Next

\* ... and with them what a stamp says.
LEMMA StepInv == LedgerInv /\ [Next]_vars => LedgerInv'
  BY CallsStep, StampStep DEF LedgerInv

-----------------------------------------------------------------------------

\* The ledger of every running call describes the API at every moment, whatever
\* other callers do and wherever requests fail or callers die.
THEOREM LedgerInvariant == Spec => []LedgerInv
<1>1. Init => LedgerInv
  BY InitInv
<1>2. LedgerInv /\ [Next]_vars => LedgerInv'
  BY StepInv
<1> QED BY <1>1, <1>2, PTL DEF Spec

\* A Deployment stamped with the secondary serves the secondary.
THEOREM StampsAreTrue == Spec => []StampMeansServing
<1>1. LedgerInv => StampMeansServing
  BY DEF LedgerInv
<1> QED BY <1>1, LedgerInvariant, PTL

\* A call that reports success has moved every ConfigMap and every Deployment it
\* is configured with.
THEOREM SuccessIsConvergence == Spec => []SuccessMeansConverged
<1>1. LedgerInv => SuccessMeansConverged
  BY RefTypes DEF LedgerInv, CallsInv, SuccessMeansConverged, Converged, Writers,
     ReportedStays, StampMeansServing, Range
<1> QED BY <1>1, LedgerInvariant, PTL

\* A dry run writes nothing: whoever writes is a writer in the middle of a put.
THEOREM DryRunIsSilent == Spec => DryRunWritesNothing
<1> DEFINE W == apiVars' # apiVars =>
                  \E c \in Writers : /\ phase[c] \in {"putCM", "putDep"}
                                    /\ phase'[c] # phase[c]
<1>1. ASSUME LedgerInv, [Next]_vars PROVE [W]_vars
  <2>1. ASSUME NEW c \in Callers,
               PutCM(c) \/ PutCMAnswerLost(c) \/ PutDep(c) \/ PutDepAnswerLost(c)
        PROVE  W
    <3>1. phase[c] \in {"putCM", "putDep"} /\ phase'[c] \in {"getCM", "getDep"}
      BY <1>1, <2>1 DEF LedgerInv, CallsInv, TypeOK, PutCM, PutCMAnswerLost, PutDep,
         PutDepAnswerLost, CMFails, DepFails, Advance
    <3>2. c \in Writers
      BY <1>1, <3>1 DEF LedgerInv, CallsInv, CallShape, Writers
    <3> QED BY <3>1, <3>2
  <2>2. \/ apiVars' = apiVars
        \/ \E c \in Callers :
             PutCM(c) \/ PutCMAnswerLost(c) \/ PutDep(c) \/ PutDepAnswerLost(c)
    BY <1>1, StepCases DEF vars, apiVars, Begin, BeginEmpty, Return, Crash,
       GetCMAlreadySwitched, GetCMPending, PatchDone, RollSkipped,
       GetDepAlreadyRolled, GetDepToRoll, GetCMFails, PutCMFails, GetDepFails,
       PutDepFails, Stabilise
  <2> QED BY <2>1, <2>2
<1> QED BY <1>1, LedgerInvariant, PTL DEF Spec, DryRunWritesNothing

\* What a writer has moved stays moved: later calls, overlapping callers, failures and
\* deaths never take a string or a stamp back, and a roll never turns an application away.
THEOREM MovedStaysMoved == Spec => [][\A c \in Callers : Converged(c) => Converged(c)']_vars
<1>1. ASSUME LedgerInv, [Next]_vars, NEW c \in Callers, Converged(c) PROVE Converged(c)'
  <2>1. StampMeansServing'
    BY <1>1, StepInv DEF LedgerInv
  <2>2. \A m \in Range(Cfg[c].configMaps) : cmData'[m] = Secondary
    BY <1>1, RefTypes, Monotone DEF LedgerInv, CallsInv, Converged, Range
  <2>3. \A d \in Range(Cfg[c].deployments) : d \in Deps /\ stamped'[d]
    BY <1>1, RefTypes, Monotone DEF LedgerInv, CallsInv, Converged, Range
  <2> QED BY <2>1, <2>2, <2>3 DEF Converged, StampMeansServing
<1>2. LedgerInv /\ [Next]_vars => [\A c \in Callers : Converged(c) => Converged(c)']_vars
  BY <1>1
<1> QED BY <1>2, LedgerInvariant, PTL DEF Spec

-----------------------------------------------------------------------------
(* How many requests a call makes *)

Targets(c) == Len(Cfg[c].configMaps) + Len(Cfg[c].deployments)

\* The step that c makes next in its call is a request, or skips one.
AtTarget(c) ==
  \/ phase[c] \in {"getCM", "putCM"} /\ MoreCMs(c)
  \/ phase[c] \in {"getDep", "putDep"} /\ MoreDeps(c)

\* At most a Get and an Update for each target still to come.
RequestsLeft(c) ==
  CASE phase[c] = "idle"   -> 0
    [] phase[c] = "getCM"  -> 2 * (Targets(c) + 1 - pos[c])
    [] phase[c] = "putCM"  -> 2 * (Targets(c) + 1 - pos[c]) - 1
    [] phase[c] = "getDep" -> 2 * (Len(Cfg[c].deployments) + 1 - pos[c])
    [] phase[c] = "putDep" -> 2 * (Len(Cfg[c].deployments) + 1 - pos[c]) - 1

\* A loop stops at the end of its list.
InList(c) ==
  /\ phase[c] \in {"getCM", "putCM"} => pos[c] <= Len(Cfg[c].configMaps) + 1
  /\ phase[c] \in {"getDep", "putDep"} => pos[c] <= Len(Cfg[c].deployments) + 1

\* A request uses up one of those left, and no other step of the call adds any.
LEMMA RequestIsCounted ==
  ASSUME CallsInv, NEW c \in Callers, InList(c), Call(c) \/ Switch(c) \/ Crash(c)
  PROVE  /\ InList(c)'
         /\ phase[c] = "idle" => RequestsLeft(c)' <= 2 * Targets(c)
         /\ phase[c] # "idle" => RequestsLeft(c)' <= RequestsLeft(c)
         /\ AtTarget(c) => RequestsLeft(c)' < RequestsLeft(c)
<1> DEFINE n == Len(Cfg[c].configMaps)
           m == Len(Cfg[c].deployments)
<1>0. n \in Nat /\ m \in Nat /\ pos[c] \in Nat \ {0} /\ TypeOK /\ CallShape(c)
  BY RefTypes DEF CallsInv, TypeOK
<1> HIDE DEF n, m
<1>1. /\ MoreCMs(c) <=> pos[c] <= n
      /\ MoreDeps(c) <=> pos[c] <= m
      /\ Targets(c) = n + m
  BY DEF n, m, MoreCMs, MoreDeps, Targets
<1>2. /\ phase[c] = "idle" => RequestsLeft(c) = 0
      /\ phase[c] = "getCM" => RequestsLeft(c) = 2 * (n + m + 1 - pos[c])
      /\ phase[c] = "putCM" => RequestsLeft(c) = 2 * (n + m + 1 - pos[c]) - 1
      /\ phase[c] = "getDep" => RequestsLeft(c) = 2 * (m + 1 - pos[c])
      /\ phase[c] = "putDep" => RequestsLeft(c) = 2 * (m + 1 - pos[c]) - 1
  BY DEF RequestsLeft, Targets, n, m
<1>3. /\ phase'[c] = "idle" => RequestsLeft(c)' = 0
      /\ phase'[c] = "getCM" => RequestsLeft(c)' = 2 * (n + m + 1 - pos'[c])
      /\ phase'[c] = "putCM" => RequestsLeft(c)' = 2 * (n + m + 1 - pos'[c]) - 1
      /\ phase'[c] = "getDep" => RequestsLeft(c)' = 2 * (m + 1 - pos'[c])
      /\ phase'[c] = "putDep" => RequestsLeft(c)' = 2 * (m + 1 - pos'[c]) - 1
  BY DEF RequestsLeft, Targets, n, m
<1>4. InList(c)' <=> /\ phase'[c] \in {"getCM", "putCM"} => pos'[c] <= n + 1
                     /\ phase'[c] \in {"getDep", "putDep"} => pos'[c] <= m + 1
  BY DEF InList, n, m
<1>5. /\ phase[c] \in {"getCM", "putCM"} => pos[c] <= n + 1
      /\ phase[c] \in {"getDep", "putDep"} => pos[c] <= m + 1
      /\ phase[c] = "idle" => pos[c] = 1
      /\ phase[c] = "putCM" => pos[c] <= n
      /\ phase[c] = "putDep" => pos[c] <= m
      /\ phase[c] \in {"idle", "getCM", "putCM", "getDep", "putDep"}
  BY <1>0, <1>1 DEF InList, CallShape, n, m, TypeOK, Phases
<1>6. AtTarget(c) => \/ phase[c] \in {"getCM", "putCM"} /\ pos[c] <= n
                     \/ phase[c] \in {"getDep", "putDep"} /\ pos[c] <= m
  BY <1>1 DEF AtTarget
<1>7. CASE Left(c)
  BY <1>0, <1>1, <1>2, <1>3, <1>4, <1>5, <1>6, <1>7 DEF Left
<1>8. CASE Entered(c)
  BY <1>0, <1>1, <1>2, <1>3, <1>4, <1>5, <1>6, <1>8 DEF Entered
<1>9. CASE ReadCM(c)
  BY <1>0, <1>1, <1>2, <1>3, <1>4, <1>5, <1>6, <1>9 DEF ReadCM
<1>10. CASE PassedCM(c)
  BY <1>0, <1>1, <1>2, <1>3, <1>4, <1>5, <1>6, <1>10 DEF PassedCM
<1>11. CASE TurnedToRoll(c)
  BY <1>0, <1>1, <1>2, <1>3, <1>4, <1>5, <1>6, <1>11 DEF TurnedToRoll
<1>12. CASE ReadDep(c)
  BY <1>0, <1>1, <1>2, <1>3, <1>4, <1>5, <1>6, <1>12 DEF ReadDep
<1>13. CASE PassedDep(c)
  BY <1>0, <1>1, <1>2, <1>3, <1>4, <1>5, <1>6, <1>13 DEF PassedDep
<1>14. CASE Refused(c)
  BY <1>0, <1>1, <1>2, <1>3, <1>4, <1>5, <1>6, <1>14 DEF Refused
<1> QED BY <1>0, <1>7, <1>8, <1>9, <1>10, <1>11, <1>12, <1>13, <1>14, OwnStep

\* Between 0 and twice the number of targets are left at any moment.
LEMMA RequestsRange ==
  ASSUME CallsInv, NEW c \in Callers, InList(c)
  PROVE  RequestsLeft(c) \in 0..2 * Targets(c)
<1>1. /\ Len(Cfg[c].configMaps) \in Nat /\ Len(Cfg[c].deployments) \in Nat
      /\ pos[c] \in Nat \ {0} /\ phase[c] \in Phases
      /\ phase[c] = "putCM" => pos[c] <= Len(Cfg[c].configMaps)
      /\ phase[c] = "putDep" => pos[c] <= Len(Cfg[c].deployments)
  BY RefTypes DEF CallsInv, TypeOK, CallShape, MoreCMs, MoreDeps
<1> DEFINE n == Len(Cfg[c].configMaps)
           m == Len(Cfg[c].deployments)
<1>2. /\ phase[c] = "idle" => RequestsLeft(c) = 0
      /\ phase[c] = "getCM" => RequestsLeft(c) = 2 * (n + m + 1 - pos[c]) /\ pos[c] <= n + 1
      /\ phase[c] = "putCM" => RequestsLeft(c) = 2 * (n + m + 1 - pos[c]) - 1
      /\ phase[c] = "getDep" => RequestsLeft(c) = 2 * (m + 1 - pos[c]) /\ pos[c] <= m + 1
      /\ phase[c] = "putDep" => RequestsLeft(c) = 2 * (m + 1 - pos[c]) - 1
      /\ Targets(c) = n + m
  BY DEF RequestsLeft, Targets, InList
<1>3. n \in Nat /\ m \in Nat
  BY <1>1
<1> HIDE DEF n, m
<1>4. /\ phase[c] = "putCM" => pos[c] <= n
      /\ phase[c] = "putDep" => pos[c] <= m
  BY <1>1 DEF n, m
<1>5. CASE phase[c] = "idle"
  BY <1>2, <1>3, <1>5
<1>6. CASE phase[c] = "getCM"
  BY <1>1, <1>2, <1>3, <1>6
<1>7. CASE phase[c] = "putCM"
  BY <1>1, <1>2, <1>3, <1>4, <1>7
<1>8. CASE phase[c] = "getDep"
  BY <1>1, <1>2, <1>3, <1>8
<1>9. CASE phase[c] = "putDep"
  BY <1>1, <1>2, <1>3, <1>4, <1>9
<1> QED BY <1>1, <1>5, <1>6, <1>7, <1>8, <1>9 DEF Phases

\* A call makes at most a Get and an Update per target, whatever fails and whatever
\* other callers do: it never asks for more than it had left, and each target it
\* handles costs it (k8s.go:84-188).  It is what the budget of a tick counts on
\* (MaxRequests of TickBudget).
RequestsBounded ==
  /\ []\A c \in Callers : RequestsLeft(c) \in 0..2 * Targets(c)
  /\ [][\A c \in Callers :
          /\ phase[c] # "idle" => RequestsLeft(c)' <= RequestsLeft(c)
          /\ AtTarget(c) /\ Switch(c) => RequestsLeft(c)' < RequestsLeft(c)]_vars

\* Every call, for every list of targets, ends after finitely many requests.
THEOREM RequestsAreBounded == Spec => RequestsBounded
<1> DEFINE I == LedgerInv /\ \A c \in Callers : InList(c)
           Range2 == \A c \in Callers : RequestsLeft(c) \in 0..2 * Targets(c)
           Costs(c) == /\ phase[c] # "idle" => RequestsLeft(c)' <= RequestsLeft(c)
                       /\ AtTarget(c) /\ Switch(c) => RequestsLeft(c)' < RequestsLeft(c)
           CostsAll == \A c \in Callers : Costs(c)
<1>1. Init => I
  BY InitInv DEF Init, InList
<1>2. ASSUME I, [Next]_vars PROVE I' /\ CostsAll
  <2>0. LedgerInv' /\ CallsInv /\ TypeOK
    BY <1>2, StepInv DEF LedgerInv, CallsInv
  <2>1. ASSUME NEW c \in Callers, Call(c) \/ Switch(c) \/ Crash(c) PROVE InList(c)' /\ Costs(c)
    BY <1>2, <2>0, <2>1, RequestIsCounted
  <2>2. ASSUME NEW c \in Callers, ~(Call(c) \/ Switch(c) \/ Crash(c)) PROVE InList(c)' /\ Costs(c)
    <3>1. phase'[c] = phase[c] /\ pos'[c] = pos[c]
      <4>1. CASE UNCHANGED vars \/ Stabilise
        BY <4>1 DEF vars, callerVars, Stabilise
      <4>2. ASSUME NEW x \in Callers, Call(x) \/ Switch(x) \/ Crash(x) PROVE phase'[c] = phase[c] /\ pos'[c] = pos[c]
        BY <2>0, <2>2, <4>2, Locality
      <4> QED BY <1>2, <4>1, <4>2 DEF Next
    <3>2. InList(c)' /\ RequestsLeft(c)' = RequestsLeft(c)
      BY <1>2, <3>1 DEF InList, RequestsLeft, Targets
    <3>3. RequestsLeft(c) \in Int
      BY <1>2, <2>0, RequestsRange
    <3> QED BY <2>2, <3>2, <3>3
  <2> QED BY <2>0, <2>1, <2>2
<1>3. I => Range2
  BY RequestsRange DEF LedgerInv
<1>4. I /\ [Next]_vars => I' /\ [CostsAll]_vars
  BY <1>2
<1> QED BY <1>1, <1>3, <1>4, PTL DEF Spec, RequestsBounded

-----------------------------------------------------------------------------
(* The refinement of RegionSwitch *)

\* Before any call nobody has reported anything.
LEMMA SwitchInitMaps == Init => R!SwitchInit
<1> SUFFICES ASSUME Init PROVE R!SwitchInit
  OBVIOUS
<1>1. {c \in Writers : Reported(c)} = {}
  BY DEF Init, Reported, Writers
<1> QED BY <1>1 DEF Init, R!SwitchInit

\* Only writes and returns are visible to RegionSwitch.
LEMMA SwitchStepMaps ==
  ASSUME LedgerInv, LedgerInv', [Next]_vars
  PROVE  [R!SwitchNext]_(R!switchVars)
<1> DEFINE Told == {c \in Writers : Reported(c)}
<1> USE DEF LedgerInv, CallsInv, TypeOK
<1>1. ASSUME cmData' = cmData, serving' = serving, outcome' = outcome
      PROVE  UNCHANGED R!switchVars
  BY <1>1 DEF R!switchVars, Reported
<1>2. ASSUME NEW c \in Callers, PutCM(c) \/ PutCMAnswerLost(c)
      PROVE  [R!SwitchNext]_(R!switchVars)
  <2>1. /\ WriteCM(c) /\ outcome' = outcome
        /\ CM(c) \in CMs
    BY <1>2, CallerFacts DEF PutCM, PutCMAnswerLost
  <2>2. Told' = Told /\ serving' = serving
    BY <2>1 DEF Reported, WriteCM
  <2>3. CASE cmData[CM(c)] = Primary
    <3>1. R!MoveString(CM(c))
      BY <2>1, <2>2, <2>3 DEF R!MoveString, WriteCM
    <3> QED BY <3>1, <2>1 DEF R!SwitchNext
  <2>4. CASE cmData[CM(c)] = Secondary
    <3>1. cmData' = cmData
      BY <2>1, <2>4 DEF WriteCM
    <3> QED BY <3>1, <2>1, <2>2, <1>1
  <2> QED BY <2>1, <2>3, <2>4
<1>3. ASSUME NEW c \in Callers, PutDep(c) \/ PutDepAnswerLost(c)
      PROVE  [R!SwitchNext]_(R!switchVars)
  <2>1. /\ WriteDep(c) /\ outcome' = outcome
        /\ Dep(c) \in Deps /\ cmData' = cmData
    BY <1>3, CallerFacts DEF PutDep, PutDepAnswerLost, WriteDep
  <2>2. Told' = Told
    BY <2>1 DEF Reported
  <2>3. stamped'[Dep(c)]
    BY <2>1 DEF WriteDep
  <2>4. serving'[Dep(c)] = Secondary
    BY <2>1, <2>3 DEF StampMeansServing
  <2>5. serving' = [serving EXCEPT ![Dep(c)] = Secondary] /\ cmData[ReadsFrom[Dep(c)]] = Secondary
    BY <2>1, <2>4 DEF WriteDep
  <2>6. R!MoveApp(Dep(c))
    BY <2>1, <2>2, <2>5 DEF R!MoveApp
  <2> QED BY <2>6, <2>1 DEF R!SwitchNext
<1>4. ASSUME NEW c \in Callers, Return(c) \/ BeginEmpty(c)
      PROVE  [R!SwitchNext]_(R!switchVars)
  <2>1. /\ cmData' = cmData /\ serving' = serving
        /\ \A x \in Callers : x # c => outcome'[x] = outcome[x]
    BY <1>4 DEF Return, BeginEmpty, Leave, apiVars
  <2>2. CASE c \notin Writers
    <3>1. Told' = Told
      BY <2>1, <2>2 DEF Reported, Writers
    <3> QED BY <2>1, <3>1 DEF R!switchVars
  <2>3. CASE c \in Writers /\ Reported(c)'
    <3>1. Told' = Told \cup {c}
      BY <2>1, <2>3 DEF Reported, Writers
    <3>2. /\ \A m \in Range(Cfg[c].configMaps) : cmData[m] = Secondary
          /\ \A d \in Range(Cfg[c].deployments) : stamped'[d]
      BY <2>1, <2>3 DEF ReportedStays, Writers, Reported
    <3>3. \A d \in Range(Cfg[c].deployments) : serving[d] = Secondary
      BY <2>1, <3>2, RefTypes DEF StampMeansServing, Range
    <3>4. R!Tell(c)
      BY <2>1, <2>3, <3>1, <3>2, <3>3 DEF R!Tell, R!Moved
    <3> QED BY <3>4, <2>3 DEF R!SwitchNext
  <2>4. CASE c \in Writers /\ ~Reported(c)'
    <3>1. Told' = Told \ {c}
      BY <2>1, <2>4 DEF Reported, Writers
    <3>2. R!Retract(c)
      BY <2>1, <3>1 DEF R!Retract
    <3> QED BY <3>2, <2>4 DEF R!SwitchNext
  <2> QED BY <2>2, <2>3, <2>4
<1>5. \/ cmData' = cmData /\ serving' = serving /\ outcome' = outcome
      \/ \E c \in Callers : \/ PutCM(c) \/ PutCMAnswerLost(c) \/ PutDep(c)
                            \/ PutDepAnswerLost(c) \/ Return(c) \/ BeginEmpty(c)
  BY StepCases DEF vars, apiVars, callerVars, Begin, Crash, GetCMAlreadySwitched,
     GetCMPending, PatchDone, RollSkipped, GetDepAlreadyRolled, GetDepToRoll,
     GetCMFails, PutCMFails, GetDepFails, PutDepFails, Stabilise
<1> QED BY <1>1, <1>2, <1>3, <1>4, <1>5

\* Overlapping, failing and dying calls of Switch implement the one-way move.
THEOREM Refinement == Spec => ImplementsRegionSwitch
<1>1. Init => R!SwitchInit
  BY SwitchInitMaps
<1>2. LedgerInv /\ LedgerInv' /\ [Next]_vars => [R!SwitchNext]_(R!switchVars)
  BY SwitchStepMaps
<1> QED
  BY <1>1, <1>2, LedgerInvariant, PTL DEF Spec, ImplementsRegionSwitch, R!SwitchSpec

-----------------------------------------------------------------------------
(* Restarts *)

(***************************************************************************)
(* Retries, overlaps and deaths do not restart an app over and over.  Two   *)
(* bounds on the rolls of a Deployment d: one per caller that targets it    *)
(* (RollsAreSpent), and one for the missing stamp plus one per ConfigMap of *)
(* its namespace (RollsArePaid).                                            *)
(*                                                                          *)
(* The argument: an Update that succeeds follows a Get whose finding still  *)
(* holds (FreshCopy), so d is rolled either without a stamp or by a caller  *)
(* that owes the roll to a patch.  A patch needs a ConfigMap on the primary,*)
(* and when a caller rolls d none of its ConfigMaps next to d is left there.*)
(***************************************************************************)

USE DistinctAssumption, FiniteAssumption

\* Which namespaces a ledger counts as patched after each kind of update.
LEMMA PatchedUpdates ==
  ASSUME NEW l \in Ledger, NEW ns \in Namespaces
  PROVE  /\ NoLedger.patchedNS = {}
         /\ Counted(l).patchedNS = l.patchedNS
         /\ Erred(l).patchedNS = l.patchedNS
         /\ Failed(l, ns).patchedNS = l.patchedNS
         /\ Patched(l, ns).patchedNS = l.patchedNS \cup {ns}
<1>1. NoLedger.patchedNS = {}
  BY DEF NoLedger
<1>2. Counted(l).patchedNS = l.patchedNS /\ Erred(l).patchedNS = l.patchedNS
  BY DEF Counted, Erred, Ledger
<1>3. Failed(l, ns).patchedNS = l.patchedNS
  BY DEF Failed, Ledger
<1>4. Patched(l, ns).patchedNS = l.patchedNS \cup {ns}
  BY DEF Patched, Ledger
<1> QED BY <1>1, <1>2, <1>3, <1>4

LEMMA CallerPatched ==
  ASSUME TypeOK, NEW c \in Callers
  PROVE  /\ NoLedger.patchedNS = {}
         /\ Counted(led[c]).patchedNS = led[c].patchedNS
         /\ Erred(led[c]).patchedNS = led[c].patchedNS
         /\ MoreCMs(c) =>
              /\ Failed(led[c], CMNS(c)).patchedNS = led[c].patchedNS
              /\ Patched(led[c], CMNS(c)).patchedNS = led[c].patchedNS \cup {CMNS(c)}
<1>1. led[c] \in Ledger
  BY DEF TypeOK
<1>2. MoreCMs(c) => CMNS(c) \in Namespaces
  BY CurrentCM
<1>3. /\ NoLedger.patchedNS = {}
      /\ Counted(led[c]).patchedNS = led[c].patchedNS /\ Erred(led[c]).patchedNS = led[c].patchedNS
  BY <1>1 DEF NoLedger, Counted, Erred, Ledger
<1>4. \A ns \in Namespaces : /\ Failed(led[c], ns).patchedNS = led[c].patchedNS
                            /\ Patched(led[c], ns).patchedNS = led[c].patchedNS \cup {ns}
  BY <1>1, PatchedUpdates
<1> QED BY <1>2, <1>3, <1>4, Zenon

\* The four steps that write to the API.
Writes(c) == PutCM(c) \/ PutCMAnswerLost(c) \/ PutDep(c) \/ PutDepAnswerLost(c)

\* A step that writes nothing creates no debt.
LEMMA QuietOwes ==
  ASSUME CallsInv, NEW c \in Callers, Call(c) \/ Switch(c) \/ Crash(c), ~Writes(c),
         NEW d \in Deps
  PROVE  /\ apiVars' = apiVars
         /\ Owes(c, d)' => Owes(c, d)
<1> USE DEF CallsInv, TypeOK, Owes, callerVars
<1>0. \A k \in DOMAIN Cfg[c].deployments : k \in Nat
  BY DepLoop
<1>1. CASE Begin(c)
  BY <1>1 DEF Begin
<1>2. CASE BeginEmpty(c)
  BY <1>2 DEF BeginEmpty
<1>3. CASE Crash(c)
  BY <1>3, CallerPatched DEF Crash, Leave, Keep
<1>4. CASE Return(c)
  BY <1>4, CallerPatched DEF Return, Leave, Keep
<1>5. CASE GetCMAlreadySwitched(c)
  BY <1>5 DEF GetCMAlreadySwitched, Advance
<1>6. CASE GetCMPending(c)
  BY <1>6, CallerPatched DEF GetCMPending, Advance
<1>8. CASE PatchDone(c)
  BY <1>8 DEF PatchDone
<1>9. CASE RollSkipped(c)
  BY <1>0, <1>9 DEF RollSkipped, Advance
<1>10. CASE GetDepAlreadyRolled(c)
  BY <1>0, <1>10 DEF GetDepAlreadyRolled, Advance
<1>11. CASE GetDepToRoll(c)
  BY <1>11 DEF GetDepToRoll
<1>13. CASE GetCMFails(c)
  BY <1>13, CallerPatched DEF GetCMFails, CMFails, Advance
<1>14. CASE PutCMFails(c)
  <2>1. MoreCMs(c)
    BY <1>14 DEF PutCMFails, CallShape
  <2> QED BY <1>14, <2>1, CallerPatched DEF PutCMFails, CMFails, Advance
<1>16. CASE GetDepFails(c)
  BY <1>0, <1>16, CallerPatched DEF GetDepFails, DepFails, Advance
<1>17. CASE PutDepFails(c)
  BY <1>0, <1>17, CallerPatched DEF PutDepFails, DepFails, Advance
<1> QED
  BY <1>1, <1>2, <1>3, <1>4, <1>5, <1>6, <1>8, <1>9, <1>10, <1>11, <1>13, <1>14, <1>16, <1>17
  DEF Call, Switch, Proceed, RequestFails, Writes

\* A patch creates a debt only next to the ConfigMap it has moved.
LEMMA PatchOwes ==
  ASSUME CallsInv, NEW c \in Callers, FreshCopy(c), PutCM(c) \/ PutCMAnswerLost(c)
  PROVE  /\ CM(c) \in CMs /\ CM(c) \in Range(Cfg[c].configMaps)
         /\ cmData[CM(c)] # Secondary
         /\ cmData' = [cmData EXCEPT ![CM(c)] = Secondary]
         /\ UNCHANGED <<stamped, restarts>>
         /\ \A d \in Deps : Owes(c, d)' => Owes(c, d) \/ NamespaceOf[d] = NamespaceOf[CM(c)]
<1> USE DEF CallsInv, TypeOK
<1>1. phase[c] = "putCM" /\ fresh[c] /\ WriteCM(c) /\ MoreCMs(c)
  BY DEF PutCM, PutCMAnswerLost, CallShape
<1>2. CM(c) \in CMs /\ CM(c) \in Range(Cfg[c].configMaps)
  BY <1>1, CurrentCM DEF CM, Range
<1>3. /\ cmData[CM(c)] # Secondary /\ cmData' = [cmData EXCEPT ![CM(c)] = Secondary]
      /\ UNCHANGED <<stamped, restarts>>
  BY <1>1 DEF FreshCopy, WriteCM
<1>4. led'[c].patchedNS \subseteq led[c].patchedNS \cup {NamespaceOf[CM(c)]}
  BY <1>1, CallerPatched, CMLoop DEF PutCM, PutCMAnswerLost, CMFails
<1>5. ASSUME NEW d \in Deps, Owes(c, d)' PROVE Owes(c, d) \/ NamespaceOf[d] = NamespaceOf[CM(c)]
  BY <1>1, <1>4, <1>5 DEF Owes
<1> QED BY <1>2, <1>3, <1>5

\* A roll pays its debt, or is the first one.
LEMMA RollOwes ==
  ASSUME CallsInv, NEW c \in Callers, FreshCopy(c), PutDep(c) \/ PutDepAnswerLost(c),
         NEW d, d = Dep(c)
  PROVE  /\ d \in Deps /\ d \in Range(Cfg[c].deployments) /\ c \in Writers
         /\ cmData' = cmData
         /\ stamped' = [stamped EXCEPT ![d] = TRUE]
         /\ restarts'[d] <= restarts[d] + 1 /\ restarts'[d] \in Nat
         /\ \A e \in Deps : e # d => restarts'[e] = restarts[e]
         /\ \A e \in Deps : Owes(c, e)' => Owes(c, e)
         /\ Owes(c, d) \/ ~stamped[d]
         /\ Spent(c, d)'
<1> USE DEF CallsInv, TypeOK
<1>1. /\ phase[c] = "putDep" /\ fresh[c] /\ WriteDep(c)
      /\ MoreDeps(c) /\ ~Barred(c) /\ ~Cfg[c].dryRun
  BY DEF PutDep, PutDepAnswerLost, CallShape
<1>2. /\ d \in Deps /\ d \in Range(Cfg[c].deployments) /\ c \in Writers
      /\ pos[c] \in DOMAIN Cfg[c].deployments /\ d = Cfg[c].deployments[pos[c]]
      /\ DepNS(c) = NamespaceOf[d]
  BY <1>1, CurrentDep, DepLoop DEF Dep, Range, Writers
<1>3. /\ cmData' = cmData /\ stamped' = [stamped EXCEPT ![d] = TRUE]
      /\ restarts' = [restarts EXCEPT ![d] = IF @ < RestartCap THEN @ + 1 ELSE @]
  BY <1>1 DEF WriteDep
<1>4. /\ restarts'[d] <= restarts[d] + 1 /\ restarts'[d] \in Nat
      /\ \A e \in Deps : e # d => restarts'[e] = restarts[e]
  BY <1>2, <1>3
<1>5. phase'[c] = "getDep" /\ pos'[c] = pos[c] + 1 /\ led'[c].patchedNS = led[c].patchedNS
  BY CallerPatched DEF PutDep, PutDepAnswerLost, DepFails, Advance
<1>6. \A k \in DOMAIN Cfg[c].deployments : k \in Nat /\ pos[c] \in Nat
  BY DepLoop
<1>7. \A e \in Deps : Owes(c, e)' => Owes(c, e)
  BY <1>1, <1>5, <1>6 DEF Owes
<1>8. Owes(c, d) \/ ~stamped[d]
  <2>1. ~AlreadyRolled(c)
    BY <1>1 DEF FreshCopy
  <2>2. pos[c] <= pos[c]
    BY <1>2, <1>6
  <2> QED BY <1>2, <2>1, <2>2 DEF AlreadyRolled, Owes
<1>9. ~Owes(c, d)'
  <2>1. \A k \in DOMAIN Cfg[c].deployments : Cfg[c].deployments[k] = d => k = pos[c]
    BY <1>2 DEF IsInjective
  <2> QED BY <1>5, <1>6, <2>1 DEF Owes
<1>10. \A m \in Range(Cfg[c].configMaps) :
         NamespaceOf[m] = NamespaceOf[d] => cmData'[m] = Secondary
  <2>1. NamespaceOf[d] \notin led[c].failedNS
    BY <1>1, <1>2 DEF Barred
  <2> QED BY <1>1, <1>3, <2>1 DEF PatchLoop, Range
<1>11. Spent(c, d)'
  BY <1>2, <1>3, <1>9, <1>10 DEF Spent
<1> QED BY <1>2, <1>3, <1>4, <1>7, <1>8, <1>11

-----------------------------------------------------------------------------
(* Who writes, and what that does to the other callers *)

\* Another caller's debts are its own.
LEMMA OthersOwes ==
  ASSUME NEW x \in Callers, NEW d \in Deps,
         phase'[x] = phase[x], pos'[x] = pos[x], led'[x] = led[x]
  PROVE  Owes(x, d)' = Owes(x, d)
  BY DEF Owes

\* Every step is quiet, a patch of one caller or a roll of one caller.
LEMMA WhoWrites ==
  ASSUME CallsInv, [Next]_vars
  PROVE  \/ /\ apiVars' = apiVars
            /\ \A x \in Callers, d \in Deps : Owes(x, d)' => Owes(x, d)
         \/ \E c \in Callers : /\ Writes(c)
                               /\ \A x \in Callers, d \in Deps : x # c => Owes(x, d)' = Owes(x, d)
<1>1. CASE UNCHANGED vars \/ Stabilise
  BY <1>1 DEF vars, callerVars, Stabilise, Owes
<1>2. ASSUME NEW c \in Callers, Call(c) \/ Switch(c) \/ Crash(c)
      PROVE  \/ /\ apiVars' = apiVars
                /\ \A x \in Callers, d \in Deps : Owes(x, d)' => Owes(x, d)
             \/ /\ Writes(c)
                /\ \A x \in Callers, d \in Deps : x # c => Owes(x, d)' = Owes(x, d)
  <2>1. ASSUME NEW x \in Callers, NEW d \in Deps, x # c PROVE Owes(x, d)' = Owes(x, d)
    <3>1. phase'[x] = phase[x] /\ pos'[x] = pos[x] /\ led'[x] = led[x]
      BY <1>2, <2>1, Locality DEF CallsInv
    <3> QED BY <3>1, OthersOwes
  <2>2. CASE ~Writes(c)
    <3>1. \A d \in Deps : apiVars' = apiVars /\ (Owes(c, d)' => Owes(c, d))
      BY <1>2, <2>2, QuietOwes
    <3>2. apiVars' = apiVars
      BY <1>2, <2>2 DEF Call, Switch, Proceed, RequestFails, Writes, Begin, BeginEmpty, Crash,
         Return, GetCMAlreadySwitched, GetCMPending, PatchDone, RollSkipped, GetDepAlreadyRolled,
         GetDepToRoll, GetCMFails, PutCMFails, GetDepFails, PutDepFails, apiVars
    <3> QED BY <2>1, <3>1, <3>2
  <2> QED BY <2>1, <2>2
<1> QED BY <1>1, <1>2 DEF Next

\* A copy another caller is about to write back is spoilt or still right.
LEMMA OthersFresh ==
  ASSUME CallsInv, NEW c \in Callers, Call(c) \/ Switch(c) \/ Crash(c),
         NEW x \in Callers, x # c, FreshCopy(x)
  PROVE  FreshCopy(x)'
<1> USE DEF CallsInv, TypeOK
<1>0. phase'[x] = phase[x] /\ pos'[x] = pos[x] /\ led'[x] = led[x]
  BY Locality
<1>1. CASE PutCM(c) \/ PutCMAnswerLost(c)
  <2>1. WriteCM(c) /\ CM(c) \in CMs
    BY <1>1, CallerFacts DEF PutCM, PutCMAnswerLost
  <2>2. fresh'[x] => fresh[x] /\ ~(phase[x] = "putCM" /\ CM(x) = CM(c))
    BY <2>1 DEF WriteCM, SpoilCM
  <2>3. phase[x] = "putCM" => CM(x) \in CMs
    BY CallerFacts
  <2>4. CM(x)' = CM(x) /\ AlreadyRolled(x)' = AlreadyRolled(x)
    BY <1>0, <2>1 DEF CM, AlreadyRolled, DepNS, Dep, WriteCM
  <2> QED BY <1>0, <2>1, <2>2, <2>3, <2>4 DEF FreshCopy, WriteCM
<1>2. CASE PutDep(c) \/ PutDepAnswerLost(c)
  <2>1. WriteDep(c) /\ Dep(c) \in Deps
    BY <1>2, CallerFacts DEF PutDep, PutDepAnswerLost
  <2>2. fresh'[x] => fresh[x] /\ ~(phase[x] = "putDep" /\ Dep(x) = Dep(c))
    BY <2>1 DEF WriteDep, SpoilDep
  <2>3. phase[x] = "putDep" => Dep(x) \in Deps
    BY CallerFacts
  <2>4. CM(x)' = CM(x) /\ Dep(x)' = Dep(x) /\ DepNS(x)' = DepNS(x)
    BY <1>0 DEF CM, DepNS, Dep
  <2>5. phase[x] = "putDep" /\ fresh'[x] => (AlreadyRolled(x)' => AlreadyRolled(x))
    BY <1>0, <2>1, <2>2, <2>3, <2>4 DEF AlreadyRolled, WriteDep
  <2> QED BY <1>0, <2>1, <2>2, <2>4, <2>5 DEF FreshCopy, WriteDep
<1>3. CASE ~Writes(c)
  <2>1. apiVars' = apiVars
    BY <1>3 DEF Call, Switch, Proceed, RequestFails, Writes, Begin, BeginEmpty, Crash,
       Return, GetCMAlreadySwitched, GetCMPending, PatchDone, RollSkipped, GetDepAlreadyRolled,
       GetDepToRoll, GetCMFails, PutCMFails, GetDepFails, PutDepFails, apiVars
  <2>2. fresh'[x] = fresh[x]
    BY <1>3 DEF Call, Switch, Proceed, RequestFails, Writes, Begin, BeginEmpty, Crash,
       Return, GetCMAlreadySwitched, GetCMPending, PatchDone, RollSkipped, GetDepAlreadyRolled,
       GetDepToRoll, GetCMFails, PutCMFails, GetDepFails, PutDepFails, Leave, Keep
  <2>3. CM(x)' = CM(x) /\ AlreadyRolled(x)' = AlreadyRolled(x)
    BY <1>0, <2>1 DEF CM, AlreadyRolled, DepNS, Dep, apiVars
  <2> QED BY <1>0, <2>1, <2>2, <2>3 DEF FreshCopy, apiVars
<1> QED BY <1>1, <1>2, <1>3 DEF Writes

\* What the caller that steps has just read is right; nothing else is prepared.
LEMMA OwnFresh ==
  ASSUME CallsInv, NEW c \in Callers, Call(c) \/ Switch(c) \/ Crash(c)
  PROVE  FreshCopy(c)'
<1> USE DEF CallsInv, TypeOK
<1>1. CASE GetCMPending(c)
  <2>1. phase'[c] # "putDep" /\ cmData' = cmData /\ cmData[CM(c)] # Secondary
    BY <1>1 DEF GetCMPending, Advance, apiVars
  <2>2. phase'[c] = "putCM" => pos' = pos
    BY <1>1 DEF GetCMPending, Advance
  <2> QED BY <2>1, <2>2 DEF FreshCopy, CM
<1>2. CASE GetDepToRoll(c)
  <2>1. phase'[c] = "putDep" /\ ~AlreadyRolled(c) /\ UNCHANGED <<pos, led, stamped>>
    BY <1>2 DEF GetDepToRoll, apiVars
  <2> QED BY <2>1 DEF FreshCopy, AlreadyRolled, DepNS, Dep
<1>3. CASE ~GetCMPending(c) /\ ~GetDepToRoll(c)
  <2>1. phase'[c] \notin {"putCM", "putDep"}
    BY <1>3 DEF Call, Switch, Proceed, RequestFails, Begin, BeginEmpty, Crash,
       Return, GetCMAlreadySwitched, PutCM, PutCMAnswerLost, PatchDone, RollSkipped,
       GetDepAlreadyRolled, PutDep, PutDepAnswerLost, GetCMFails, PutCMFails, GetDepFails,
       PutDepFails, Leave, Advance, CMFails, DepFails
  <2> QED BY <2>1 DEF FreshCopy
<1> QED BY <1>1, <1>2, <1>3

LEMMA FreshStep ==
  ASSUME CallsInv, \A c \in Callers : FreshCopy(c), [Next]_vars
  PROVE  \A c \in Callers : FreshCopy(c)'
<1>1. CASE UNCHANGED vars \/ Stabilise
  BY <1>1 DEF vars, apiVars, callerVars, Stabilise, FreshCopy, CM, AlreadyRolled, DepNS, Dep
<1>2. ASSUME NEW c \in Callers, Call(c) \/ Switch(c) \/ Crash(c)
      PROVE  \A x \in Callers : FreshCopy(x)'
  <2>1. FreshCopy(c)'
    BY <1>2, OwnFresh
  <2>2. ASSUME NEW x \in Callers, x # c PROVE FreshCopy(x)'
    BY <1>2, <2>2, OthersFresh
  <2> QED BY <2>1, <2>2
<1> QED BY <1>1, <1>2 DEF Next

-----------------------------------------------------------------------------
(* The two bounds *)

\* Counting in sets that grow and shrink.
LEMMA Grows ==
  ASSUME NEW S, NEW T, IsFiniteSet(T), S \subseteq T
  PROVE  /\ Cardinality(S) \in Nat /\ Cardinality(T) \in Nat
         /\ Cardinality(S) <= Cardinality(T)
         /\ \A x \in T : x \notin S => Cardinality(S) + 1 <= Cardinality(T)
<1>1. /\ IsFiniteSet(S) /\ Cardinality(S) <= Cardinality(T)
  BY FS_Subset
<1>2. Cardinality(S) \in Nat /\ Cardinality(T) \in Nat
  BY <1>1, FS_CardinalityType
<1>3. ASSUME NEW x \in T, x \notin S PROVE Cardinality(S) + 1 <= Cardinality(T)
  <2>1. Cardinality(S \cup {x}) = Cardinality(S) + 1
    BY <1>1, <1>3, FS_AddElement
  <2>2. Cardinality(S \cup {x}) <= Cardinality(T)
    BY <1>3, FS_Subset
  <2> QED BY <2>1, <2>2
<1> QED BY <1>1, <1>2, <1>3

\* A caller that has no reason left to roll d never gets one.
LEMMA SpentStays ==
  ASSUME CallsInv, \A c \in Callers : FreshCopy(c), [Next]_vars,
         NEW x \in Callers, NEW d \in Deps, Spent(x, d)
  PROVE  Spent(x, d)'
<1>1. /\ stamped'[d]
      /\ \A m \in Range(Cfg[x].configMaps) : NamespaceOf[m] = NamespaceOf[d] => cmData'[m] = Secondary
  BY Monotone, RefTypes DEF CallsInv, Spent, Range
<1>2. ~Owes(x, d)'
  <2>1. CASE \A y \in Callers, e \in Deps : Owes(y, e)' => Owes(y, e)
    BY <2>1 DEF Spent
  <2>2. ASSUME NEW c \in Callers, Writes(c),
               \A y \in Callers, e \in Deps : y # c => Owes(y, e)' = Owes(y, e)
        PROVE  ~Owes(x, d)'
    <3>1. CASE x # c
      BY <2>2, <3>1 DEF Spent
    <3>2. CASE x = c /\ (PutCM(c) \/ PutCMAnswerLost(c))
      BY <3>2, PatchOwes DEF Spent
    <3>3. CASE x = c /\ (PutDep(c) \/ PutDepAnswerLost(c))
      <4>1. PICK e : e = Dep(c)
        OBVIOUS
      <4>2. Owes(c, d)' => Owes(c, d)
        BY <3>3, <4>1, RollOwes
      <4> QED BY <3>3, <4>2 DEF Spent
    <3> QED BY <2>2, <3>1, <3>2, <3>3 DEF Writes
  <2> QED BY <2>1, <2>2, WhoWrites
<1> QED BY <1>1, <1>2 DEF Spent

\* The callers that have rolled d, or need not.
SpentOn(d) == {c \in Writers : d \in Range(Cfg[c].deployments) /\ Spent(c, d)}

LEMMA SpentStep ==
  ASSUME CallsInv, \A c \in Callers : FreshCopy(c), RollsAreSpent, [Next]_vars
  PROVE  RollsAreSpent'
<1> SUFFICES ASSUME NEW d \in Deps PROVE restarts'[d] <= Cardinality(SpentOn(d)')
  BY DEF RollsAreSpent, SpentOn
<1>0. /\ CallsInv /\ restarts[d] \in Nat /\ restarts[d] <= Cardinality(SpentOn(d))
      /\ \A c \in Callers : FreshCopy(c)
  BY DEF RollsAreSpent, SpentOn, CallsInv, TypeOK
<1>1. SpentOn(d) \subseteq SpentOn(d)'
  BY <1>0, SpentStays DEF SpentOn, Writers
<1>2. IsFiniteSet(SpentOn(d)')
  <2>1. SpentOn(d)' \in SUBSET Callers
    BY DEF SpentOn, Writers
  <2> QED BY <2>1, FS_Subset
<1>3. /\ Cardinality(SpentOn(d)) \in Nat /\ Cardinality(SpentOn(d)') \in Nat
      /\ Cardinality(SpentOn(d)) <= Cardinality(SpentOn(d)')
      /\ \A x \in SpentOn(d)' : x \notin SpentOn(d) => Cardinality(SpentOn(d)) + 1 <= Cardinality(SpentOn(d)')
  BY <1>1, <1>2, Grows
<1>4. CASE restarts'[d] = restarts[d]
  BY <1>0, <1>3, <1>4
<1>5. ASSUME NEW c \in Callers, PutDep(c) \/ PutDepAnswerLost(c), d = Dep(c)
      PROVE  restarts'[d] <= Cardinality(SpentOn(d)')
  <2>1. /\ restarts'[d] <= restarts[d] + 1 /\ restarts'[d] \in Nat
        /\ Spent(c, d)' /\ c \in Writers /\ d \in Range(Cfg[c].deployments)
        /\ Owes(c, d) \/ ~stamped[d]
    BY <1>0, <1>5, RollOwes
  <2>2. c \in SpentOn(d)' /\ c \notin SpentOn(d)
    BY <2>1 DEF SpentOn, Spent, Writers
  <2> QED BY <1>0, <1>3, <2>1, <2>2
<1>6. \/ restarts'[d] = restarts[d]
      \/ \E c \in Callers : (PutDep(c) \/ PutDepAnswerLost(c)) /\ d = Dep(c)
  <2>1. CASE apiVars' = apiVars
    BY <2>1 DEF apiVars
  <2>2. ASSUME NEW c \in Callers, PutCM(c) \/ PutCMAnswerLost(c) PROVE restarts' = restarts
    BY <2>2 DEF PutCM, PutCMAnswerLost, WriteCM
  <2>3. ASSUME NEW c \in Callers, PutDep(c) \/ PutDepAnswerLost(c), d # Dep(c)
        PROVE  restarts'[d] = restarts[d]
    <3>1. PICK e : e = Dep(c)
      OBVIOUS
    <3> QED BY <1>0, <2>3, <3>1, RollOwes
  <2> QED BY <1>0, <2>1, <2>2, <2>3, WhoWrites DEF Writes
<1> QED BY <1>4, <1>5, <1>6

\* The callers that still owe d a roll.
Debtors(d) == {c \in Callers : Owes(c, d)}
Stamp(d)   == IF stamped[d] THEN 1 ELSE 0

LEMMA PaidStep ==
  ASSUME CallsInv, \A c \in Callers : FreshCopy(c), RollsArePaid, [Next]_vars
  PROVE  RollsArePaid'
<1> SUFFICES ASSUME NEW d \in Deps
             PROVE  restarts'[d] + Cardinality(Debtors(d)') <= Cardinality(MovedNear(d)') + Stamp(d)'
  BY DEF RollsArePaid, Debtors, Stamp
<1>0. /\ CallsInv /\ restarts[d] \in Nat /\ Stamp(d) \in Nat
      /\ restarts[d] + Cardinality(Debtors(d)) <= Cardinality(MovedNear(d)) + Stamp(d)
      /\ \A c \in Callers : FreshCopy(c)
  BY DEF RollsArePaid, Debtors, Stamp, CallsInv, TypeOK
<1>1. /\ IsFiniteSet(Debtors(d)) /\ IsFiniteSet(Debtors(d)')
      /\ IsFiniteSet(MovedNear(d)) /\ IsFiniteSet(MovedNear(d)')
  <2>1. Debtors(d) \in SUBSET Callers /\ Debtors(d)' \in SUBSET Callers
    BY DEF Debtors
  <2>2. MovedNear(d) \in SUBSET CMs /\ MovedNear(d)' \in SUBSET CMs
    BY DEF MovedNear
  <2> QED BY <2>1, <2>2, FS_Subset
<1>2. /\ Cardinality(Debtors(d)) \in Nat /\ Cardinality(Debtors(d)') \in Nat
      /\ Cardinality(MovedNear(d)) \in Nat /\ Cardinality(MovedNear(d)') \in Nat
      /\ Stamp(d)' \in Nat
  BY <1>1, FS_CardinalityType DEF Stamp
<1>3. Cardinality(MovedNear(d)) <= Cardinality(MovedNear(d)') /\ Stamp(d) <= Stamp(d)'
  <2>1. MovedNear(d) \subseteq MovedNear(d)'
    BY <1>0, Monotone DEF CallsInv, MovedNear
  <2>2. stamped[d] => stamped'[d]
    BY <1>0, Monotone DEF CallsInv
  <2> QED BY <1>1, <2>1, <2>2, Grows DEF Stamp
<1>4. CASE apiVars' = apiVars /\ \A x \in Callers, e \in Deps : Owes(x, e)' => Owes(x, e)
  <2>1. Debtors(d)' \subseteq Debtors(d) /\ restarts' = restarts
    BY <1>4 DEF Debtors, apiVars
  <2>2. Cardinality(Debtors(d)') <= Cardinality(Debtors(d))
    BY <1>1, <2>1, Grows
  <2> QED BY <1>0, <1>2, <1>3, <2>1, <2>2
<1>5. ASSUME NEW c \in Callers, PutCM(c) \/ PutCMAnswerLost(c),
             \A x \in Callers, e \in Deps : x # c => Owes(x, e)' = Owes(x, e)
      PROVE  restarts'[d] + Cardinality(Debtors(d)') <= Cardinality(MovedNear(d)') + Stamp(d)'
  <2>1. /\ CM(c) \in CMs /\ cmData[CM(c)] # Secondary
        /\ cmData' = [cmData EXCEPT ![CM(c)] = Secondary]
        /\ UNCHANGED <<stamped, restarts>>
        /\ Owes(c, d)' => Owes(c, d) \/ NamespaceOf[d] = NamespaceOf[CM(c)]
    BY <1>0, <1>5, PatchOwes
  <2>2. Debtors(d)' \subseteq Debtors(d) \cup {c}
    BY <1>5 DEF Debtors
  <2>3. CASE NamespaceOf[d] = NamespaceOf[CM(c)]
    <3>1. MovedNear(d) \subseteq MovedNear(d)' /\ CM(c) \in MovedNear(d)' /\ CM(c) \notin MovedNear(d)
      BY <1>0, <2>1, <2>3 DEF MovedNear, CallsInv, TypeOK
    <3>2. Cardinality(MovedNear(d)) + 1 <= Cardinality(MovedNear(d)')
      BY <1>1, <3>1, Grows
    <3>3. Cardinality(Debtors(d)') <= Cardinality(Debtors(d)) + 1
      <4>1. /\ IsFiniteSet(Debtors(d) \cup {c})
            /\ Cardinality(Debtors(d) \cup {c}) <= Cardinality(Debtors(d)) + 1
        <5>1. /\ IsFiniteSet(Debtors(d) \cup {c})
              /\ Cardinality(Debtors(d) \cup {c}) =
                   IF c \in Debtors(d) THEN Cardinality(Debtors(d)) ELSE Cardinality(Debtors(d)) + 1
          BY <1>1, FS_AddElement
        <5> QED BY <1>2, <5>1
      <4>2. Cardinality(Debtors(d)') <= Cardinality(Debtors(d) \cup {c})
        BY <2>2, <4>1, Grows
      <4>3. Cardinality(Debtors(d) \cup {c}) \in Nat
        BY <4>1, FS_CardinalityType
      <4> QED BY <1>2, <4>1, <4>2, <4>3
    <3> QED BY <1>0, <1>2, <1>3, <2>1, <3>2, <3>3
  <2>4. CASE NamespaceOf[d] # NamespaceOf[CM(c)]
    <3>1. Debtors(d)' \subseteq Debtors(d)
      BY <1>5, <2>1, <2>4 DEF Debtors
    <3>2. Cardinality(Debtors(d)') <= Cardinality(Debtors(d))
      BY <1>1, <3>1, Grows
    <3> QED BY <1>0, <1>2, <1>3, <2>1, <3>2
  <2> QED BY <2>3, <2>4
<1>6. ASSUME NEW c \in Callers, PutDep(c) \/ PutDepAnswerLost(c),
             \A x \in Callers, e \in Deps : x # c => Owes(x, e)' = Owes(x, e)
      PROVE  restarts'[d] + Cardinality(Debtors(d)') <= Cardinality(MovedNear(d)') + Stamp(d)'
  <2>1. PICK e : e = Dep(c)
    OBVIOUS
  <2>2. /\ e \in Deps /\ stamped' = [stamped EXCEPT ![e] = TRUE]
        /\ restarts'[e] <= restarts[e] + 1 /\ restarts'[e] \in Nat
        /\ d # e => restarts'[d] = restarts[d]
        /\ Owes(c, d)' => Owes(c, d)
        /\ Owes(c, e) \/ ~stamped[e]
        /\ Spent(c, e)'
    BY <1>0, <1>6, <2>1, RollOwes
  <2>3. Debtors(d)' \subseteq Debtors(d)
    BY <1>6, <2>2 DEF Debtors
  <2>4. Cardinality(Debtors(d)') <= Cardinality(Debtors(d))
    BY <1>1, <2>3, Grows
  <2>5. CASE d # e
    BY <1>0, <1>2, <1>3, <2>2, <2>4, <2>5
  <2>6. CASE d = e /\ ~stamped[d]
    <3>1. Stamp(d) = 0 /\ Stamp(d)' = 1
      BY <1>0, <2>2, <2>6 DEF Stamp, CallsInv, TypeOK
    <3> QED BY <1>0, <1>2, <1>3, <2>2, <2>4, <2>6, <3>1
  <2>7. CASE d = e /\ Owes(c, d)
    <3>1. c \in Debtors(d) /\ c \notin Debtors(d)'
      BY <2>2, <2>7 DEF Debtors, Spent
    <3>2. Cardinality(Debtors(d)') + 1 <= Cardinality(Debtors(d))
      BY <1>1, <2>3, <3>1, Grows
    <3> QED BY <1>0, <1>2, <1>3, <2>2, <2>7, <3>2
  <2> QED BY <2>2, <2>5, <2>6, <2>7
<1> QED BY <1>0, <1>4, <1>5, <1>6, WhoWrites DEF Writes

LEMMA RestartStep == RestartInv /\ [Next]_vars => RestartInv'
<1> SUFFICES ASSUME RestartInv, [Next]_vars PROVE RestartInv'
  OBVIOUS
<1>1. LedgerInv'
  BY StepInv DEF RestartInv
<1>2. \A c \in Callers : FreshCopy(c)'
  BY FreshStep DEF RestartInv, LedgerInv
<1>3. RollsAreSpent' /\ RollsArePaid'
  BY SpentStep, PaidStep DEF RestartInv, LedgerInv
<1> QED BY <1>1, <1>2, <1>3 DEF RestartInv

\* Before the first call nothing has been rolled and nobody owes anything.
LEMMA RestartInit == Init => RestartInv
<1> SUFFICES ASSUME Init PROVE RestartInv
  OBVIOUS
<1>1. LedgerInv
  BY InitInv
<1>2. \A c \in Callers : FreshCopy(c)
  BY DEF Init, FreshCopy
<1>3. \A d \in Deps : restarts[d] = 0 /\ {c \in Callers : Owes(c, d)} = {}
  BY DEF Init, Owes, NoLedger
<1>4. RollsAreSpent
  <2> SUFFICES ASSUME NEW d \in Deps PROVE restarts[d] <= Cardinality(SpentOn(d))
    BY DEF RollsAreSpent, SpentOn
  <2>1. SpentOn(d) \in SUBSET Callers
    BY DEF SpentOn, Writers
  <2>2. IsFiniteSet(SpentOn(d))
    BY <2>1, FS_Subset
  <2> QED BY <1>3, <2>2, FS_CardinalityType
<1>5. RollsArePaid
  <2> SUFFICES ASSUME NEW d \in Deps
               PROVE  restarts[d] + Cardinality({c \in Callers : Owes(c, d)})
                        <= Cardinality(MovedNear(d)) + IF stamped[d] THEN 1 ELSE 0
    BY DEF RollsArePaid
  <2>1. MovedNear(d) \in SUBSET CMs
    BY DEF MovedNear
  <2>2. IsFiniteSet(MovedNear(d))
    BY <2>1, FS_Subset
  <2>3. Cardinality(MovedNear(d)) \in Nat
    BY <2>2, FS_CardinalityType
  <2>4. Cardinality({c \in Callers : Owes(c, d)}) = 0
    BY <1>3, FS_EmptySet
  <2>5. restarts[d] = 0
    BY <1>3
  <2> QED BY <2>3, <2>4, <2>5
<1> QED BY <1>1, <1>2, <1>4, <1>5 DEF RestartInv

-----------------------------------------------------------------------------

\* Each roll leaves its caller spent and is paid for by a patch or by the missing
\* stamp, wherever calls overlap, fail or die.
THEOREM RestartInvariant == Spec => []RestartInv
<1>1. Init => RestartInv
  BY RestartInit
<1>2. RestartInv /\ [Next]_vars => RestartInv'
  BY RestartStep
<1> QED BY <1>1, <1>2, PTL DEF Spec

\* The rolls of d are bounded by the callers that target it ...
LEMMA SpentBounds ==
  ASSUME CallsInv, RollsAreSpent
  PROVE  RestartsBounded
<1> SUFFICES ASSUME NEW d \in Deps
             PROVE  restarts[d] <= Cardinality({c \in Writers : d \in Range(Cfg[c].deployments)})
  BY DEF RestartsBounded
<1>1. restarts[d] <= Cardinality(SpentOn(d)) /\ restarts[d] \in Nat
  BY DEF RollsAreSpent, SpentOn, CallsInv, TypeOK
<1>2. {c \in Writers : d \in Range(Cfg[c].deployments)} \in SUBSET Callers
  BY DEF Writers
<1>3. IsFiniteSet({c \in Writers : d \in Range(Cfg[c].deployments)})
  BY <1>2, FS_Subset
<1>4. SpentOn(d) \subseteq {c \in Writers : d \in Range(Cfg[c].deployments)}
  BY DEF SpentOn
<1> QED BY <1>1, <1>3, <1>4, Grows

\* ... and by the ConfigMaps of its namespace.
LEMMA PaidBounds ==
  ASSUME CallsInv, RollsArePaid, NEW d \in Deps
  PROVE  restarts[d] <= 1 + Cardinality({m \in CMs : NamespaceOf[m] = NamespaceOf[d]})
<1> DEFINE Near == {m \in CMs : NamespaceOf[m] = NamespaceOf[d]}
<1>1. /\ restarts[d] + Cardinality(Debtors(d)) <= Cardinality(MovedNear(d)) + Stamp(d)
      /\ restarts[d] \in Nat /\ Stamp(d) \in {0, 1}
  BY DEF RollsArePaid, Debtors, Stamp, CallsInv, TypeOK
<1>2. Debtors(d) \in SUBSET Callers /\ Near \in SUBSET CMs
  BY DEF Debtors
<1>3. IsFiniteSet(Debtors(d)) /\ IsFiniteSet(Near)
  BY <1>2, FS_Subset
<1>4. MovedNear(d) \subseteq Near
  BY DEF MovedNear
<1>5. /\ Cardinality(MovedNear(d)) \in Nat /\ Cardinality(Near) \in Nat
      /\ Cardinality(MovedNear(d)) <= Cardinality(Near)
  BY <1>3, <1>4, Grows
<1>6. Cardinality(Debtors(d)) \in Nat
  BY <1>3, FS_CardinalityType
<1> QED BY <1>1, <1>5, <1>6

\* A Deployment is rolled at most once per caller that targets it, however often
\* calls are retried (k8s.go:141-146).
THEOREM RestartsAreBounded == Spec => []RestartsBounded
<1>1. RestartInv => RestartsBounded
  BY SpentBounds DEF RestartInv, LedgerInv
<1> QED BY <1>1, RestartInvariant, PTL

-----------------------------------------------------------------------------
(* What a conflict costs *)

\* A copy is stale only because another caller has moved the object since.  (Writers of
\* these objects that are not callers, a controller say, count as faults.)
StaleHasMoved(c) ==
  ~fresh[c] => \/ phase[c] = "putCM" /\ cmData[CM(c)] = Secondary
               \/ phase[c] = "putDep" /\ stamped[Dep(c)]

ConflictInv == LedgerInv /\ \A c \in Callers : StaleHasMoved(c)

\* Whatever c does it holds no stale copy after it.
LEMMA OwnCopy ==
  ASSUME CallsInv, NEW c \in Callers, StaleHasMoved(c), Call(c) \/ Switch(c) \/ Crash(c)
  PROVE  fresh'[c]
<1>0. fresh \in [Callers -> BOOLEAN] /\ (phase[c] \notin {"putCM", "putDep"} => fresh[c])
  BY DEF CallsInv, TypeOK, StaleHasMoved
<1>1. ASSUME WriteCM(c) \/ WriteDep(c) \/ fresh' = Keep(c) PROVE fresh'[c]
  BY <1>0, <1>1 DEF WriteCM, WriteDep, SpoilCM, SpoilDep, Keep
<1>2. ASSUME phase[c] \notin {"putCM", "putDep"}, UNCHANGED fresh PROVE fresh'[c]
  BY <1>0, <1>2
<1>3. CASE Call(c) \/ Crash(c)
  BY <1>1, <1>2, <1>3 DEF Call, Begin, BeginEmpty, Crash, Leave
<1>4. CASE Proceed(c) \/ Return(c)
  BY <1>1, <1>2, <1>4 DEF Proceed, Return, Leave, GetCMAlreadySwitched, GetCMPending, PutCM, PatchDone,
     RollSkipped, GetDepAlreadyRolled, GetDepToRoll, PutDep
<1>5. CASE RequestFails(c)
  BY <1>1, <1>2, <1>5 DEF RequestFails, GetCMFails, PutCMFails, PutCMAnswerLost, GetDepFails,
     PutDepFails, PutDepAnswerLost
<1> QED BY <1>3, <1>4, <1>5 DEF Switch

\* A copy that c spoils is a copy of what c has just moved.
LEMMA OthersCopy ==
  ASSUME CallsInv, NEW c \in Callers, Call(c) \/ Switch(c) \/ Crash(c),
         NEW x \in Callers, x # c, StaleHasMoved(x)
  PROVE  StaleHasMoved(x)'
<1> USE DEF CallsInv, TypeOK
<1>0. /\ phase'[x] = phase[x] /\ pos'[x] = pos[x]
      /\ CM(x)' = CM(x) /\ Dep(x)' = Dep(x)
  BY Locality DEF CM, Dep
<1>1. /\ phase[x] = "putCM" => CM(x) \in CMs
      /\ phase[x] = "putDep" => Dep(x) \in Deps
  BY CallerFacts
<1>2. /\ phase[x] = "putCM" /\ cmData[CM(x)] = Secondary => cmData'[CM(x)] = Secondary
      /\ phase[x] = "putDep" /\ stamped[Dep(x)] => stamped'[Dep(x)]
  BY <1>1, Monotone DEF Next
<1>3. CASE fresh'[x] = fresh[x]
  BY <1>0, <1>2, <1>3 DEF StaleHasMoved
<1>4. CASE WriteCM(c)
  <2>1. fresh'[x] = (fresh[x] /\ ~(phase[x] = "putCM" /\ CM(x) = CM(c)))
    BY <1>4 DEF WriteCM, SpoilCM
  <2>2. phase[x] = "putCM" /\ CM(x) = CM(c) => cmData'[CM(x)] = Secondary
    BY <1>1, <1>4 DEF WriteCM
  <2> QED BY <1>0, <1>2, <2>1, <2>2 DEF StaleHasMoved
<1>5. CASE WriteDep(c)
  <2>1. fresh'[x] = (fresh[x] /\ ~(phase[x] = "putDep" /\ Dep(x) = Dep(c)))
    BY <1>5 DEF WriteDep, SpoilDep
  <2>2. phase[x] = "putDep" /\ Dep(x) = Dep(c) => stamped'[Dep(x)]
    BY <1>1, <1>5 DEF WriteDep
  <2> QED BY <1>0, <1>2, <2>1, <2>2 DEF StaleHasMoved
<1>6. fresh'[x] = fresh[x] \/ WriteCM(c) \/ WriteDep(c)
  BY DEF Call, Switch, Proceed, RequestFails, Begin, BeginEmpty, Crash, Return,
     GetCMAlreadySwitched, GetCMPending, PutCM, PatchDone, RollSkipped, GetDepAlreadyRolled,
     GetDepToRoll, PutDep, GetCMFails, PutCMFails, PutCMAnswerLost, GetDepFails, PutDepFails,
     PutDepAnswerLost, Leave, Keep
<1> QED BY <1>3, <1>4, <1>5, <1>6

LEMMA ConflictStep == ConflictInv /\ [Next]_vars => ConflictInv'
<1> SUFFICES ASSUME ConflictInv, [Next]_vars PROVE ConflictInv'
  OBVIOUS
<1>0. LedgerInv' /\ CallsInv /\ \A x \in Callers : StaleHasMoved(x)
  BY StepInv DEF ConflictInv, LedgerInv
<1>1. CASE UNCHANGED vars \/ Stabilise
  BY <1>0, <1>1 DEF vars, apiVars, callerVars, Stabilise, ConflictInv, StaleHasMoved, CM, Dep
<1>2. ASSUME NEW c \in Callers, Call(c) \/ Switch(c) \/ Crash(c) PROVE ConflictInv'
  <2>1. StaleHasMoved(c)'
    BY <1>0, <1>2, OwnCopy DEF StaleHasMoved
  <2>2. ASSUME NEW x \in Callers, x # c PROVE StaleHasMoved(x)'
    BY <1>0, <1>2, <2>2, OthersCopy
  <2> QED BY <1>0, <2>1, <2>2 DEF ConflictInv
<1> QED BY <1>1, <1>2 DEF Next

\* Once requests no longer fail, a call meets an error only where another caller has
\* moved the target between its Get and its Update.  A conflict therefore costs a
\* retry and never a move (k8s.go:109-113, 152-155).
ErrorsAreConflicts ==
  [][\A c \in Callers : env = "steady" /\ ~led[c].errs /\ led'[c].errs =>
       \/ phase[c] = "putCM" /\ cmData[CM(c)] = Secondary
       \/ phase[c] = "putDep" /\ stamped[Dep(c)]]_vars

THEOREM ConflictsCostNoMove == Spec => ErrorsAreConflicts
<1> DEFINE Moved(c) == \/ phase[c] = "putCM" /\ cmData[CM(c)] = Secondary
                       \/ phase[c] = "putDep" /\ stamped[Dep(c)]
           A == \A c \in Callers : env = "steady" /\ ~led[c].errs /\ led'[c].errs => Moved(c)
<1>1. Init => ConflictInv
  BY InitInv DEF ConflictInv, Init, StaleHasMoved
<1>2. ASSUME ConflictInv, [Next]_vars, NEW c \in Callers,
             env = "steady", ~led[c].errs, led'[c].errs
      PROVE  Moved(c)
  <2>0. CallsInv /\ TypeOK /\ StaleHasMoved(c) /\ led[c] \in Ledger
    BY <1>2 DEF ConflictInv, LedgerInv, CallsInv, TypeOK
  <2>1. Call(c) \/ Switch(c) \/ Crash(c)
    <3>1. led'[c] # led[c]
      BY <1>2
    <3>2. ~(UNCHANGED vars \/ Stabilise)
      BY <3>1 DEF vars, callerVars, Stabilise
    <3> QED BY <1>2, <2>0, <3>1, <3>2, Locality DEF Next
  <2>2. ~Faulty
    BY <1>2 DEF Faulty
  <2>3. CASE PutCMFails(c) \/ PutDepFails(c)
    BY <2>0, <2>2, <2>3 DEF PutCMFails, PutDepFails, StaleHasMoved
  <2>4. CASE Call(c) \/ Crash(c) \/ Return(c)
    <3>1. led'[c] = led[c] \/ led'[c] = NoLedger
      BY <2>0, <2>4 DEF TypeOK, Call, Begin, BeginEmpty, Crash, Return, Leave
    <3> QED BY <1>2, <3>1 DEF NoLedger
  <2>5. CASE Proceed(c)
    <3>1. CASE led' = led
      BY <1>2, <3>1
    <3>2. CASE GetCMPending(c)
      <4>1. led'[c] = Counted(led[c])
        BY <2>0, <3>2 DEF TypeOK, GetCMPending
      <4> QED BY <1>2, <2>0, <4>1, CallerLedger DEF CallsInv
    <3>3. CASE PutCM(c)
      <4>1. led'[c] = Patched(led[c], CMNS(c)) /\ MoreCMs(c)
        BY <2>0, <3>3, CallerFacts DEF CallsInv, TypeOK, PutCM
      <4> QED BY <1>2, <2>0, <4>1, CallerLedger DEF CallsInv
    <3> QED BY <2>5, <3>1, <3>2, <3>3 DEF Proceed, GetCMAlreadySwitched, PatchDone,
            RollSkipped, GetDepAlreadyRolled, GetDepToRoll, PutDep
  <2>6. CASE RequestFails(c)
    BY <2>2, <2>3, <2>6 DEF RequestFails, GetCMFails, PutCMAnswerLost, GetDepFails, PutDepAnswerLost
  <2> QED BY <2>1, <2>4, <2>5, <2>6 DEF Switch
<1>3. ConflictInv /\ [Next]_vars => ConflictInv' /\ [A]_vars
  BY <1>2, ConflictStep
<1> QED BY <1>1, <1>3, PTL DEF Spec, ErrorsAreConflicts
=============================================================================
