-------------------------------- MODULE Surface --------------------------------
(***************************************************************************)
(* What the outside sees of the process of TickBudget: a request for         *)
(* /health/couchbase that probes beside the loop (pkg/svchealth/api.go,      *)
(* active.go), readiness, and the kubelet, which asks /healthz and restarts  *)
(* the container when it fails, or when it has exited (pkg/probes).          *)
(***************************************************************************)
EXTENDS TickBudget

CONSTANT FailureThreshold   \* of the livenessProbe (external, 3 by default)

ASSUME ThresholdAssumption == FailureThreshold \in Nat \ {0}

VARIABLES
  misses,     \* liveness probes in a row that were answered 503
  reqAt,      \* the next ping of the request, "none" without one
  reqProber,  \* the prober it has loaded
  reqSeen,    \* clusters whose endpoints are in its answer
  reqDuring   \* clusters that were active at some time of the request (history)

request == <<reqAt, reqProber, reqSeen, reqDuring>>
surfaceVars == <<vars, misses, request>>

Serving == at \in Loop \cup {"configure", "observe"}

NoRequest ==
  /\ reqAt' = "none" /\ reqProber' = "primary" /\ reqSeen' = {} /\ reqDuring' = {}

SurfaceInit ==
  /\ Init
  /\ misses = 0
  /\ reqAt = "none" /\ reqProber = "primary" /\ reqSeen = {} /\ reqDuring = {}

-----------------------------------------------------------------------------
(* /health/couchbase *)

\* ActiveProber.Probe loads the pointer once.
RequestArrives ==
  /\ Serving /\ reqAt = "none"
  /\ reqAt' = "kv"
  /\ reqProber' = active
  /\ reqSeen' = {}
  /\ reqDuring' = {active}
  /\ UNCHANGED <<vars, misses>>

\* The cluster the next ping of the request goes to.
Pinged_reloads == active
Pinged == reqProber

\* A ping that fails as a whole contributes nothing; after the second the answer
\* is computed from what is there.
RequestPings ==
  /\ \/ reqAt = "kv" /\ reqAt' = "cluster"
     \/ reqAt = "cluster" /\ reqAt' = "none"
  /\ reqSeen' \in {reqSeen, reqSeen \cup {Pinged}}
  /\ UNCHANGED <<vars, misses, reqProber, reqDuring>>

-----------------------------------------------------------------------------
(* /healthz, /readyz and the kubelet *)

Liveness_static == TRUE
Liveness == ~Stale

\* Readiness, as far as the process decides it: whether the Kubernetes API can be
\* reached is asked anew by every probe.
Ready == Serving /\ firstEval

\* The container is restarted with the same command line.
Restarted == at' = "parse" /\ Fresh /\ NoRequest /\ misses' = 0 /\ UNCHANGED cmd

LivenessProbe ==
  /\ Serving
  /\ IF Liveness THEN misses' = 0 /\ UNCHANGED <<vars, request>>
     ELSE IF misses + 1 < FailureThreshold
     THEN misses' = misses + 1 /\ UNCHANGED <<vars, request>>
     ELSE Restarted

StartAgain == at = "exited" /\ Restarted

-----------------------------------------------------------------------------

\* A step of the process, beside the request.  A process that exits answers nobody.
Beside(step) ==
  /\ step
  /\ UNCHANGED misses
  /\ IF at' = "exited" THEN NoRequest
     ELSE /\ UNCHANGED <<reqAt, reqProber, reqSeen>>
          /\ reqDuring' = IF reqAt = "none" THEN reqDuring ELSE reqDuring \cup {active'}

SurfaceNext ==
  \/ Beside(Next)
  \/ RequestArrives \/ RequestPings
  \/ LivenessProbe \/ StartAgain

SurfaceSpec == SurfaceInit /\ [][SurfaceNext]_surfaceVars

\* Time passes, startup goes on, a step that has a timeout ends, and the kubelet
\* probes and restarts.  A step without a timeout need not end.
Fairness ==
  /\ WF_surfaceVars(Beside(ParseFlags \/ Connect \/ Configure))
  /\ WF_surfaceVars(Beside(TimePasses))
  /\ WF_surfaceVars(~Unbounded /\ Beside(Iteration))
  /\ WF_surfaceVars(LivenessProbe) /\ WF_surfaceVars(StartAgain)

LiveSurface == SurfaceSpec /\ Fairness

-----------------------------------------------------------------------------
(* Properties *)

\* An answer describes one cluster, and one that was active during the request,
\* although the loop may swap the prober between its two pings (active.go:8-30).
OneClusterPerAnswer ==
  [][reqAt = "cluster" /\ reqAt' = "none" =>
       \A r, s \in reqSeen' : r = s /\ r \in reqDuring']_surfaceVars

PingsFit == cmd.probeTimeout \in 1..(Window(cmd) \div 2)

\* The answer that is being put together.
RequestInv ==
  /\ reqAt \in {"none", "kv", "cluster"}
  /\ reqAt # "none" => reqSeen \subseteq {reqProber} /\ reqProber \in reqDuring

SurfaceInv == BudgetInv /\ misses \in 0..FailureThreshold - 1 /\ RequestInv

\* A process whose own two pings fit the window becomes ready, and after every
\* restart again, also when every probe times out and every switch is long: the
\* evaluation counts when it is made, not when the iteration ends (main.go:345-348).
EventuallyReady ==
  [](PingsFit /\ at # "exited") => []<>Ready

\* A loop that is stuck in a ping or a post without a timeout, or too slow, does
\* not stay so: the kubelet ends it and the next process beats again (probes.go:4-6).
StallEnds == Stale ~> ticked /\ age = 0
=============================================================================
