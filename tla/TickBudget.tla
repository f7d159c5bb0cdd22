------------------------------ MODULE TickBudget ------------------------------
(***************************************************************************)
(* The observer process in time: startup, which refuses what it cannot run  *)
(* with (main.go:71-340), and how long one iteration of the poll loop can    *)
(* take against the liveness window of the pod: the ticker and the heartbeat *)
(* (main.go:341-344, pkg/probes), the pings with their timeout, the          *)
(* Kubernetes requests with theirs, and the delivery of the webhook with its *)
(* attempts and backoff (pkg/notify/http.go).  Time is discrete, every step  *)
(* but the backoff may end before its timeout; a timeout of 0 is none.       *)
(* A dry run is the subject of Observer.                                    *)
(***************************************************************************)
EXTENDS CommandLine

CONSTANTS
  CommandLines,  \* the command lines the process may be given
  TargetLists,   \* the target lists an operator may write in them
  K8sTimeout     \* bound of a request to the Kubernetes API (main.go:489)

TLSInputs == [ca : {"", "good", "unreadable", "noCertificate"}, skipVerify : BOOLEAN]

\* An entry of a list has a part or more.
ASSUME BudgetAssumption ==
  /\ K8sTimeout \in Nat \ {0}
  /\ TargetLists \subseteq Seq(Seq(STRING) \ {<<>>})
  /\ \A c \in CommandLines :
       /\ c.interval \in Nat \ {0} /\ c.probeTimeout \in Nat
       /\ c.webhookTimeout \in Nat /\ c.retries \in Int
       /\ c.configMap \in TargetLists /\ c.deployments \in TargetLists
       /\ c.webhookTLS \in TLSInputs

VARIABLES
  cmd,       \* the command line
  at,        \* what the process is doing
  spent,     \* time since it began to do that
  age,       \* time since hb.Tick (saturates past the window, a model bound)
  ticked,    \* hb.Tick has been called
  since,     \* time since the ticker fired
  due,       \* a tick waits in the channel of the ticker, which holds one
  requests,  \* API requests still to make
  attempt,   \* attempt of the delivery, 0 outside one
  delivering,\* time since the delivery began (saturates past the worst case)
  firstEval, \* a health evaluation has completed
  switched,  \* the machine is marked: no switch is required any more
  active     \* the cluster the active prober points at

heartbeat == <<age, ticked>>
ticker    == <<since, due>>
delivery  == <<attempt, delivering>>
memory    == <<firstEval, switched, active>>
vars == <<cmd, at, spent, heartbeat, ticker, requests, delivery, memory>>

Pings   == {"activeKV", "activeCluster", "secondaryKV", "secondaryCluster"}
Loop    == Pings \cup {"idle", "k8s", "post", "backoff"}
Startup == {"parse", "connect", "configure"}

\* What an attempt to post comes to: delivered, or refused, or worth another attempt.
Answers == {"2xx", "4xx", "429", "5xx", "lost"}

\* Every ConfigMap and Deployment is read, and written if it has to be.
MinRequests(c) == Len(ConfigMaps(c))
MaxRequests(c) == 2 * (Len(ConfigMaps(c)) + Len(Deployments(c)))

\* Retries + 1, but at least one.
Attempts(c) == IF c.retries + 1 < 1 THEN 1 ELSE c.retries + 1

Flags == /\ ticked \in BOOLEAN /\ due \in BOOLEAN
         /\ firstEval \in BOOLEAN /\ switched \in BOOLEAN

Counters ==
  /\ spent \in Nat /\ age \in 0..Window(cmd) + 1 /\ since \in 0..cmd.interval - 1
  /\ requests \in 0..MaxRequests(cmd)
  /\ attempt \in 0..Attempts(cmd) /\ delivering \in Nat

TypeOK ==
  /\ cmd \in CommandLines
  /\ at \in Loop \cup Startup \cup {"observe", "exited"}
  /\ Counters /\ Flags
  /\ active \in {"primary", "secondary"}

\* A new process: everything in memory starts afresh.
Fresh ==
  /\ spent' = 0 /\ age' = 0 /\ ticked' = FALSE /\ since' = 0 /\ due' = FALSE
  /\ requests' = 0 /\ attempt' = 0 /\ delivering' = 0
  /\ firstEval' = FALSE /\ switched' = FALSE /\ active' = "primary"

Init ==
  /\ cmd \in CommandLines
  /\ at = "parse"
  /\ spent = 0 /\ age = 0 /\ ticked = FALSE /\ since = 0 /\ due = FALSE
  /\ requests = 0 /\ attempt = 0 /\ delivering = 0
  /\ firstEval = FALSE /\ switched = FALSE /\ active = "primary"

Go(to) == at' = to /\ spent' = 0

-----------------------------------------------------------------------------
(* Startup *)

\* Flags are parsed, and everything the webhook needs is checked.
ParseFlags ==
  /\ at = "parse"
  /\ Go(IF ~cmd.logLevelKnown \/ ActuatorsRefused(cmd) \/ WebhookRefused(cmd)
        THEN "exited" ELSE "connect")
  /\ UNCHANGED <<cmd, heartbeat, ticker, requests, delivery, memory>>

\* Connected to the primary, with clients for what the actuators need, the process
\* serves HTTP.  Without an actuator that is all it does, and it is ready.
Connect ==
  /\ at = "connect"
  /\ IF \/ buildSecurityConfigFails(cmd.tls) \/ cmd.conn = "bad"
        \/ UsesK8s(cmd) /\ ~cmd.kubeconfig
     THEN Go("exited") /\ UNCHANGED firstEval
     ELSE /\ Go(IF AnyActuator(cmd) THEN "configure" ELSE "observe")
          /\ firstEval' = ~AnyActuator(cmd)
  /\ UNCHANGED <<cmd, heartbeat, ticker, requests, delivery, switched, active>>

\* The target lists are parsed, a switch that has happened is adopted and followed
\* if there is a prober for the secondary, and the ticker starts.
Configure ==
  /\ at = "configure"
  /\ \/ /\ UsesK8s(cmd) /\ TargetsRefused(cmd)
        /\ Go("exited") /\ UNCHANGED <<switched, active>>
     \/ /\ UsesK8s(cmd) => ~TargetsRefused(cmd)
        /\ Go("idle")
        /\ \E already \in {FALSE, UsesK8s(cmd) /\ cmd.secondary # ""} :
             /\ switched' = already
             /\ active' = IF already /\ cmd.secondary = "good" THEN "secondary" ELSE "primary"
  /\ UNCHANGED <<cmd, heartbeat, ticker, requests, delivery, firstEval>>

-----------------------------------------------------------------------------
(* Time *)

Limit ==
  CASE at \in Pings -> cmd.probeTimeout
    [] at = "k8s" -> K8sTimeout
    [] at = "post" -> cmd.webhookTimeout
    [] at = "backoff" -> DefaultBackoff(attempt)
    [] at = "idle" -> IF due THEN 0 ELSE cmd.interval

\* A ping or a post without a timeout may never return.
Unbounded == at \in Pings \cup {"post"} /\ Limit = 0

\* A step does not outlast its timeout, and a waiting tick is taken at once.
TimePasses ==
  /\ at \in Loop /\ (Unbounded \/ spent < Limit)
  /\ spent' = IF Unbounded THEN 0 ELSE spent + 1
  /\ age' = IF ticked /\ age <= Window(cmd) THEN age + 1 ELSE age
  /\ since' = (since + 1) % cmd.interval
  /\ due' = (due \/ since' = 0)
  /\ delivering' = IF attempt > 0 /\ delivering <= webhookWorstCase(cmd)
                   THEN delivering + 1 ELSE delivering
  /\ UNCHANGED <<cmd, at, ticked, requests, attempt, memory>>

-----------------------------------------------------------------------------
(* The poll loop *)

StartTick_noBeat ==
  /\ at = "idle" /\ due
  /\ due' = FALSE
  /\ age' = (IF ticked THEN age ELSE 0) /\ ticked' = TRUE
  /\ Go("activeKV")
  /\ UNCHANGED <<cmd, since, requests, delivery, memory>>
StartTick ==
  /\ at = "idle" /\ due
  /\ due' = FALSE
  /\ age' = 0 /\ ticked' = TRUE
  /\ Go("activeKV")
  /\ UNCHANGED <<cmd, since, requests, delivery, memory>>

\* Probe: two pings, one after the other.
KVPinged ==
  /\ \/ at = "activeKV" /\ Go("activeCluster")
     \/ at = "secondaryKV" /\ Go("secondaryCluster")
  /\ UNCHANGED <<cmd, heartbeat, ticker, requests, delivery, memory>>

\* The active cluster has been evaluated: wait for the next tick, or, when a switch
\* is required and there is a prober for it, look at the secondary.
ActiveProbed_readyAtTheEnd ==
  /\ at = "activeCluster"
  /\ \/ Go("idle") /\ firstEval' = TRUE
     \/ ~switched /\ cmd.secondary = "good" /\ Go("secondaryKV") /\ UNCHANGED firstEval
  /\ UNCHANGED <<cmd, heartbeat, ticker, requests, delivery, switched, active>>
ActiveProbed ==
  /\ at = "activeCluster"
  /\ firstEval' = TRUE
  /\ \/ Go("idle")
     \/ ~switched /\ cmd.secondary = "good" /\ Go("secondaryKV")
  /\ UNCHANGED <<cmd, heartbeat, ticker, requests, delivery, switched, active>>

StartDelivery == Go("post") /\ attempt' = 1 /\ delivering' = 0

\* The secondary is not ready and the switch is held, or runSwitch begins.
SecondaryProbed ==
  /\ at = "secondaryCluster"
  /\ \/ Go("idle") /\ UNCHANGED <<requests, delivery>>
     \/ /\ UsesK8s(cmd) /\ Go("k8s") /\ UNCHANGED delivery
        /\ requests' \in MinRequests(cmd)..MaxRequests(cmd)
     \/ ~UsesK8s(cmd) /\ StartDelivery /\ UNCHANGED requests
  /\ UNCHANGED <<cmd, heartbeat, ticker, memory>>

\* The end of the iteration: a latch marks the machine and moves the prober.
Finish(latch) ==
  /\ Go("idle")
  /\ switched' = latch
  /\ active' = IF latch THEN "secondary" ELSE active

\* With a webhook as well the latch waits for it, but does not depend on it.
RequestDone ==
  /\ at = "k8s"
  /\ requests' = requests - 1
  /\ \/ requests' > 0 /\ Go("k8s") /\ UNCHANGED <<delivery, switched, active>>
     \/ requests' = 0 /\ UsesWebhook(cmd) /\ StartDelivery /\ UNCHANGED <<switched, active>>
     \/ /\ requests' = 0 /\ ~UsesWebhook(cmd) /\ UNCHANGED delivery
        /\ \E latch \in BOOLEAN : Finish(latch)
  /\ UNCHANGED <<cmd, heartbeat, ticker, firstEval>>

-----------------------------------------------------------------------------
(* HTTP.Notify *)

Retryable(a) == a \in {"lost", "5xx", "429"}

AttemptsLeft_offByOne == attempt <= Attempts(cmd)
AttemptsLeft == attempt < Attempts(cmd)

\* An attempt is over, with a status or with a transport error.
Attempted(a) ==
  /\ at = "post"
  /\ IF Retryable(a) /\ AttemptsLeft
     THEN Go("backoff") /\ UNCHANGED <<delivery, switched, active>>
     ELSE /\ attempt' = 0 /\ delivering' = 0
          /\ \E latch \in (IF UsesK8s(cmd) THEN BOOLEAN ELSE {a = "2xx"}) : Finish(latch)
  /\ UNCHANGED <<cmd, heartbeat, ticker, requests, firstEval>>

BackoffOver ==
  /\ at = "backoff" /\ spent = DefaultBackoff(attempt)
  /\ Go("post")
  /\ attempt' = attempt + 1
  /\ UNCHANGED <<cmd, heartbeat, ticker, requests, delivering, memory>>

-----------------------------------------------------------------------------

Iteration ==
  \/ StartTick \/ KVPinged \/ ActiveProbed \/ SecondaryProbed \/ RequestDone
  \/ \E a \in Answers : Attempted(a)
  \/ BackoffOver

Next == ParseFlags \/ Connect \/ Configure \/ TimePasses \/ Iteration

-----------------------------------------------------------------------------
(* Properties *)

\* What /healthz answers 503 to (probes.go:43-57).
Stale == ticked /\ age > Window(cmd)

\* The longest iteration: two pings for each of two clusters, every request and
\* the whole delivery at their timeouts.  (Warned counts one ping per cluster and
\* no API request.)
LongestCalls    == IF UsesK8s(cmd) THEN MaxRequests(cmd) * K8sTimeout ELSE 0
LongestDelivery == Attempts(cmd) * cmd.webhookTimeout + Backoffs(cmd.retries)
LongestTick ==
  4 * cmd.probeTimeout + LongestCalls + IF UsesWebhook(cmd) THEN LongestDelivery ELSE 0

WithinBudget ==
  /\ cmd.probeTimeout > 0
  /\ UsesWebhook(cmd) => cmd.webhookTimeout > 0
  /\ LongestTick <= Window(cmd)

\* An iteration whose steps all have a timeout and that fits the window never lets
\* /healthz fail, late ticks included: the ticker holds one, which starts the next
\* at once (main.go:116-120, 341-344).
FreshWithinBudget == WithinBudget => ~Stale

\* A delivery takes no longer than the budget startup computes for it
\* (webhookflags.go:75-85), unless retries or timeout make that budget void.
DeliveryWithinWorstCase ==
  cmd.retries >= 0 /\ cmd.webhookTimeout > 0 => delivering <= webhookWorstCase(cmd)

\* What runs can be run with.  The loop has an actuator; with k8s it has a
\* ConfigMap list that is not empty and without duplicates, every target with both
\* its parts, as the actuator and Observer assume (ModesAssumption).  A process that
\* serves HTTP knows every actuator it was asked for, and its webhook has an
\* address, headers with a key, and certificates unless it verifies nothing: these
\* are refused before anything is connected (main.go:93-96, 227-236).
UsableOrRefused ==
  /\ at \in Loop => AnyActuator(cmd)
  /\ at \in Loop /\ UsesK8s(cmd) =>
       /\ ConfigMaps(cmd) # <<>>
       /\ \A refs \in {ConfigMaps(cmd), Deployments(cmd)} : \A j, k \in DOMAIN refs :
            /\ refs[j].ns # "" /\ refs[j].name # ""
            /\ j # k => refs[j] # refs[k]
  /\ at \notin {"parse", "exited"} =>
       /\ Named(cmd.actuators) \subseteq {"k8s", "webhook"}
       /\ UsesWebhook(cmd) =>
            /\ cmd.webhookURL # ""
            /\ \A k \in DOMAIN resolveHeaders(cmd) : resolveHeaders(cmd)[k].key # ""
            /\ cmd.webhookTLS.skipVerify \/ cmd.webhookTLS.ca \in {"", "good"}

\* KeepsFirstOccurrences of whatever the process may be about to parse, as long as no
\* entry is malformed (refs.go:19-47).
TargetsAreFirstOccurrences ==
  at = "parse" =>
    \A list \in TargetLists : \/ ParseRefsFails(list, cmd.namespace)
                               \/ KeepsFirstOccurrences(list, cmd.namespace)

-----------------------------------------------------------------------------
(* The inductive invariant behind these properties *)

\* The loop runs with what startup has let pass, and a step keeps its timeout.
LoopShape ==
  /\ at \notin {"parse", "exited"} => ~ActuatorsRefused(cmd) /\ ~WebhookRefused(cmd)
  /\ at = "configure" => AnyActuator(cmd)
  /\ at \in Loop => AnyActuator(cmd) /\ (UsesK8s(cmd) => ~TargetsRefused(cmd))
  /\ at = "k8s" => UsesK8s(cmd) /\ requests > 0
  /\ at \in {"post", "backoff"} => UsesWebhook(cmd) /\ attempt > 0
  /\ at \notin {"post", "backoff"} => attempt = 0 /\ delivering = 0
  /\ at = "backoff" => attempt < Attempts(cmd)
  /\ at \in Loop \ {"idle"} => spent <= Limit

\* As long as no tick waits, the heartbeat is younger than the last one.
ClockShape ==
  /\ at \notin Loop => ~ticked
  /\ ~ticked => age = 0
  /\ ticked /\ ~due => age <= since

\* How long the delivery can have taken so far ...
MostDelivered ==
  (IF at = "backoff" THEN attempt ELSE attempt - 1) * cmd.webhookTimeout
    + Backoffs(attempt - 1) + spent

\* ... and the iteration, or, between two of them, the heartbeat.
MostAge ==
  CASE at = "activeKV" -> spent
    [] at = "activeCluster" -> cmd.probeTimeout + spent
    [] at = "secondaryKV" -> 2 * cmd.probeTimeout + spent
    [] at = "secondaryCluster" -> 3 * cmd.probeTimeout + spent
    [] at = "k8s" -> 4 * cmd.probeTimeout + (MaxRequests(cmd) - requests) * K8sTimeout + spent
    [] at \in {"post", "backoff"} -> 4 * cmd.probeTimeout + LongestCalls + MostDelivered
    [] at = "idle" -> Window(cmd)

BudgetInv ==
  /\ TypeOK
  /\ LoopShape
  /\ ClockShape
  /\ WithinBudget /\ at \in Loop => age <= MostAge
  /\ cmd.webhookTimeout > 0 /\ attempt > 0 => delivering <= MostDelivered

-----------------------------------------------------------------------------
(* A statement of the documentation that does not hold *)

\* main.go:51: "keep 2*probe-timeout < 3*interval so the liveness heartbeat stays
\* fresh"; startup warns when that, or the sum with the webhook, does not hold.
NoWarningMeansFresh == ~Warned(cmd) => ~Stale
=============================================================================
