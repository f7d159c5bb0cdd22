------------------------------- MODULE MCSurface -------------------------------
(* Instances of Surface for TLC: command lines. *)
EXTENDS Surface
LOCAL INSTANCE Folds

NoTLS == [ca |-> "", skipVerify |-> FALSE]
BadCA == [ca |-> "noCertificate", skipVerify |-> FALSE]

\* Both actuators; the longest iteration just fits the window.
Fits ==
  [logLevelKnown |-> TRUE, actuators |-> <<"k8s", "webhook">>, mode |-> "",
   conn |-> "good", secondary |-> "good", tls |-> NoTLS, kubeconfig |-> TRUE,
   configMap |-> <<<<"x">>, Blank, <<"n1", "x">>>>, deployments |-> <<Blank>>, namespace |-> "n1",
   webhookURL |-> "url", headers |-> <<>>, envHeaders |-> <<>>, webhookTLS |-> NoTLS,
   interval |-> 5, probeTimeout |-> 1, webhookTimeout |-> 2, retries |-> 2]

K8sOnly     == [Fits EXCEPT !.actuators = <<"k8s">>, !.interval = 2, !.configMap = <<<<"x">>>>]
WebhookOnly == [Fits EXCEPT !.actuators = <<"", "webhook">>, !.interval = 2,
                            !.webhookTimeout = 1, !.retries = 0]

\* These run, too.
Running == {
  Fits, K8sOnly, WebhookOnly,
  [K8sOnly EXCEPT !.interval = 3, !.deployments = <<<<"x">>>>],
  [WebhookOnly EXCEPT !.retries = -1],                        \* one attempt all the same
  [K8sOnly EXCEPT !.actuators = Unset, !.mode = "active", !.secondary = "bad"],
  [K8sOnly EXCEPT !.configMap = <<<<"n1", "x">>, <<"n2", "x">>>>, !.secondary = ""],
  [Fits EXCEPT !.actuators = <<" ">>, !.mode = "active"],     \* names nothing: observe only
  [Fits EXCEPT !.actuators = Unset, !.webhookURL = ""],
  [WebhookOnly EXCEPT !.headers = <<[key |-> "k", colon |-> TRUE]>>,
                      !.envHeaders = <<[key |-> "k", colon |-> FALSE]>>],
  [WebhookOnly EXCEPT !.webhookTLS = [BadCA EXCEPT !.skipVerify = TRUE]]}

\* Too slow for the window, or without a timeout.
Stalling == {
  [K8sOnly EXCEPT !.interval = 1],
  [K8sOnly EXCEPT !.interval = 1, !.probeTimeout = 0],
  [WebhookOnly EXCEPT !.interval = 1, !.webhookTimeout = 0]}

Refused == {
  [Fits EXCEPT !.logLevelKnown = FALSE], [Fits EXCEPT !.conn = "bad"],
  [Fits EXCEPT !.actuators = <<"k8s", "slack">>],
  [Fits EXCEPT !.actuators = Unset, !.mode = "passive"],
  [Fits EXCEPT !.kubeconfig = FALSE], [Fits EXCEPT !.tls = BadCA],
  [Fits EXCEPT !.webhookURL = ""], [Fits EXCEPT !.webhookTLS = BadCA],
  [Fits EXCEPT !.headers = <<[key |-> "", colon |-> TRUE]>>],
  [Fits EXCEPT !.envHeaders = <<[key |-> "k", colon |-> TRUE], [key |-> "", colon |-> FALSE]>>],
  [Fits EXCEPT !.configMap = <<Blank>>], [Fits EXCEPT !.namespace = ""],
  [Fits EXCEPT !.configMap = <<<<"n1", "x", "y">>>>],
  [Fits EXCEPT !.deployments = <<<<"n1", "">>>>]}

Every == Running \cup Stalling \cup Refused

\* No warning, and yet four pings and two requests do not fit.
Unwarned == {[K8sOnly EXCEPT !.interval = 1]}

\* Backoffs is the sum it stands for.
ASSUME BackoffsAssumption ==
  \A n \in -2..20 : Backoffs(n) =
    MapThenFoldSet(+, 0, DefaultBackoff, LAMBDA S : CHOOSE x \in S : TRUE, 1..n)

\* Lists of up to four entries: blank, bare, qualified, malformed.
Entries == {Blank, <<"x">>, <<"n1", "x">>, <<"n2", "x">>, <<"n2", "y">>,
            <<"", "x">>, <<"n1", "">>, <<"n1", "x", "y">>}
Lists   == UNION {[1..n -> Entries] : n \in 0..4}
=============================================================================
