------------------------------ MODULE CommandLine ------------------------------
(***************************************************************************)
(* What startup makes of the flags and the environment: the set of          *)
(* actuators (cmd/svchealthcheck/actuators.go), the target lists            *)
(* (pkg/actuator/refs.go, shared with the Lambda), the inputs of the        *)
(* webhook (webhookflags.go, pkg/notify/client.go), TLS (tls.go) and the     *)
(* warning about the liveness window (main.go:116-131).  Functions of a      *)
(* command line c, a record with one field per flag that decides something.  *)
(*                                                                          *)
(* A comma list is the sequence of its entries; an entry of a target list is *)
(* the sequence of what stands between its slashes.                         *)
(***************************************************************************)
EXTENDS Integers, Sequences, FiniteSets, Functions

-----------------------------------------------------------------------------
(* Target lists *)

Blank == <<"">>

\* A bare name falls back to the default namespace.
Ref(entry, defaultNS) ==
  IF Len(entry) = 1 THEN [ns |-> defaultNS, name |-> entry[1]]
                    ELSE [ns |-> entry[1], name |-> entry[2]]

Malformed(entry, defaultNS) ==
  Len(entry) > 2 \/ Ref(entry, defaultNS).ns = "" \/ Ref(entry, defaultNS).name = ""

ParseRefsFails(list, defaultNS) ==
  \E entry \in Range(list) : entry # Blank /\ Malformed(entry, defaultNS)

\* Blank entries are dropped, duplicates removed, the order kept.
Kept_byName(out, entry, defaultNS) ==
  LET r == Ref(entry, defaultNS)
  IN  IF entry = Blank \/ \E x \in Range(out) : x.name = r.name THEN out ELSE Append(out, r)
Kept(out, entry, defaultNS) ==
  LET r == Ref(entry, defaultNS)
  IN  IF entry = Blank \/ r \in Range(out) THEN out ELSE Append(out, r)

ParseRefs(list, defaultNS) ==
  LET out[n \in 0..Len(list)] ==
        IF n = 0 THEN <<>> ELSE Kept(out[n - 1], list[n], defaultNS)
  IN  out[Len(list)]

ParseRefsRequiredFails_onlyErrors(list, defaultNS) == ParseRefsFails(list, defaultNS)
ParseRefsRequiredFails(list, defaultNS) ==
  ParseRefsFails(list, defaultNS) \/ ParseRefs(list, defaultNS) = <<>>

\* Both mains parse the two lists in this way, and exit if either fails.
ConfigMaps(c)   == ParseRefs(c.configMap, c.namespace)
Deployments(c)  == ParseRefs(c.deployments, c.namespace)
TargetsRefused(c) ==
  \/ ParseRefsRequiredFails(c.configMap, c.namespace)
  \/ ParseRefsFails(c.deployments, c.namespace)

-----------------------------------------------------------------------------
(* Actuators *)

Unset == <<"">>   \* the empty string, split at its commas

\* An entry of nothing but space is dropped.
Named(list) == Range(list) \ {"", " "}

\* A list that is not empty wins, even if it names nothing; --mode comes second.
parseActuators(c) ==
  IF c.actuators # Unset
  THEN [k8s |-> "k8s" \in Named(c.actuators), webhook |-> "webhook" \in Named(c.actuators)]
  ELSE [k8s |-> c.mode = "active", webhook |-> FALSE]

ActuatorsRefused(c) ==
  IF c.actuators # Unset THEN ~(Named(c.actuators) \subseteq {"k8s", "webhook"})
                         ELSE c.mode \notin {"", "observe", "active"}

UsesK8s(c)     == parseActuators(c).k8s
UsesWebhook(c) == parseActuators(c).webhook
AnyActuator(c)         == UsesK8s(c) \/ UsesWebhook(c)

-----------------------------------------------------------------------------
(* Inputs of the webhook, TLS *)

\* A header is [key, colon]: what stands before the first colon, if there is one.
ParseHeaderFails(h) == ~h.colon \/ h.key = ""

\* Headers given as flags replace those of the environment.
resolveHeaders(c) == IF c.headers # <<>> THEN c.headers ELSE c.envHeaders

\* A CA file that cannot be read or holds no certificate, unless nothing is verified.
NewClientFails(tls) == ~tls.skipVerify /\ tls.ca \in {"unreadable", "noCertificate"}
buildSecurityConfigFails(tls) == ~tls.skipVerify /\ tls.ca \in {"unreadable", "noCertificate"}

WebhookRefused(c) ==
  UsesWebhook(c) /\ (\/ c.webhookURL = ""
                     \/ \E h \in Range(resolveHeaders(c)) : ParseHeaderFails(h)
                     \/ NewClientFails(c.webhookTLS))

-----------------------------------------------------------------------------
(* The liveness window and what startup takes an iteration to need *)

\* DefaultBackoff, in seconds: the attempt.
DefaultBackoff(n) == n

\* DefaultBackoff(1) to DefaultBackoff(retries), added up.
Backoffs(retries) == IF retries < 1 THEN 0 ELSE (retries * (retries + 1)) \div 2

\* Every attempt timing out, plus the backoff between them.
webhookWorstCase_noBackoff(c) == (c.retries + 1) * c.webhookTimeout
webhookWorstCase(c) == (c.retries + 1) * c.webhookTimeout + Backoffs(c.retries)

Window(c)      == 3 * c.interval
ProbeBudget(c) == 2 * c.probeTimeout

Warned(c) ==
  ProbeBudget(c) + (IF UsesWebhook(c) THEN webhookWorstCase(c) ELSE 0) >= Window(c)

-----------------------------------------------------------------------------
(* A reference definition *)

\* The well-formed entries that name a target no earlier entry names.
FirstNamed(list, defaultNS) ==
  {k \in DOMAIN list : /\ list[k] # Blank
                       /\ \A j \in 1..k - 1 : list[j] = Blank \/
                            Ref(list[j], defaultNS) # Ref(list[k], defaultNS)}

\* ParseRefs keeps the order of the entries and every target exactly once, those
\* of one name in several namespaces included, so that the actuator patches and
\* rolls each of them once (refs.go:19-47).
KeepsFirstOccurrences(list, defaultNS) ==
  LET refs  == ParseRefs(list, defaultNS)
      firsts == FirstNamed(list, defaultNS)
  IN  /\ Len(refs) = Cardinality(firsts)
      /\ \A k \in firsts :
           Ref(list[k], defaultNS) = refs[Cardinality({j \in firsts : j <= k})]
=============================================================================
