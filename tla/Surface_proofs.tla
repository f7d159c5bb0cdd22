---------------------------- MODULE Surface_proofs ----------------------------
(***************************************************************************)
(* How long an iteration takes, for every command line: an iteration that   *)
(* fits the window keeps the heartbeat fresh, a delivery keeps the budget    *)
(* that startup computes for it, and an answer describes one cluster.       *)
(*                                                                          *)
(* The argument: MostAge charges every step that is over with its timeout   *)
(* and the running one with the time it has taken.  Between iterations the  *)
(* ticker takes over: without a tick that waits, the last StartTick is       *)
(* younger than the last tick, and a tick that waits is taken at once.      *)
(***************************************************************************)
EXTENDS Surface, FiniteSetTheorems, TLAPS

-----------------------------------------------------------------------------
(* Target lists *)

\* Induction over Nat for a set: the segments of its complement have a least one.
LEMMA NatInduct ==
  ASSUME NEW S, 0 \in S, \A n \in Nat : n \in S => n + 1 \in S
  PROVE  Nat \subseteq S
<1> DEFINE R == StrictSubsetOrdering(Nat)
           Bad == {0..n : n \in Nat \ S}
<1> SUFFICES ASSUME Nat \ S # {} PROVE FALSE
  OBVIOUS
<1>1. \E b \in Bad : \A c \in Bad : ~(<<c, b>> \in R)
  <2>1. IsWellFoundedOn(R, FiniteSubsetsOf(Nat))
    BY FS_StrictSubsetOrderingWellFounded
  <2>2. Bad \subseteq FiniteSubsetsOf(Nat)
    <3>1. \A n \in Nat : IsFiniteSet(0..n) /\ 0..n \subseteq Nat
      BY FS_Interval
    <3> QED BY <3>1 DEF FiniteSubsetsOf
  <2>3. Bad # {}
    OBVIOUS
  <2> HIDE DEF R, Bad
  <2> QED BY <2>1, <2>2, <2>3, WFMin
<1>2. PICK x \in Nat \ S : \A y \in Nat \ S : ~(<<0..y, 0..x>> \in R)
  BY <1>1
<1>3. x - 1 \in Nat \ S /\ x - 1 < x
  <2>1. x # 0
    OBVIOUS
  <2>2. x - 1 \in Nat /\ (x - 1) + 1 = x /\ x - 1 < x
    BY <2>1
  <2> QED BY <2>2
<1>4. <<0..x - 1, 0..x>> \in R
  <2>1. x \in 0..x /\ x \notin 0..x - 1 /\ 0..x - 1 \subseteq 0..x /\ 0..x \subseteq Nat
    OBVIOUS
  <2> QED BY <2>1 DEF StrictSubsetOrdering
<1> QED BY <1>2, <1>3, <1>4

\* The loop of ParseRefs, as the recursion it is.
LEMMA ParseRefsLoop ==
  ASSUME NEW list, NEW defaultNS, Len(list) \in Nat
  PROVE  \E out : /\ out = [n \in 0..Len(list) |-> IF n = 0 THEN <<>> ELSE Kept(out[n - 1], list[n], defaultNS)]
                  /\ ParseRefs(list, defaultNS) = out[Len(list)]
<1> DEFINE Computes(f, n) == f = [k \in 0..n |-> IF k = 0 THEN <<>> ELSE Kept(f[k - 1], list[k], defaultNS)]
           Runs == {n \in Nat : \E f : Computes(f, n)}
<1>1. 0 \in Runs
  <2>1. Computes([k \in 0..0 |-> <<>>], 0)
    OBVIOUS
  <2> QED BY <2>1
<1>2. ASSUME NEW n \in Nat, n \in Runs PROVE n + 1 \in Runs
  <2>1. PICK f : Computes(f, n)
    BY <1>2
  <2> DEFINE g == [k \in 0..n + 1 |-> IF k = 0 THEN <<>> ELSE Kept(f[k - 1], list[k], defaultNS)]
  <2>2. \A k \in 0..n : g[k] = f[k]
    BY <2>1
  <2>3. \A k \in 0..n + 1 : k # 0 => k - 1 \in 0..n
    OBVIOUS
  <2>4. Computes(g, n + 1)
    <3> HIDE DEF g
    <3>1. g = [k \in 0..n + 1 |-> IF k = 0 THEN <<>> ELSE Kept(f[k - 1], list[k], defaultNS)]
      BY DEF g
    <3>2. \A k \in 0..n + 1 : (IF k = 0 THEN <<>> ELSE Kept(f[k - 1], list[k], defaultNS))
                            = (IF k = 0 THEN <<>> ELSE Kept(g[k - 1], list[k], defaultNS))
      BY <2>2, <2>3
    <3> QED BY <3>1, <3>2
  <2> HIDE DEF Computes, g
  <2>5. \E h : Computes(h, n + 1)
    BY <2>4
  <2>6. n + 1 \in Nat
    OBVIOUS
  <2> QED BY <2>5, <2>6
<1>3. Len(list) \in Runs
  <2> HIDE DEF Runs
  <2>1. \A n \in Nat : n \in Runs => n + 1 \in Runs
    BY <1>2
  <2> QED BY <1>1, <2>1, NatInduct
<1>4. \E f : Computes(f, Len(list))
  BY <1>3
<1> DEFINE out == CHOOSE f : Computes(f, Len(list))
<1>5. Computes(out, Len(list))
  <2> HIDE DEF Computes
  <2> QED BY <1>4
<1>6. ParseRefs(list, defaultNS) = out[Len(list)]
  BY DEF ParseRefs
<1> QED BY <1>5, <1>6

\* What appending to a list without repetitions does.
LEMMA AppendNew ==
  ASSUME NEW T, NEW o \in Seq(T), NEW r \in T, r \notin Range(o),
         \A j, k \in DOMAIN o : o[j] = o[k] => j = k
  PROVE  /\ Append(o, r) \in Seq(T) /\ Len(o) \in Nat /\ Len(Append(o, r)) = Len(o) + 1
         /\ \A k \in 1..Len(o) : Append(o, r)[k] = o[k]
         /\ Append(o, r)[Len(o) + 1] = r
         /\ Range(Append(o, r)) = Range(o) \cup {r}
         /\ \A j, k \in DOMAIN Append(o, r) : Append(o, r)[j] = Append(o, r)[k] => j = k
<1>1. /\ Append(o, r) \in Seq(T) /\ Len(o) \in Nat /\ Len(Append(o, r)) = Len(o) + 1
      /\ \A k \in 1..Len(o) : Append(o, r)[k] = o[k]
      /\ Append(o, r)[Len(o) + 1] = r
      /\ DOMAIN o = 1..Len(o) /\ DOMAIN Append(o, r) = 1..(Len(o) + 1)
  OBVIOUS
<1>2. 1..(Len(o) + 1) = 1..Len(o) \cup {Len(o) + 1} /\ Len(o) + 1 \notin 1..Len(o)
  BY <1>1
<1>3. \A k \in 1..Len(o) : o[k] # r
  BY <1>1 DEF Range
<1> HIDE DEF Append
<1>4. Range(Append(o, r)) = Range(o) \cup {r}
  BY <1>1, <1>2 DEF Range
<1>5. ASSUME NEW j \in DOMAIN Append(o, r), NEW k \in DOMAIN Append(o, r),
             Append(o, r)[j] = Append(o, r)[k]
      PROVE  j = k
  <2>1. /\ j \in 1..Len(o) \/ j = Len(o) + 1
        /\ k \in 1..Len(o) \/ k = Len(o) + 1
    BY <1>1, <1>2
  <2>2. CASE j \in 1..Len(o) /\ k \in 1..Len(o)
    BY <1>1, <1>5, <2>2
  <2>3. CASE j = Len(o) + 1 /\ k \in 1..Len(o)
    BY <1>1, <1>3, <1>5, <2>3
  <2>4. CASE j \in 1..Len(o) /\ k = Len(o) + 1
    BY <1>1, <1>3, <1>5, <2>4
  <2> QED BY <2>1, <2>2, <2>3, <2>4
<1> QED BY <1>1, <1>4, <1>5

\* ParseRefs keeps every target once and in order, for lists of any length.
LEMMA ParseRefsKeeps ==
  ASSUME NEW E, NEW list \in Seq(E), NEW defaultNS
  PROVE  /\ KeepsFirstOccurrences(list, defaultNS)
         /\ ParseRefs(list, defaultNS) \in
              Seq({Ref(list[k], defaultNS) : k \in {j \in DOMAIN list : list[j] # Blank}})
         /\ \A j, k \in DOMAIN ParseRefs(list, defaultNS) :
              ParseRefs(list, defaultNS)[j] = ParseRefs(list, defaultNS)[k] => j = k
<1> DEFINE N       == Len(list)
           Targets(n) == {Ref(list[k], defaultNS) : k \in {j \in 1..n : list[j] # Blank}}
           firsts  == FirstNamed(list, defaultNS)
           Upto(n) == {j \in firsts : j <= n}
<1>1. N \in Nat /\ DOMAIN list = 1..N
  OBVIOUS
<1>2. PICK out : /\ out = [n \in 0..N |-> IF n = 0 THEN <<>> ELSE Kept(out[n - 1], list[n], defaultNS)]
                 /\ ParseRefs(list, defaultNS) = out[N]
  BY <1>1, ParseRefsLoop
<1> DEFINE Holds(n) == /\ out[n] \in Seq(Targets(N))
                       /\ Range(out[n]) = Targets(n)
                       /\ \A j, k \in DOMAIN out[n] : out[n][j] = out[n][k] => j = k
                       /\ Len(out[n]) = Cardinality(Upto(n))
                       /\ \A k \in Upto(n) : out[n][Cardinality(Upto(k))] = Ref(list[k], defaultNS)
           Good == {n \in Nat : n <= N => Holds(n)}
<1>3. firsts \subseteq 1..N
  BY <1>1 DEF FirstNamed
<1>4. \A n \in Nat : IsFiniteSet(Upto(n)) /\ Cardinality(Upto(n)) \in Nat
  <2>1. IsFiniteSet(1..N)
    BY <1>1, FS_Interval
  <2>2. \A n \in Nat : Upto(n) \subseteq 1..N
    BY <1>3
  <2> HIDE DEF Upto
  <2> QED BY <2>1, <2>2, FS_Subset, FS_CardinalityType
<1>5. 0 \in Good
  <2>1. out[0] = <<>>
    BY <1>1, <1>2
  <2>2. Upto(0) = {}
    BY <1>3
  <2>3. Targets(0) = {}
    OBVIOUS
  <2>4. Cardinality(Upto(0)) = 0
    BY <2>2, FS_EmptySet
  <2>5. Range(<<>>) = {} /\ Len(<<>>) = 0 /\ DOMAIN <<>> = {} /\ <<>> \in Seq(Targets(N))
    <3> HIDE DEF Targets
    <3> QED BY DEF Range
  <2>6. Holds(0)
    <3> HIDE DEF Upto, Targets
    <3>1. out[0] \in Seq(Targets(N)) /\ Range(out[0]) = Targets(0) /\ DOMAIN out[0] = {}
      BY <2>1, <2>3, <2>5
    <3>2. Len(out[0]) = Cardinality(Upto(0))
      BY <2>1, <2>4, <2>5
    <3> QED BY <2>2, <3>1, <3>2
  <2> QED BY <2>6
<1>6. ASSUME NEW n \in Nat, Holds(n), n + 1 <= N PROVE Holds(n + 1)
  <2> DEFINE o == out[n]
             r == Ref(list[n + 1], defaultNS)
  <2>1. n + 1 \in 1..N /\ n \in 0..N /\ out[n + 1] = Kept(o, list[n + 1], defaultNS)
    BY <1>1, <1>2, <1>6
  <2>2. 1..(n + 1) = 1..n \cup {n + 1} /\ 1..n \subseteq 1..N
    BY <1>1, <1>6
  <2>3. r \in Targets(n) <=> \E k \in 1..n : list[k] # Blank /\ Ref(list[k], defaultNS) = r
    OBVIOUS
  <2>4. n + 1 \in firsts <=> list[n + 1] # Blank /\ r \notin Targets(n)
    BY <1>1, <2>1, <2>3 DEF FirstNamed
  <2>5. Upto(n + 1) = IF n + 1 \in firsts THEN Upto(n) \cup {n + 1} ELSE Upto(n)
    BY <1>3, <2>1
  <2>6. Targets(n + 1) = IF list[n + 1] = Blank THEN Targets(n) ELSE Targets(n) \cup {r}
    BY <2>2
  <2>7. CASE list[n + 1] = Blank \/ r \in Range(o)
    <3>1. out[n + 1] = o
      BY <2>1, <2>7 DEF Kept
    <3>2. Upto(n + 1) = Upto(n)
      BY <1>6, <2>4, <2>5, <2>7
    <3>3. Targets(n + 1) = Targets(n)
      BY <1>6, <2>6, <2>7
    <3> HIDE DEF Upto, Targets
    <3> QED BY <1>6, <3>1, <3>2, <3>3
  <2>8. CASE list[n + 1] # Blank /\ r \notin Range(o)
    <3>1. out[n + 1] = Append(o, r)
      BY <2>1, <2>8 DEF Kept
    <3>2. n + 1 \in firsts /\ n + 1 \notin Upto(n) /\ Upto(n + 1) = Upto(n) \cup {n + 1}
      BY <1>6, <2>4, <2>5, <2>8
    <3>3. Targets(n + 1) = Targets(n) \cup {r}
      BY <2>6, <2>8
    <3>4. r \in Targets(N)
      BY <2>1, <2>8
    <3>5. \A k \in Upto(n) : Cardinality(Upto(k)) \in 1..Cardinality(Upto(n))
      <4> SUFFICES ASSUME NEW k \in Upto(n) PROVE Cardinality(Upto(k)) \in 1..Cardinality(Upto(n))
        OBVIOUS
      <4>1. k \in Nat /\ k <= n /\ k \in Upto(k)
        BY <1>3
      <4>2. Upto(k) \subseteq Upto(n)
        BY <1>3, <4>1
      <4>3. IsFiniteSet(Upto(k)) /\ IsFiniteSet(Upto(n)) /\ Cardinality(Upto(k)) \in Nat /\ Cardinality(Upto(n)) \in Nat
        BY <1>4, <4>1
      <4> HIDE DEF Upto
      <4>4. Cardinality(Upto(k)) # 0
        BY <4>1, <4>3, FS_EmptySet
      <4>5. Cardinality(Upto(k)) <= Cardinality(Upto(n))
        BY <4>2, <4>3, FS_Subset
      <4> QED BY <4>3, <4>4, <4>5
    <3>6. Cardinality(Upto(n + 1)) = Cardinality(Upto(n)) + 1
      <4> HIDE DEF Upto
      <4> QED BY <1>4, <3>2, FS_AddElement
    <3> HIDE DEF Upto, Targets, o, r
    <3>7. /\ Append(o, r) \in Seq(Targets(N)) /\ Len(o) \in Nat /\ Len(Append(o, r)) = Len(o) + 1
          /\ \A k \in 1..Len(o) : Append(o, r)[k] = o[k]
          /\ Append(o, r)[Len(o) + 1] = r
          /\ Range(Append(o, r)) = Range(o) \cup {r}
          /\ \A j, k \in DOMAIN Append(o, r) : Append(o, r)[j] = Append(o, r)[k] => j = k
      BY <1>6, <2>8, <3>4, AppendNew DEF o
    <3>8. \A k \in Upto(n + 1) : Append(o, r)[Cardinality(Upto(k))] = Ref(list[k], defaultNS)
      BY <1>6, <3>2, <3>5, <3>6, <3>7 DEF o, r
    <3>9. /\ out[n + 1] \in Seq(Targets(N))
          /\ \A j, k \in DOMAIN out[n + 1] : out[n + 1][j] = out[n + 1][k] => j = k
          /\ \A k \in Upto(n + 1) : out[n + 1][Cardinality(Upto(k))] = Ref(list[k], defaultNS)
      BY <3>1, <3>7, <3>8
    <3>10. Range(out[n + 1]) = Targets(n + 1)
      BY <1>6, <3>1, <3>3, <3>7 DEF o
    <3>11. Len(out[n + 1]) = Cardinality(Upto(n + 1))
      BY <1>6, <3>1, <3>6, <3>7 DEF o
    <3> QED BY <3>9, <3>10, <3>11
  <2> QED BY <2>7, <2>8
<1>7. Holds(N)
  <2> HIDE DEF Holds
  <2>1. ASSUME NEW n \in Nat, n \in Good PROVE n + 1 \in Good
    <3>1. n + 1 \in Nat /\ (n + 1 <= N => n <= N)
      BY <1>1
    <3>2. n + 1 <= N => Holds(n + 1)
      BY <1>6, <2>1, <3>1
    <3> QED BY <3>1, <3>2
  <2>2. Nat \subseteq Good
    <3> HIDE DEF Good
    <3> QED BY <1>5, <2>1, NatInduct
  <2> QED BY <1>1, <2>2
<1>8. Upto(N) = firsts
  BY <1>1, <1>3
<1>9. Targets(N) = {Ref(list[k], defaultNS) : k \in {j \in DOMAIN list : list[j] # Blank}}
  BY <1>1
<1>10. KeepsFirstOccurrences(list, defaultNS)
  BY <1>2, <1>7, <1>8 DEF KeepsFirstOccurrences
<1> HIDE DEF Upto, Targets
<1> QED BY <1>2, <1>7, <1>9, <1>10

-----------------------------------------------------------------------------
(* What a command line comes to *)

\* The sum of the backoffs, one by one.
LEMMA BackoffSteps ==
  /\ Backoffs(0) = 0
  /\ \A n \in Nat : Backoffs(n) \in Nat /\ Backoffs(n + 1) = Backoffs(n) + (n + 1)
<1>1. ASSUME NEW n \in Nat PROVE (n + 1) * (n + 2) = n * (n + 1) + 2 * (n + 1)
  OBVIOUS
<1>2. \A x \in Nat, y \in Nat : (x + 2 * y) \div 2 = (x \div 2) + y
  OBVIOUS
<1> QED BY <1>1, <1>2 DEF Backoffs

\* More attempts wait longer; a negative number of retries is none.
LEMMA BackoffsGrow ==
  ASSUME NEW n \in Nat, NEW r \in Int, n <= r \/ n = 0
  PROVE  Backoffs(n) <= Backoffs(r) /\ Backoffs(n) \in Nat /\ Backoffs(r) \in Nat
<1>1. CASE r < 1
  BY <1>1 DEF Backoffs
<1>2. CASE r >= 1
  <2>1. n * (n + 1) <= r * (r + 1) /\ n * (n + 1) \in Nat /\ r * (r + 1) \in Nat
    BY <1>2
  <2>2. \A x \in Nat, y \in Nat : x <= y => x \div 2 <= y \div 2 /\ x \div 2 \in Nat
    OBVIOUS
  <2>3. 0 \div 2 = 0
    OBVIOUS
  <2> QED BY <1>2, <2>1, <2>2, <2>3 DEF Backoffs
<1> QED BY <1>1, <1>2

\* A clock that wraps.
LEMMA Wrap ==
  \A a \in Nat, b \in Nat \ {0} :
    a < b => (a + 1) % b \in 0..b - 1 /\ ((a + 1) % b = a + 1 \/ (a + 1) % b = 0)
  OBVIOUS

LEMMA Times ==
  ASSUME NEW a \in Nat, NEW b \in Nat, NEW t \in Nat
  PROVE  /\ a * t \in Nat /\ 0 * t = 0 /\ 1 * t = t /\ (a + 1) * t = a * t + t
         /\ a <= b => a * t <= b * t
  OBVIOUS

\* What a command line comes to.
LEMMA CmdFacts ==
  ASSUME NEW c \in CommandLines
  PROVE  /\ c.interval \in Nat \ {0} /\ Window(c) = 3 * c.interval /\ Window(c) \in Nat
         /\ c.probeTimeout \in Nat /\ c.webhookTimeout \in Nat /\ c.retries \in Int
         /\ MinRequests(c) \in Nat /\ MaxRequests(c) \in Nat /\ MinRequests(c) <= MaxRequests(c)
         /\ ConfigMaps(c) # <<>> => MinRequests(c) > 0
         /\ Attempts(c) \in Nat \ {0}
         /\ \A n \in Nat : n < Attempts(c) => n <= c.retries \/ n = 0
<1>1. \E T, U : ConfigMaps(c) \in Seq(T) /\ Deployments(c) \in Seq(U)
  BY BudgetAssumption, ParseRefsKeeps DEF ConfigMaps, Deployments
<1>2. /\ Len(ConfigMaps(c)) \in Nat /\ Len(Deployments(c)) \in Nat
      /\ ConfigMaps(c) # <<>> => Len(ConfigMaps(c)) > 0
  BY <1>1
<1>3. /\ c.interval \in Nat \ {0} /\ c.probeTimeout \in Nat
      /\ c.webhookTimeout \in Nat /\ c.retries \in Int
  BY BudgetAssumption
<1>4. Attempts(c) \in Nat \ {0} /\ \A n \in Nat : n < Attempts(c) => n <= c.retries \/ n = 0
  BY <1>3 DEF Attempts
<1>5. Window(c) = 3 * c.interval /\ Window(c) \in Nat
  BY <1>3 DEF Window
<1> QED BY <1>2, <1>3, <1>4, <1>5 DEF MinRequests, MaxRequests

\* The selection of the actuators is a pair of truth values.
LEMMA ActuatorTypes ==
  ASSUME NEW c
  PROVE  UsesK8s(c) \in BOOLEAN /\ UsesWebhook(c) \in BOOLEAN /\ AnyActuator(c) \in BOOLEAN
<1>1. UsesK8s(c) \in BOOLEAN
  <2>1. CASE c.actuators # Unset
    BY <2>1 DEF UsesK8s, parseActuators
  <2>2. CASE c.actuators = Unset
    BY <2>2 DEF UsesK8s, parseActuators
  <2> QED BY <2>1, <2>2
<1>2. UsesWebhook(c) \in BOOLEAN
  <2>1. CASE c.actuators # Unset
    BY <2>1 DEF UsesWebhook, parseActuators
  <2>2. CASE c.actuators = Unset
    BY <2>2 DEF UsesWebhook, parseActuators
  <2> QED BY <2>1, <2>2
<1> QED BY <1>1, <1>2 DEF AnyActuator

\* The timeouts of the steps.
LEMMA Limits ==
  ASSUME TypeOK
  PROVE  /\ at \in Pings => Limit = cmd.probeTimeout
         /\ at = "k8s" => Limit = K8sTimeout
         /\ at = "post" => Limit = cmd.webhookTimeout
         /\ at = "backoff" => Limit = attempt
         /\ at = "idle" => Limit = IF due THEN 0 ELSE cmd.interval
  BY DEF Limit, Pings, DefaultBackoff

\* A process that has just been started.
LEMMA FreshInv ==
  ASSUME cmd \in CommandLines, at = "parse", spent = 0, age = 0, ticked = FALSE, since = 0,
         due = FALSE, requests = 0, attempt = 0, delivering = 0, firstEval = FALSE,
         switched = FALSE, active = "primary"
  PROVE  BudgetInv
<1>1. TypeOK
  <2>1. /\ cmd.interval \in Nat \ {0} /\ Window(cmd) \in Nat
        /\ MaxRequests(cmd) \in Nat /\ Attempts(cmd) \in Nat
    BY CmdFacts
  <2>2. Counters
    BY <2>1 DEF Counters
  <2>3. Flags
    BY DEF Flags
  <2> QED BY <2>2, <2>3 DEF TypeOK, Startup
<1>2. LoopShape /\ ClockShape /\ at \notin Loop
  BY DEF LoopShape, ClockShape, Loop, Pings
<1> QED BY <1>1, <1>2 DEF BudgetInv

-----------------------------------------------------------------------------
(* Types and shape *)

LEMMA CountersStep ==
  ASSUME TypeOK, LoopShape, Next
  PROVE  Counters'
<1> USE DEF heartbeat, ticker, delivery, memory, Go
<1>0. /\ Window(cmd) \in Nat /\ cmd.interval \in Nat \ {0}
      /\ MaxRequests(cmd) \in Nat /\ MinRequests(cmd) \in Nat /\ Attempts(cmd) \in Nat \ {0}
      /\ Counters /\ cmd' = cmd
  BY CmdFacts DEF TypeOK, Next, ParseFlags, Connect, Configure, TimePasses, Iteration, StartTick,
     KVPinged, ActiveProbed, SecondaryProbed, RequestDone, Attempted, BackoffOver
<1>1. CASE ParseFlags
  BY <1>0, <1>1 DEF Counters, ParseFlags
<1>2. CASE Connect
  BY <1>0, <1>2 DEF Counters, Connect
<1>3. CASE Configure
  <2>1. (spent' = 0 \/ spent' = spent) /\ UNCHANGED <<age, since, requests, attempt, delivering>>
    BY <1>3 DEF Configure
  <2> QED BY <1>0, <2>1 DEF Counters
<1>4. CASE TimePasses
  <2>1. since' \in 0..cmd.interval - 1
    BY <1>0, <1>4, Wrap DEF Counters, TimePasses
  <2>2. age' \in 0..Window(cmd) + 1
    BY <1>0, <1>4 DEF Counters, TimePasses
  <2>3. spent' \in Nat /\ delivering' \in Nat
    BY <1>0, <1>4 DEF Counters, TimePasses
  <2> QED BY <1>0, <1>4, <2>1, <2>2, <2>3 DEF Counters, TimePasses
<1>5. CASE StartTick
  <2>1. age' = 0 /\ spent' = 0 /\ UNCHANGED <<since, requests, attempt, delivering>>
    BY <1>5 DEF StartTick
  <2> QED BY <1>0, <2>1 DEF Counters
<1>6. CASE KVPinged
  BY <1>0, <1>6 DEF Counters, KVPinged
<1>7. CASE ActiveProbed
  BY <1>0, <1>7 DEF Counters, ActiveProbed
<1>8. CASE SecondaryProbed
  BY <1>0, <1>8 DEF Counters, SecondaryProbed, StartDelivery
<1>9. CASE RequestDone
  BY <1>0, <1>9 DEF Counters, RequestDone, StartDelivery, Finish, LoopShape
<1>10. ASSUME NEW a \in Answers, Attempted(a) PROVE Counters'
  BY <1>0, <1>10 DEF Counters, Attempted, Finish
<1>11. CASE BackoffOver
  BY <1>0, <1>11 DEF Counters, BackoffOver, LoopShape
<1> QED BY <1>1, <1>2, <1>3, <1>4, <1>5, <1>6, <1>7, <1>8, <1>9, <1>10, <1>11 DEF Next, Iteration

LEMMA FlagsStep ==
  ASSUME Flags, Next
  PROVE  Flags'
<1> USE DEF Flags, heartbeat, ticker, delivery, memory
<1>1. CASE ParseFlags
  BY <1>1 DEF ParseFlags
<1>2. CASE Connect
  BY <1>2, ActuatorTypes DEF Connect
<1>3. CASE Configure
  BY <1>3, ActuatorTypes DEF Configure
<1>4. CASE TimePasses
  BY <1>4 DEF TimePasses
<1>5. CASE StartTick
  BY <1>5 DEF StartTick
<1>6. CASE KVPinged
  BY <1>6 DEF KVPinged
<1>7. CASE ActiveProbed
  BY <1>7 DEF ActiveProbed
<1>8. CASE SecondaryProbed
  BY <1>8 DEF SecondaryProbed
<1>9. CASE RequestDone
  BY <1>9 DEF RequestDone, Finish
<1>10. ASSUME NEW a \in Answers, Attempted(a) PROVE Flags'
  BY <1>10 DEF Attempted, Finish
<1>11. CASE BackoffOver
  BY <1>11 DEF BackoffOver
<1> QED BY <1>1, <1>2, <1>3, <1>4, <1>5, <1>6, <1>7, <1>8, <1>9, <1>10, <1>11 DEF Next, Iteration

LEMMA TypeStep ==
  ASSUME TypeOK, LoopShape, Next
  PROVE  TypeOK'
<1>1. Counters' /\ Flags'
  BY CountersStep, FlagsStep DEF TypeOK
<1>2. /\ cmd' \in CommandLines /\ active' \in {"primary", "secondary"}
      /\ at' \in Loop \cup Startup \cup {"observe", "exited"}
  BY DEF TypeOK, Go, memory, Loop, Pings, Startup, Next, ParseFlags, Connect, Configure, TimePasses,
     Iteration, StartTick, KVPinged, ActiveProbed, SecondaryProbed, StartDelivery, RequestDone,
     Finish, Attempted, BackoffOver
<1> QED BY <1>1, <1>2 DEF TypeOK

\* Startup lets nothing pass that the loop cannot run with.
LEMMA ShapeStep ==
  ASSUME TypeOK, LoopShape, Next
  PROVE  LoopShape'
<1> USE DEF heartbeat, ticker, delivery, memory, Go
<1>0. /\ cmd \in CommandLines /\ cmd' = cmd /\ Attempts(cmd) \in Nat \ {0}
      /\ cmd.probeTimeout \in Nat /\ cmd.webhookTimeout \in Nat /\ K8sTimeout \in Nat
      /\ spent \in Nat /\ requests \in Nat /\ attempt \in 0..Attempts(cmd)
      /\ ~TargetsRefused(cmd) => MinRequests(cmd) > 0
      /\ MinRequests(cmd) \in Nat /\ MaxRequests(cmd) \in Nat
  <2>1. cmd \in CommandLines /\ cmd' = cmd
    BY DEF TypeOK, Next, ParseFlags, Connect, Configure, TimePasses, Iteration, StartTick,
     KVPinged, ActiveProbed, SecondaryProbed, RequestDone, Attempted, BackoffOver
  <2>2. /\ Attempts(cmd) \in Nat \ {0} /\ cmd.probeTimeout \in Nat /\ cmd.webhookTimeout \in Nat
        /\ ConfigMaps(cmd) # <<>> => MinRequests(cmd) > 0
        /\ MinRequests(cmd) \in Nat /\ MaxRequests(cmd) \in Nat
    BY <2>1, CmdFacts
  <2>3. ~TargetsRefused(cmd) => ConfigMaps(cmd) # <<>>
    BY DEF TargetsRefused, ParseRefsRequiredFails, ConfigMaps
  <2> QED BY <2>1, <2>2, <2>3, BudgetAssumption DEF TypeOK, Counters
<1>1. CASE ParseFlags
  BY <1>0, <1>1 DEF LoopShape, ParseFlags, Loop, Pings
<1>2. CASE Connect
  BY <1>0, <1>2 DEF LoopShape, Connect, Loop, Pings
<1>3. CASE Configure
  BY <1>0, <1>3 DEF LoopShape, Configure, Loop, Pings
<1>5. CASE StartTick
  BY <1>0, <1>5 DEF LoopShape, StartTick, Loop, Pings, Limit
<1>6. CASE KVPinged
  BY <1>0, <1>6 DEF LoopShape, KVPinged, Loop, Pings, Limit
<1>7. CASE ActiveProbed
  BY <1>0, <1>7 DEF LoopShape, ActiveProbed, Loop, Pings, Limit
<1>8. CASE SecondaryProbed
  BY <1>0, <1>8 DEF LoopShape, SecondaryProbed, StartDelivery, Loop, Pings, Limit, AnyActuator
<1>9. CASE RequestDone
  BY <1>0, <1>9 DEF LoopShape, RequestDone, StartDelivery, Finish, Loop, Pings, Limit
<1>10. ASSUME NEW a \in Answers, Attempted(a) PROVE LoopShape'
  BY <1>0, <1>10 DEF LoopShape, Attempted, AttemptsLeft, Finish, Loop, Pings, Limit, DefaultBackoff
<1>11. CASE BackoffOver
  BY <1>0, <1>11 DEF LoopShape, BackoffOver, Loop, Pings, Limit
<1>4. CASE TimePasses
  BY <1>0, <1>4 DEF LoopShape, TimePasses, Loop, Pings, Limit, Unbounded, DefaultBackoff
<1> QED BY <1>1, <1>2, <1>3, <1>4, <1>5, <1>6, <1>7, <1>8, <1>9, <1>10, <1>11 DEF Next, Iteration

\* The command line of a process, and the bounds on its counters, at a step.
LEMMA StepFacts ==
  ASSUME TypeOK, Next
  PROVE  /\ cmd \in CommandLines /\ cmd' = cmd
         /\ cmd.interval \in Nat \ {0} /\ Window(cmd) = 3 * cmd.interval
         /\ age \in Nat /\ since \in 0..cmd.interval - 1 /\ spent \in Nat
         /\ requests \in 0..MaxRequests(cmd) /\ attempt \in 0..Attempts(cmd) /\ delivering \in Nat
<1>1. cmd \in CommandLines /\ cmd' = cmd
  BY DEF TypeOK, Next, ParseFlags, Connect, Configure, TimePasses, Iteration, StartTick,
     KVPinged, ActiveProbed, SecondaryProbed, RequestDone, Attempted, BackoffOver
<1>2. /\ cmd.interval \in Nat \ {0} /\ Window(cmd) = 3 * cmd.interval /\ Window(cmd) \in Nat
  BY <1>1, CmdFacts
<1>3. Counters
  BY DEF TypeOK
<1> QED BY <1>1, <1>2, <1>3 DEF Counters

\* A tick that does not wait has not been missed.
LEMMA ClockStep ==
  ASSUME TypeOK, ClockShape, Next
  PROVE  ClockShape'
<1>1. CASE TimePasses
  <2>1. since' = since + 1 \/ since' = 0
    BY <1>1, StepFacts, Wrap DEF TimePasses
  <2>2. ~due' => ~due /\ since' # 0
    BY <1>1 DEF TimePasses
  <2>3. ticked' = ticked /\ at' = at /\ age' \in Nat /\ age' <= age + 1 /\ (~ticked => age' = age)
    BY <1>1, StepFacts DEF TimePasses
  <2>4. ticked /\ ~due' => age' <= since'
    <3>1. ticked /\ ~due' => age <= since
      BY <2>2 DEF ClockShape
    <3> QED BY <2>1, <2>2, <2>3, <3>1, StepFacts
  <2> QED BY <2>3, <2>4 DEF ClockShape
<1>2. CASE StartTick
  <2>1. at' = "activeKV" /\ age' = 0 /\ ticked' /\ since' = since
    BY <1>2 DEF StartTick, Go
  <2>2. 0 <= since
    BY StepFacts
  <2> QED BY <2>1, <2>2 DEF ClockShape, Loop, Pings
<1>3. CASE ParseFlags \/ Connect \/ Configure
  <2>1. UNCHANGED <<age, ticked, since, due>> /\ at \notin Loop
    BY <1>3 DEF ParseFlags, Connect, Configure, heartbeat, ticker, Loop, Pings
  <2> QED BY <2>1 DEF ClockShape
<1>4. CASE Iteration /\ ~StartTick
  <2>1. UNCHANGED <<age, ticked, since, due>> /\ at \in Loop
    BY <1>4 DEF Iteration, KVPinged, ActiveProbed, SecondaryProbed, RequestDone, Attempted,
       BackoffOver, heartbeat, ticker, Loop, Pings
  <2>2. at' \in Loop
    BY <1>4 DEF Iteration, KVPinged, ActiveProbed, SecondaryProbed, RequestDone, Attempted,
       BackoffOver, Go, StartDelivery, Finish, Loop, Pings
  <2> QED BY <2>1, <2>2 DEF ClockShape
<1> QED BY <1>1, <1>2, <1>3, <1>4 DEF Next

-----------------------------------------------------------------------------
(* The delivery *)

LEMMA BudgetFacts ==
  ASSUME TypeOK
  PROVE  /\ cmd.probeTimeout \in Nat /\ cmd.webhookTimeout \in Nat /\ K8sTimeout \in Nat
         /\ LongestCalls \in Nat /\ LongestDelivery \in Nat
         /\ UsesK8s(cmd) => LongestCalls = MaxRequests(cmd) * K8sTimeout
<1>1. /\ cmd.probeTimeout \in Nat /\ cmd.webhookTimeout \in Nat /\ K8sTimeout \in Nat
      /\ MaxRequests(cmd) \in Nat /\ Attempts(cmd) \in Nat /\ cmd.retries \in Int
  BY CmdFacts, BudgetAssumption DEF TypeOK
<1>2. MaxRequests(cmd) * K8sTimeout \in Nat /\ Attempts(cmd) * cmd.webhookTimeout \in Nat
  BY <1>1, Times
<1>3. Backoffs(cmd.retries) \in Nat
  BY <1>1, BackoffsGrow
<1> QED BY <1>1, <1>2, <1>3 DEF LongestCalls, LongestDelivery

\* What the account of a delivery comes to, in time for the last attempt.
LEMMA DeliveryAccount ==
  ASSUME TypeOK, LoopShape, at \in {"post", "backoff"}
  PROVE  MostDelivered \in Nat /\ MostDelivered <= LongestDelivery
<1> DEFINE T == cmd.webhookTimeout
<1>1. /\ T \in Nat /\ attempt \in Nat /\ attempt > 0 /\ attempt <= Attempts(cmd) /\ spent \in Nat
      /\ Attempts(cmd) \in Nat /\ cmd.retries \in Int
      /\ \A n \in Nat : n < Attempts(cmd) => n <= cmd.retries \/ n = 0
  <2>1. /\ T \in Nat /\ Attempts(cmd) \in Nat \ {0} /\ cmd.retries \in Int
        /\ \A n \in Nat : n < Attempts(cmd) => n <= cmd.retries \/ n = 0
    BY CmdFacts DEF TypeOK
  <2> QED BY <2>1 DEF TypeOK, Counters, LoopShape
<1>2. PICK k \in Nat : k = attempt - 1
  BY <1>1
<1>3. /\ k * T \in Nat /\ attempt * T = k * T + T /\ attempt * T <= Attempts(cmd) * T
      /\ Attempts(cmd) * T \in Nat
  <2>1. attempt = k + 1
    BY <1>1, <1>2
  <2> QED BY <1>1, <2>1, Times
<1>4. Backoffs(k) \in Nat /\ Backoffs(k) <= Backoffs(cmd.retries) /\ Backoffs(cmd.retries) \in Nat
  BY <1>1, <1>2, BackoffsGrow
<1>5. CASE at = "post"
  <2>1. MostDelivered = k * T + Backoffs(k) + spent
    BY <1>2, <1>5 DEF MostDelivered
  <2>2. spent <= T
    BY <1>5, Limits DEF LoopShape, Loop
  <2> QED BY <1>1, <1>3, <1>4, <2>1, <2>2 DEF LongestDelivery
<1>6. CASE at = "backoff"
  <2>1. MostDelivered = attempt * T + Backoffs(k) + spent
    BY <1>2, <1>6 DEF MostDelivered
  <2>2. spent <= attempt /\ attempt < Attempts(cmd)
    BY <1>6, Limits DEF LoopShape, Loop
  <2>3. Backoffs(attempt) = Backoffs(k) + attempt
    <3>1. attempt = k + 1
      BY <1>1, <1>2
    <3> QED BY <3>1, BackoffSteps
  <2>4. Backoffs(attempt) <= Backoffs(cmd.retries)
    BY <1>1, <2>2, BackoffsGrow
  <2> QED BY <1>1, <1>3, <1>4, <2>1, <2>2, <2>3, <2>4 DEF LongestDelivery
<1> QED BY <1>5, <1>6

\* Time adds to the account what it takes, and a step of the delivery loses nothing.
LEMMA AccountStep ==
  ASSUME TypeOK, LoopShape, Next, cmd.webhookTimeout > 0
  PROVE  /\ TimePasses /\ at \in {"post", "backoff"} =>
              MostDelivered' = MostDelivered + 1 /\ spent' = spent + 1
         /\ Iteration /\ at \in {"post", "backoff"} /\ at' \in {"post", "backoff"} =>
              /\ MostDelivered <= MostDelivered' /\ MostDelivered' \in Nat
              /\ UNCHANGED <<age, delivering>>
         /\ at' = "post" /\ attempt' = 1 /\ spent' = 0 => MostDelivered' = 0
<1> DEFINE T == cmd.webhookTimeout
<1>1. /\ T \in Nat /\ attempt \in Nat /\ spent \in Nat /\ cmd' = cmd
      /\ at \in {"post", "backoff"} => attempt > 0
  <2>1. T \in Nat
    BY CmdFacts DEF TypeOK
  <2>2. cmd' = cmd
    BY StepFacts
  <2> QED BY <2>1, <2>2 DEF TypeOK, Counters, LoopShape
<1>2. ASSUME TimePasses, at \in {"post", "backoff"}
      PROVE  MostDelivered' = MostDelivered + 1 /\ spent' = spent + 1
  <2>1. spent' = spent + 1 /\ at' = at /\ attempt' = attempt
    <3>1. ~Unbounded
      BY <1>1, <1>2, Limits DEF Unbounded, Pings
    <3> QED BY <1>2, <3>1 DEF TimePasses
  <2>2. PICK b \in Nat : b = Backoffs(attempt - 1)
    BY <1>1, <1>2, BackoffSteps
  <2>3. PICK c \in Nat : c = (IF at = "backoff" THEN attempt ELSE attempt - 1) * T
    BY <1>1, <1>2, Times
  <2>4. MostDelivered = c + b + spent /\ MostDelivered' = c + b + spent'
    BY <1>1, <2>1, <2>2, <2>3 DEF MostDelivered
  <2> QED BY <1>1, <2>1, <2>4
<1>3. ASSUME Iteration, at \in {"post", "backoff"}, at' \in {"post", "backoff"}
      PROVE  /\ MostDelivered <= MostDelivered' /\ MostDelivered' \in Nat
             /\ UNCHANGED <<age, delivering>>
  <2>1. PICK k \in Nat : k = attempt - 1
    BY <1>1, <1>3
  <2>2. /\ k * T \in Nat /\ attempt * T \in Nat /\ attempt * T = k * T + T
        /\ Backoffs(k) \in Nat /\ Backoffs(attempt) = Backoffs(k) + attempt
    <3>1. attempt = k + 1
      BY <1>1, <2>1
    <3> QED BY <1>1, <3>1, Times, BackoffSteps
  <2>3. CASE at = "post"
    <3>1. at' = "backoff" /\ spent' = 0 /\ attempt' = attempt /\ UNCHANGED <<age, delivering>>
      BY <1>3, <2>3 DEF Iteration, StartTick, KVPinged, ActiveProbed, SecondaryProbed, RequestDone,
         Attempted, BackoffOver, Finish, Go, heartbeat, delivery
    <3>2. spent <= T
      BY <2>3, Limits DEF LoopShape, Loop
    <3>3. MostDelivered = k * T + Backoffs(k) + spent
      BY <2>1, <2>3 DEF MostDelivered
    <3>4. MostDelivered' = attempt * T + Backoffs(k) + 0
      BY <1>1, <2>1, <3>1 DEF MostDelivered
    <3> QED BY <1>1, <2>2, <3>1, <3>2, <3>3, <3>4
  <2>4. CASE at = "backoff"
    <3>1. /\ at' = "post" /\ spent' = 0 /\ attempt' = attempt + 1 /\ UNCHANGED <<age, delivering>>
          /\ spent = attempt
      BY <1>3, <2>4 DEF Iteration, StartTick, KVPinged, ActiveProbed, SecondaryProbed, RequestDone,
         Attempted, BackoffOver, Finish, Go, heartbeat, delivery, DefaultBackoff
    <3>2. MostDelivered = attempt * T + Backoffs(k) + spent
      BY <2>1, <2>4 DEF MostDelivered
    <3>3. attempt' - 1 = attempt
      BY <1>1, <3>1
    <3>4. MostDelivered' = attempt * T + Backoffs(attempt) + 0
      BY <1>1, <3>1, <3>3 DEF MostDelivered
    <3> QED BY <1>1, <2>2, <3>1, <3>2, <3>4
  <2> QED BY <1>3, <2>3, <2>4
<1>4. ASSUME at' = "post", attempt' = 1, spent' = 0 PROVE MostDelivered' = 0
  <2>1. 1 - 1 = 0 /\ 0 * T = 0 /\ Backoffs(0) = 0
    BY <1>1, BackoffSteps
  <2>2. MostDelivered' = (attempt' - 1) * T + Backoffs(attempt' - 1) + spent'
    BY <1>1, <1>4 DEF MostDelivered
  <2> QED BY <1>4, <2>1, <2>2
<1> QED BY <1>2, <1>3, <1>4

\* The time since the delivery began is within its account.
LEMMA DeliveredStep ==
  ASSUME TypeOK, LoopShape, Next, cmd.webhookTimeout > 0,
         attempt > 0 => delivering <= MostDelivered, attempt' > 0
  PROVE  delivering' <= MostDelivered'
<1>0. /\ delivering \in Nat /\ attempt \in Nat
      /\ attempt > 0 <=> at \in {"post", "backoff"}
      /\ at \in {"post", "backoff"} => MostDelivered \in Nat
  BY StepFacts, DeliveryAccount DEF LoopShape, TypeOK, Counters
<1>1. CASE TimePasses
  <2>1. delivering' <= delivering + 1 /\ attempt' = attempt
    BY <1>0, <1>1 DEF TimePasses
  <2>2. at \in {"post", "backoff"} /\ delivering <= MostDelivered
    BY <1>0, <2>1
  <2>3. MostDelivered' = MostDelivered + 1
    BY <1>1, <2>2, AccountStep
  <2>4. delivering' \in Nat
    BY TypeStep DEF TypeOK, Counters
  <2> QED BY <1>0, <2>1, <2>2, <2>3, <2>4
<1>2. CASE Iteration /\ at \in {"post", "backoff"}
  <2>1. at' \in {"post", "backoff"}
    BY <1>2, ShapeStep DEF LoopShape
  <2>2. MostDelivered <= MostDelivered' /\ MostDelivered' \in Nat /\ delivering' = delivering
    BY <1>2, <2>1, AccountStep
  <2> QED BY <1>0, <1>2, <2>2
<1>3. CASE ~TimePasses /\ ~(at \in {"post", "backoff"})
  <2>1. at' = "post" /\ attempt' = 1 /\ spent' = 0 /\ delivering' = 0
    <3>1. attempt = 0 /\ ~(attempt' = attempt)
      BY <1>0, <1>3 DEF LoopShape
    <3> QED BY <1>3, <3>1 DEF Next, ParseFlags, Connect, Configure, Iteration, StartTick, KVPinged,
         ActiveProbed, SecondaryProbed, RequestDone, Attempted, BackoffOver, Finish, StartDelivery,
         Go, delivery
  <2>2. MostDelivered' = 0
    BY <2>1, AccountStep
  <2> QED BY <2>1, <2>2
<1>4. ~(at \in {"post", "backoff"} /\ ~TimePasses /\ ~Iteration)
  BY DEF Next, ParseFlags, Connect, Configure
<1> QED BY <1>1, <1>2, <1>3, <1>4

-----------------------------------------------------------------------------
(* The iteration *)

\* The account of the time at each step of the loop.
LEMMA AgeAccount ==
  /\ at = "activeKV" => MostAge = spent
  /\ at = "activeCluster" => MostAge = cmd.probeTimeout + spent
  /\ at = "secondaryKV" => MostAge = 2 * cmd.probeTimeout + spent
  /\ at = "secondaryCluster" => MostAge = 3 * cmd.probeTimeout + spent
  /\ at = "k8s" => MostAge = 4 * cmd.probeTimeout + (MaxRequests(cmd) - requests) * K8sTimeout + spent
  /\ at \in {"post", "backoff"} => MostAge = 4 * cmd.probeTimeout + LongestCalls + MostDelivered
  /\ at = "idle" => MostAge = Window(cmd)
BY DEF MostAge

\* An iteration that fits the window: every account is within it.
LEMMA Fitting ==
  ASSUME TypeOK, LoopShape, WithinBudget, at \in Loop
  PROVE  /\ MostAge \in Int /\ MostAge <= Window(cmd)
         /\ at \in Pings => spent <= cmd.probeTimeout
         /\ at = "k8s" => spent <= K8sTimeout
<1>1. /\ cmd.probeTimeout \in Nat /\ K8sTimeout \in Nat /\ LongestCalls \in Nat
      /\ LongestDelivery \in Nat /\ Window(cmd) \in Nat /\ spent \in Nat
      /\ requests \in 0..MaxRequests(cmd) /\ MaxRequests(cmd) \in Nat
  BY BudgetFacts, CmdFacts DEF TypeOK, Counters
<1>2. /\ 4 * cmd.probeTimeout + LongestCalls <= Window(cmd)
      /\ UsesWebhook(cmd) => 4 * cmd.probeTimeout + LongestCalls + LongestDelivery <= Window(cmd)
  BY <1>1 DEF WithinBudget, LongestTick
<1>3. /\ at \in Pings => spent <= cmd.probeTimeout
      /\ at = "k8s" => spent <= K8sTimeout
  BY Limits DEF LoopShape, Loop, Pings
<1>4. CASE at \in Pings
  BY <1>1, <1>2, <1>3, <1>4, AgeAccount DEF Pings
<1>5. CASE at = "k8s"
  <2>1. PICK done \in Nat : done = MaxRequests(cmd) - requests
    BY <1>1
  <2>2. done + 1 <= MaxRequests(cmd) /\ UsesK8s(cmd)
    BY <1>1, <1>5, <2>1 DEF LoopShape
  <2>3. done * K8sTimeout \in Nat /\ done * K8sTimeout + K8sTimeout <= LongestCalls
    <3>1. (done + 1) * K8sTimeout = done * K8sTimeout + K8sTimeout /\ done * K8sTimeout \in Nat
      BY <1>1, Times
    <3>2. (done + 1) * K8sTimeout <= MaxRequests(cmd) * K8sTimeout
      BY <1>1, <2>2, Times
    <3> QED BY <2>2, <3>1, <3>2, BudgetFacts
  <2>4. MostAge = 4 * cmd.probeTimeout + done * K8sTimeout + spent
    BY <1>5, <2>1, AgeAccount
  <2> QED BY <1>1, <1>2, <1>3, <1>5, <2>3, <2>4
<1>6. CASE at \in {"post", "backoff"}
  <2>1. UsesWebhook(cmd)
    BY <1>6 DEF LoopShape
  <2> QED BY <1>1, <1>2, <1>3, <1>6, <2>1, DeliveryAccount, AgeAccount
<1>7. CASE at = "idle"
  BY <1>1, <1>7, <1>3, AgeAccount
<1> QED BY <1>4, <1>5, <1>6, <1>7 DEF Loop

\* Between two iterations the ticker keeps the heartbeat within the window.
LEMMA IdleStep ==
  ASSUME TypeOK, ClockShape, TimePasses, at = "idle"
  PROVE  age' <= MostAge'
<1>1. /\ cmd.interval \in Nat \ {0} /\ Window(cmd) = 3 * cmd.interval
      /\ age \in Nat /\ since \in 0..cmd.interval - 1 /\ spent \in Nat
  BY StepFacts DEF Next
<1>2. ~due
  BY <1>1, Limits DEF TimePasses, Unbounded, Pings
<1>3. age <= since
  BY <1>1, <1>2 DEF ClockShape
<1>4. age' <= age + 1 /\ age' \in Nat /\ at' = "idle" /\ cmd' = cmd
  BY <1>1 DEF TimePasses
<1>5. MostAge' = Window(cmd)
  BY <1>4 DEF MostAge, Pings
<1> QED BY <1>1, <1>3, <1>4, <1>5

\* A step of the loop keeps the heartbeat within the account of the iteration.
LEMMA AgeStep ==
  ASSUME TypeOK, LoopShape, ClockShape, Next, WithinBudget,
         at \in Loop => age <= MostAge, at' \in Loop
  PROVE  age' <= MostAge'
<1> DEFINE P == cmd.probeTimeout
           K == K8sTimeout
<1>0. /\ cmd' = cmd /\ P \in Nat /\ K \in Nat /\ P > 0 /\ age \in Nat /\ spent \in Nat
      /\ requests \in 0..MaxRequests(cmd) /\ MaxRequests(cmd) \in Nat /\ Window(cmd) \in Nat
      /\ LongestCalls \in Nat /\ (UsesK8s(cmd) => LongestCalls = MaxRequests(cmd) * K)
      /\ UsesWebhook(cmd) => cmd.webhookTimeout > 0
  BY StepFacts, BudgetFacts, CmdFacts DEF TypeOK, WithinBudget
<1>1. CASE TimePasses
  <2>1. CASE at = "idle"
    BY <1>1, <2>1, IdleStep
  <2>2. CASE at # "idle"
    <3>1. at \in Loop /\ at' = at /\ age' <= age + 1 /\ age' \in Nat /\ UNCHANGED <<cmd, requests, attempt>>
      BY <1>0, <1>1 DEF TimePasses
    <3>2. ~Unbounded
      BY <1>0, <2>2, Limits DEF Unbounded, Pings, LoopShape
    <3>3. spent' = spent + 1
      BY <1>1, <3>2 DEF TimePasses
    <3>4. MostAge' = MostAge + 1
      <4>1. CASE at \in Pings
        <5>1. \A j \in Int : j + (spent + 1) = (j + spent) + 1
          BY <1>0
        <5>2. PICK c \in Int : MostAge = c + spent /\ MostAge' = c + spent'
          <6>1. /\ at = "activeKV" => MostAge = 0 + spent /\ MostAge' = 0 + spent'
                /\ at = "activeCluster" => MostAge = P + spent /\ MostAge' = P + spent'
                /\ at = "secondaryKV" => MostAge = 2 * P + spent /\ MostAge' = 2 * P + spent'
                /\ at = "secondaryCluster" => MostAge = 3 * P + spent /\ MostAge' = 3 * P + spent'
            BY <1>0, <3>1, <3>3 DEF MostAge
          <6>2. 0 \in Int /\ P \in Int /\ 2 * P \in Int /\ 3 * P \in Int
            BY <1>0
          <6> QED BY <4>1, <6>1, <6>2 DEF Pings
        <5> QED BY <3>3, <5>1, <5>2
      <4>2. CASE at = "k8s"
        <5>1. PICK c \in Int : c = (MaxRequests(cmd) - requests) * K
          BY <1>0
        <5>2. MostAge = 4 * P + c + spent /\ MostAge' = 4 * P + c + spent'
          BY <3>1, <4>2, <5>1 DEF MostAge
        <5>3. \A d \in Int : d + (spent + 1) = (d + spent) + 1
          BY <1>0
        <5>4. 4 * P + c \in Int
          BY <1>0, <5>1
        <5> QED BY <3>3, <5>2, <5>3, <5>4
      <4>3. CASE at \in {"post", "backoff"}
        <5>1. MostDelivered' = MostDelivered + 1 /\ MostDelivered \in Nat
          BY <1>0, <1>1, <4>3, AccountStep, DeliveryAccount DEF LoopShape
        <5>2. LongestCalls' = LongestCalls
          BY <3>1 DEF LongestCalls
        <5>3. MostAge' = 4 * P + LongestCalls + MostDelivered'
          BY <3>1, <4>3, <5>2 DEF MostAge
        <5> QED BY <1>0, <4>3, <5>1, <5>3, AgeAccount
      <4> QED BY <2>2, <3>1, <4>1, <4>2, <4>3 DEF Loop
    <3>5. MostAge \in Int
      BY <3>1, Fitting
    <3> QED BY <1>0, <3>1, <3>4, <3>5
  <2> QED BY <2>1, <2>2
<1>2. CASE StartTick
  <2>1. at' = "activeKV" /\ age' = 0 /\ spent' = 0
    BY <1>2 DEF StartTick, Go
  <2>2. MostAge' = 0
    BY <2>1 DEF MostAge
  <2> QED BY <2>1, <2>2
<1>3. CASE ParseFlags \/ Connect \/ Configure
  <2>1. at' = "idle" /\ age' = 0
    BY <1>3 DEF ParseFlags, Connect, Configure, Go, Loop, Pings, heartbeat, ClockShape
  <2>2. MostAge' = Window(cmd)
    BY <1>0, <2>1 DEF MostAge, Pings
  <2> QED BY <1>0, <2>1, <2>2
<1>4. CASE Iteration /\ ~StartTick
  <2>1. at \in Loop /\ age' = age /\ (at' = "idle" \/ spent' = 0)
    BY <1>4 DEF Iteration, KVPinged, ActiveProbed, SecondaryProbed, RequestDone, Attempted,
       BackoffOver, Go, StartDelivery, Finish, Loop, Pings, heartbeat
  <2>2. age <= MostAge /\ MostAge <= Window(cmd) /\ MostAge \in Int
    BY <2>1, Fitting
  <2>3. CASE at' = "idle"
    <3>1. MostAge' = Window(cmd)
      BY <1>0, <2>3 DEF MostAge, Pings
    <3> QED BY <1>0, <2>1, <2>2, <3>1
  <2>4. CASE at' # "idle" /\ at \in Pings
    <3>1. /\ at \in Pings /\ spent <= P /\ spent' = 0
      BY <2>1, <2>4, Fitting
    <3>2. CASE at # "secondaryCluster"
      <4>1. \/ at = "activeKV" /\ at' = "activeCluster"
            \/ at = "activeCluster" /\ at' = "secondaryKV"
            \/ at = "secondaryKV" /\ at' = "secondaryCluster"
        BY <1>4, <2>4, <3>2 DEF Iteration, KVPinged, ActiveProbed, SecondaryProbed, RequestDone,
           Attempted, BackoffOver, Go, Pings
      <4>2. /\ at' = "activeCluster" => MostAge' = P
            /\ at' = "secondaryKV" => MostAge' = 2 * P
            /\ at' = "secondaryCluster" => MostAge' = 3 * P
        BY <1>0, <3>1 DEF MostAge, Pings
      <4> QED BY <1>0, <2>1, <2>2, <3>1, <4>1, <4>2, AgeAccount
    <3>3. CASE at = "secondaryCluster"
      <4>1. age <= 4 * P
        BY <1>0, <2>2, <3>1, <3>3, AgeAccount
      <4>2. CASE at' = "k8s"
        <5>1. requests' \in 0..MaxRequests(cmd)
          BY TypeStep, <1>0 DEF TypeOK, Counters
        <5>2. PICK n \in Nat : n = MaxRequests(cmd) - requests'
          BY <1>0, <5>1
        <5>3. n * K \in Nat
          BY <1>0, Times
        <5>4. MostAge' = 4 * P + n * K + 0
          BY <1>0, <3>1, <4>2, <5>2 DEF MostAge
        <5> QED BY <1>0, <2>1, <4>1, <5>3, <5>4
      <4>3. CASE at' = "post"
        <5>1. attempt' = 1 /\ spent' = 0 /\ LongestCalls' = LongestCalls /\ UsesWebhook(cmd)
          <6>1. attempt' = 1 /\ spent' = 0
            BY <1>4, <3>3, <4>3 DEF Iteration, StartTick, KVPinged, ActiveProbed, SecondaryProbed,
               RequestDone, Attempted, BackoffOver, Go, StartDelivery
          <6>2. LoopShape'
            BY ShapeStep
          <6>3. UsesWebhook(cmd)
            BY <1>0, <4>3, <6>2 DEF LoopShape
          <6> QED BY <1>0, <6>1, <6>3 DEF LongestCalls
        <5>2. MostDelivered' = 0
          BY <1>0, <4>3, <5>1, AccountStep
        <5>3. MostAge' = 4 * P + LongestCalls + 0
          BY <1>0, <4>3, <5>1, <5>2 DEF MostAge
        <5> QED BY <1>0, <2>1, <4>1, <5>3
      <4> QED BY <1>4, <2>4, <3>3, <4>2, <4>3 DEF Iteration, StartTick, KVPinged, ActiveProbed,
           SecondaryProbed, RequestDone, Attempted, BackoffOver, Go, StartDelivery
    <3> QED BY <3>2, <3>3
  <2>5. CASE at' # "idle" /\ at = "k8s"
    <3>1. /\ requests' = requests - 1 /\ spent' = 0 /\ spent <= K /\ UsesK8s(cmd) /\ requests > 0
          /\ \/ at' = "k8s"
             \/ at' = "post" /\ requests' = 0 /\ attempt' = 1
      <4>1. spent <= K /\ UsesK8s(cmd) /\ requests > 0
        BY <2>1, <2>5, Fitting DEF LoopShape
      <4>2. RequestDone
        BY <1>4, <2>5 DEF Iteration, StartTick, KVPinged, ActiveProbed, SecondaryProbed, Attempted,
           BackoffOver
      <4> QED BY <2>5, <4>1, <4>2 DEF RequestDone, Go, StartDelivery, Finish
    <3>2. PICK n \in Nat : n = MaxRequests(cmd) - requests
      BY <1>0
    <3>3. n * K \in Nat /\ (n + 1) * K = n * K + K
      BY <1>0, Times
    <3>4. age <= 4 * P + n * K + spent
      BY <2>2, <2>5, <3>2, AgeAccount
    <3>5. MaxRequests(cmd) - requests' = n + 1
      BY <1>0, <3>1, <3>2
    <3>6. CASE at' = "k8s"
      <4>1. MostAge' = 4 * P + (n + 1) * K + 0
        BY <1>0, <3>1, <3>5, <3>6 DEF MostAge
      <4> QED BY <1>0, <2>1, <3>1, <3>3, <3>4, <4>1
    <3>7. CASE at' = "post"
      <4>1. attempt' = 1 /\ requests' = 0 /\ UsesWebhook(cmd)
        <5>1. LoopShape'
          BY ShapeStep
        <5> QED BY <1>0, <3>1, <3>7, <5>1 DEF LoopShape
      <4>2. MostDelivered' = 0
        BY <1>0, <3>1, <3>7, <4>1, AccountStep
      <4>3. n + 1 = MaxRequests(cmd)
        BY <1>0, <3>5, <4>1
      <4>4. LongestCalls' = LongestCalls /\ LongestCalls = (n + 1) * K
        BY <1>0, <3>1, <4>3 DEF LongestCalls
      <4>5. MostAge' = 4 * P + LongestCalls + 0
        BY <1>0, <3>7, <4>2, <4>4 DEF MostAge
      <4> QED BY <1>0, <2>1, <3>1, <3>3, <3>4, <4>4, <4>5
    <3> QED BY <3>1, <3>6, <3>7
  <2>6. CASE at' # "idle" /\ at \in {"post", "backoff"}
    <3>1. at' \in {"post", "backoff"}
      BY <1>4, <2>6 DEF Iteration, StartTick, KVPinged, ActiveProbed, SecondaryProbed, RequestDone,
         Attempted, BackoffOver, Go, Finish
    <3>2. MostDelivered <= MostDelivered' /\ MostDelivered' \in Nat /\ MostDelivered \in Nat
      <4>1. cmd.webhookTimeout > 0
        BY <1>0, <2>6 DEF LoopShape
      <4> QED BY <1>4, <2>6, <3>1, <4>1, AccountStep, DeliveryAccount
    <3>3. LongestCalls' = LongestCalls
      BY <1>0 DEF LongestCalls
    <3>4. MostAge' = 4 * P + LongestCalls + MostDelivered'
      BY <1>0, <3>1, <3>3 DEF MostAge
    <3> QED BY <1>0, <2>1, <2>2, <2>6, <3>2, <3>4, AgeAccount
  <2>7. ~(at = "idle")
    BY <1>4 DEF Iteration, KVPinged, ActiveProbed, SecondaryProbed, RequestDone, Attempted, BackoffOver
  <2> QED BY <2>1, <2>3, <2>4, <2>5, <2>6, <2>7 DEF Loop
<1> QED BY <1>1, <1>2, <1>3, <1>4 DEF Next

-----------------------------------------------------------------------------
(* The invariant *)

LEMMA BudgetStep ==
  ASSUME BudgetInv, Next
  PROVE  BudgetInv'
<1> USE DEF BudgetInv
<1>1. TypeOK' /\ LoopShape' /\ ClockShape' /\ cmd' = cmd
  BY TypeStep, ShapeStep, ClockStep, StepFacts
<1>2. WithinBudget' = WithinBudget
  BY <1>1 DEF WithinBudget, LongestTick, LongestCalls, LongestDelivery
<1>3. WithinBudget' /\ at' \in Loop => age' <= MostAge'
  BY <1>2, AgeStep
<1>4. cmd'.webhookTimeout > 0 /\ attempt' > 0 => delivering' <= MostDelivered'
  BY <1>1, DeliveredStep
<1> QED BY <1>1, <1>3, <1>4

\* Nothing that the invariant is about has moved.
LEMMA BudgetSame ==
  ASSUME BudgetInv, UNCHANGED vars
  PROVE  BudgetInv'
<1> USE DEF vars, heartbeat, ticker, delivery, memory
<1>1. TypeOK'
  BY DEF BudgetInv, TypeOK, Counters, Flags
<1>2. Limit' = Limit
  BY DEF Limit
<1>3. LoopShape'
  BY <1>2 DEF BudgetInv, LoopShape
<1>4. ClockShape'
  BY DEF BudgetInv, ClockShape
<1>5. WithinBudget' = WithinBudget /\ MostDelivered' = MostDelivered
  BY DEF WithinBudget, LongestTick, LongestCalls, LongestDelivery, MostDelivered
<1>6. MostAge' = MostAge
  BY <1>5 DEF MostAge, LongestCalls
<1> QED BY <1>1, <1>3, <1>4, <1>5, <1>6 DEF BudgetInv

LEMMA SurfaceInitInv == SurfaceInit => SurfaceInv
<1> SUFFICES ASSUME SurfaceInit PROVE SurfaceInv
  OBVIOUS
<1>1. BudgetInv
  BY FreshInv DEF SurfaceInit, Init
<1> QED BY <1>1, ThresholdAssumption DEF SurfaceInit, SurfaceInv, RequestInv

\* A new process satisfies it, with the same command line.
LEMMA RestartedInv == BudgetInv /\ Restarted => BudgetInv'
<1> DEFINE Start == /\ cmd \in CommandLines /\ at = "parse" /\ spent = 0 /\ age = 0
                    /\ ticked = FALSE /\ since = 0 /\ due = FALSE /\ requests = 0 /\ attempt = 0
                    /\ delivering = 0 /\ firstEval = FALSE /\ switched = FALSE /\ active = "primary"
<1>1. Start => BudgetInv
  BY FreshInv
<1>2. BudgetInv /\ Restarted => Start'
  BY DEF Restarted, Fresh, BudgetInv, TypeOK
<1> HIDE DEF Start
<1> QED BY <1>1, <1>2, PTL

LEMMA SurfaceStep == SurfaceInv /\ [SurfaceNext]_surfaceVars => SurfaceInv'
<1> SUFFICES ASSUME SurfaceInv, [SurfaceNext]_surfaceVars PROVE SurfaceInv'
  OBVIOUS
<1> USE DEF SurfaceInv
<1>1. CASE Beside(Next)
  <2>1. BudgetInv' /\ misses' = misses
    BY <1>1, BudgetStep DEF Beside
  <2>2. RequestInv'
    BY <1>1 DEF Beside, NoRequest, RequestInv
  <2> QED BY <2>1, <2>2
<1>2. CASE RequestArrives
  <2>1. BudgetInv' /\ misses' = misses
    BY <1>2, BudgetSame DEF RequestArrives
  <2>2. RequestInv'
    BY <1>2 DEF RequestArrives, RequestInv
  <2> QED BY <2>1, <2>2
<1>3. CASE RequestPings
  <2>1. BudgetInv' /\ misses' = misses
    BY <1>3, BudgetSame DEF RequestPings
  <2>2. RequestInv'
    BY <1>3 DEF RequestPings, RequestInv, Pinged
  <2> QED BY <2>1, <2>2
<1>4. CASE LivenessProbe
  <2>1. CASE Restarted
    <3>1. RequestInv' /\ misses' = 0
      BY <2>1 DEF Restarted, NoRequest, RequestInv
    <3> QED BY <2>1, <3>1, RestartedInv, ThresholdAssumption
  <2>2. CASE ~Restarted
    <3>1. UNCHANGED <<vars, request>> /\ (misses' = 0 \/ (misses' = misses + 1 /\ misses + 1 < FailureThreshold))
      BY <1>4, <2>2 DEF LivenessProbe
    <3>2. BudgetInv' /\ RequestInv'
      BY <3>1, BudgetSame DEF request, RequestInv
    <3> QED BY <3>1, <3>2, ThresholdAssumption
  <2> QED BY <2>1, <2>2
<1>5. CASE StartAgain
  <2>1. RequestInv' /\ misses' = 0 /\ Restarted
    BY <1>5 DEF StartAgain, Restarted, NoRequest, RequestInv
  <2> QED BY <2>1, RestartedInv, ThresholdAssumption
<1>6. CASE UNCHANGED surfaceVars
  BY <1>6, BudgetSame DEF surfaceVars, request, RequestInv
<1> QED BY <1>1, <1>2, <1>3, <1>4, <1>5, <1>6 DEF SurfaceNext

-----------------------------------------------------------------------------
(* Theorems *)

\* The counters of the process, the clocks of its loop and the accounts of its time
\* keep their shape over every start, iteration and restart (main.go:71-359,
\* pkg/probes, pkg/notify/http.go).
THEOREM SurfaceInvariant == SurfaceSpec => []SurfaceInv
BY SurfaceInitInv, SurfaceStep, PTL DEF SurfaceSpec

\* ParseRefs keeps every target once and in the order of its first entry, for lists
\* of any length (refs.go:19-47).
THEOREM TargetsAreKept == SurfaceSpec => []TargetsAreFirstOccurrences
<1>1. TargetsAreFirstOccurrences
  BY ParseRefsKeeps, BudgetAssumption DEF TargetsAreFirstOccurrences
<1> QED BY <1>1, PTL

\* What ParseRefs returns for a list it does not refuse: names with both parts, none
\* of them twice.
LEMMA ParsedTargets ==
  ASSUME NEW list \in TargetLists, NEW defaultNS, ~ParseRefsFails(list, defaultNS),
         NEW j \in DOMAIN ParseRefs(list, defaultNS)
  PROVE  /\ ParseRefs(list, defaultNS)[j].ns # "" /\ ParseRefs(list, defaultNS)[j].name # ""
         /\ \A k \in DOMAIN ParseRefs(list, defaultNS) :
              j # k => ParseRefs(list, defaultNS)[j] # ParseRefs(list, defaultNS)[k]
<1> DEFINE refs    == ParseRefs(list, defaultNS)
           Targets == {Ref(list[k], defaultNS) : k \in {i \in DOMAIN list : list[i] # Blank}}
<1>1. /\ refs \in Seq(Targets)
      /\ \A i, k \in DOMAIN refs : refs[i] = refs[k] => i = k
  BY ParseRefsKeeps, BudgetAssumption
<1>2. ASSUME NEW k \in DOMAIN list, list[k] # Blank
      PROVE  Ref(list[k], defaultNS).ns # "" /\ Ref(list[k], defaultNS).name # ""
  BY <1>2 DEF ParseRefsFails, Malformed, Range
<1>3. \A t \in Targets : t.ns # "" /\ t.name # ""
  BY <1>2
<1> HIDE DEF refs, Targets
<1>4. refs[j] \in Targets
  BY <1>1 DEF refs
<1> QED BY <1>1, <1>3, <1>4 DEF refs

\* What runs can be run with, for every command line: startup refuses the rest, before
\* it connects to anything or before the loop begins (main.go:93-114, 227-236).
THEOREM OnlyUsableRuns == SurfaceSpec => []UsableOrRefused
<1>1. SurfaceInv => UsableOrRefused
  <2> SUFFICES ASSUME SurfaceInv PROVE UsableOrRefused
    OBVIOUS
  <2>1. LoopShape /\ cmd \in CommandLines
    BY DEF SurfaceInv, BudgetInv, TypeOK
  <2>2. ASSUME at \in Loop, UsesK8s(cmd)
        PROVE  /\ ConfigMaps(cmd) # <<>>
               /\ \A refs \in {ConfigMaps(cmd), Deployments(cmd)} : \A j, k \in DOMAIN refs :
                    /\ refs[j].ns # "" /\ refs[j].name # ""
                    /\ j # k => refs[j] # refs[k]
    <3>1. /\ ConfigMaps(cmd) # <<>>
          /\ ~ParseRefsFails(cmd.configMap, cmd.namespace)
          /\ ~ParseRefsFails(cmd.deployments, cmd.namespace)
      BY <2>1, <2>2 DEF LoopShape, TargetsRefused, ParseRefsRequiredFails, ConfigMaps
    <3>2. cmd.configMap \in TargetLists /\ cmd.deployments \in TargetLists
      BY <2>1, BudgetAssumption
    <3> QED BY <3>1, <3>2, ParsedTargets DEF ConfigMaps, Deployments
  <2>3. ASSUME at \notin {"parse", "exited"}
        PROVE  /\ Named(cmd.actuators) \subseteq {"k8s", "webhook"}
               /\ UsesWebhook(cmd) =>
                    /\ cmd.webhookURL # ""
                    /\ \A k \in DOMAIN resolveHeaders(cmd) : resolveHeaders(cmd)[k].key # ""
                    /\ cmd.webhookTLS.skipVerify \/ cmd.webhookTLS.ca \in {"", "good"}
    <3>1. ~ActuatorsRefused(cmd) /\ ~WebhookRefused(cmd)
      BY <2>1, <2>3 DEF LoopShape
    <3>2. Named(cmd.actuators) \subseteq {"k8s", "webhook"}
      <4>1. CASE cmd.actuators # Unset
        BY <3>1, <4>1 DEF ActuatorsRefused
      <4>2. CASE cmd.actuators = Unset
        <5>1. Range(<<"">>) = {""}
          <6>1. DOMAIN <<"">> = {1} /\ <<"">>[1] = ""
            OBVIOUS
          <6> QED BY <6>1 DEF Range
        <5> QED BY <4>2, <5>1 DEF Named, Unset
      <4> QED BY <4>1, <4>2
    <3>3. ASSUME UsesWebhook(cmd)
          PROVE  /\ cmd.webhookURL # ""
                 /\ \A k \in DOMAIN resolveHeaders(cmd) : resolveHeaders(cmd)[k].key # ""
      BY <3>1, <3>3 DEF WebhookRefused, ParseHeaderFails, Range
    <3>4. UsesWebhook(cmd) => cmd.webhookTLS.skipVerify \/ cmd.webhookTLS.ca \in {"", "good"}
      <4>1. cmd.webhookTLS \in TLSInputs
        BY <2>1, BudgetAssumption
      <4> QED BY <3>1, <4>1 DEF WebhookRefused, NewClientFails, TLSInputs
    <3> QED BY <3>2, <3>3, <3>4
  <2>4. at \in Loop => AnyActuator(cmd)
    BY <2>1 DEF LoopShape
  <2> QED BY <2>2, <2>3, <2>4 DEF UsableOrRefused
<1> QED BY <1>1, SurfaceInvariant, PTL

\* An iteration whose longest course fits three intervals never lets /healthz fail,
\* whatever the intervals, timeouts, retries and target lists are, and however late
\* its ticks come (main.go:116-120, 341-344, probes.go:43-57).
THEOREM FittingStaysFresh == SurfaceSpec => []FreshWithinBudget
<1>1. SurfaceInv => FreshWithinBudget
  <2> SUFFICES ASSUME SurfaceInv, WithinBudget, ticked PROVE ~(age > Window(cmd))
    BY DEF FreshWithinBudget, Stale
  <2>1. BudgetInv /\ at \in Loop /\ age \in Nat
    BY DEF SurfaceInv, BudgetInv, ClockShape, TypeOK, Counters
  <2>2. age <= MostAge /\ MostAge <= Window(cmd) /\ MostAge \in Int /\ Window(cmd) \in Nat
    BY <2>1, Fitting, CmdFacts DEF BudgetInv, TypeOK
  <2> QED BY <2>1, <2>2
<1> QED BY <1>1, SurfaceInvariant, PTL

\* A delivery is over within what startup adds up for it, for every timeout and every
\* number of retries (webhookflags.go:75-85, http.go:52-84).
THEOREM DeliveriesAreBounded == SurfaceSpec => []DeliveryWithinWorstCase
<1>1. SurfaceInv => DeliveryWithinWorstCase
  <2> SUFFICES ASSUME SurfaceInv, cmd.retries >= 0, cmd.webhookTimeout > 0
               PROVE  delivering <= webhookWorstCase(cmd)
    BY DEF DeliveryWithinWorstCase
  <2>1. BudgetInv /\ TypeOK /\ LoopShape /\ delivering \in Nat /\ attempt \in Nat
    BY DEF SurfaceInv, BudgetInv, TypeOK, Counters
  <2>2. cmd.retries \in Int /\ LongestDelivery \in Nat
    BY <2>1, CmdFacts, BudgetFacts DEF TypeOK
  <2>3. LongestDelivery = webhookWorstCase(cmd)
    <3>1. Attempts(cmd) = cmd.retries + 1
      BY <2>2 DEF Attempts
    <3> QED BY <3>1 DEF LongestDelivery, webhookWorstCase
  <2>4. CASE attempt > 0
    <3>1. at \in {"post", "backoff"} /\ delivering <= MostDelivered
      BY <2>1, <2>4 DEF LoopShape, BudgetInv
    <3>2. MostDelivered \in Nat /\ MostDelivered <= LongestDelivery
      BY <2>1, <3>1, DeliveryAccount
    <3> QED BY <2>1, <2>2, <2>3, <3>1, <3>2
  <2>5. CASE ~(attempt > 0)
    <3>1. delivering = 0
      BY <2>1, <2>5 DEF LoopShape
    <3> QED BY <2>2, <2>3, <3>1
  <2> QED BY <2>4, <2>5
<1> QED BY <1>1, SurfaceInvariant, PTL

\* An answer of /health/couchbase describes one cluster, one that the loop followed
\* at some time of the request (active.go:8-30).
THEOREM AnswersDescribeOneCluster == SurfaceSpec => OneClusterPerAnswer
<1> DEFINE Answered == reqAt = "cluster" /\ reqAt' = "none" =>
                         \A r, s \in reqSeen' : r = s /\ r \in reqDuring'
<1>1. SurfaceInv /\ SurfaceNext => Answered
  <2> SUFFICES ASSUME SurfaceInv, SurfaceNext, reqAt = "cluster", reqAt' = "none"
               PROVE  \A r, s \in reqSeen' : r = s /\ r \in reqDuring'
    OBVIOUS
  <2>1. reqSeen \subseteq {reqProber} /\ reqProber \in reqDuring
    BY DEF SurfaceInv, RequestInv
  <2>2. \/ reqSeen' = {}
        \/ reqSeen' \subseteq reqSeen \cup {reqProber} /\ reqDuring' = reqDuring
    BY DEF SurfaceNext, Beside, RequestArrives, RequestPings, Pinged, LivenessProbe, StartAgain,
       Restarted, NoRequest, request
  <2> QED BY <2>1, <2>2
<1>2. SurfaceInv /\ [SurfaceNext]_surfaceVars => [Answered]_surfaceVars
  BY <1>1
<1> QED BY <1>2, SurfaceInvariant, PTL DEF SurfaceSpec, OneClusterPerAnswer
=============================================================================
