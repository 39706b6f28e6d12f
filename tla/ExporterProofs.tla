--------------------------- MODULE ExporterProofs ----------------------------
(***************************************************************************)
(* Proofs about the health exporter (SensorHealth), for any intervals, scan*)
(* durations, durations of cycles and lengths of the averages, and about   *)
(* the SNMP responder (SnmpAgent).                                         *)
(*                                                                         *)
(* Readiness: behind a success the age can grow by the sleep, which lasts  *)
(* at most the interval, and by the next cycle; so three times the longer  *)
(* of interval and scan suffices for cycles of up to twice that.  The      *)
(* invariant says how much of this the age has used up in each phase.      *)
(*                                                                         *)
(* Scrapes: between its start and its mark a cycle is one ahead of the     *)
(* counter, and no snapshot is of a later cycle than the one that has begun.*)
(*                                                                         *)
(* Verdicts: as many of the latest entries of each average as its run      *)
(* counts are of the run's kind (Averages); a run as long as the window    *)
(* leaves no other entry, and the sum of the window is bounded by its      *)
(* entries (BoundsAdd, from the least-number principle).                   *)
(*                                                                         *)
(* SNMP (SnmpAgent), for any plain base, devices, rssi and values: an OID  *)
(* and an integer are read back as they were (OidRoundTrip, from the trace *)
(* of the decoding loop; IntegerRoundTrip, from the width in bits), OIDs   *)
(* are totally ordered, each GETNEXT adds to the rows up to the cursor     *)
(* just the one it answers (SuccessorAddsOne), and so a walk's answers are *)
(* these rows, each at its place (WalkListed).                             *)
(***************************************************************************)
EXTENDS SensorHealth, SnmpAgent, FiniteSets, FiniteSetTheorems, SequenceTheorems,
        WellFoundedInduction, TLAPS

Phases == {"sleep", "scan", "failing", "acquired", "replaced", "marked"}

Types ==
    /\ poll \in Nat /\ phase \in Phases
    /\ elapsed \in Nat /\ remaining \in Nat
    /\ age \in Nat \cup {None} /\ nominal \in Nat /\ horizon = 3 * nominal
    /\ total \in Nat /\ cycle \in Nat /\ devices \in Nat
    /\ page \in Nat \cup {None} /\ steady \in BOOLEAN

\* What the age has used up of the horizon.
AgeInPhase ==
    steady /\ age # None =>
    /\ phase = "sleep" => age + remaining <= nominal
    /\ phase = "scan" => age <= nominal
    /\ phase \in {"acquired", "replaced"} => age <= nominal + elapsed
    /\ phase = "marked" => age = 0

\* The cycles begun against those counted.
CyclesCounted ==
    /\ phase \in {"sleep", "marked"} => cycle = total
    /\ phase \notin {"sleep", "marked"} => cycle = total + 1
    /\ devices <= cycle

Inv == Types /\ AgeInPhase /\ CyclesCounted /\ PageIsCoherent

-----------------------------------------------------------------------------
\* The greater and the smaller of two numbers are what CHOOSE picks.
LEMMA MaxOfTwo ==
    ASSUME NEW a \in Nat, NEW b \in Nat
    PROVE  Max({a, b}) = IF a >= b THEN a ELSE b
<1> DEFINE m == IF a >= b THEN a ELSE b
<1>1. m \in {a, b} /\ \A y \in {a, b} : m >= y
  OBVIOUS
<1>2. \A x \in {a, b} : (\A y \in {a, b} : x >= y) => x = m
  OBVIOUS
<1> QED
  BY <1>1, <1>2 DEF Max

LEMMA MinOfTwo ==
    ASSUME NEW a \in Nat, NEW b \in Nat
    PROVE  Min({a, b}) = IF a =< b THEN a ELSE b
<1> DEFINE m == IF a =< b THEN a ELSE b
<1>1. m \in {a, b} /\ \A y \in {a, b} : m =< y
  OBVIOUS
<1>2. \A x \in {a, b} : (\A y \in {a, b} : x =< y) => x = m
  OBVIOUS
<1> QED
  BY <1>1, <1>2 DEF Min

\* Time only adds to the age, and never more than has passed.
LEMMA LaterAddsTime ==
    ASSUME Types, NEW time \in Nat
    PROVE  /\ Later(time) \in Nat \cup {None}
           /\ Later(time) = None <=> age = None
           /\ age # None => Later(time) <= age + time
<1>1. CASE age = None
  BY <1>1, HealthAssumption DEF Later
<1>2. CASE age # None
  <2>1. age \in Nat /\ horizon + 1 \in Nat /\ age + time \in Nat
    BY <1>2 DEF Types
  <2>2. Later(time) = IF age + time =< horizon + 1 THEN age + time ELSE horizon + 1
    BY <1>2, <2>1, MinOfTwo DEF Later
  <2> QED
    BY <1>2, <2>1, <2>2, HealthAssumption
<1> QED
  BY <1>1, <1>2

\* The horizon a process starts with is three times its nominal interval.
LEMMA HorizonIsThrice ==
    ASSUME poll \in Nat
    PROVE  /\ Max({poll, Scan}) \in Nat
           /\ Horizon = 3 * Max({poll, Scan})
<1>1. Scan \in Nat /\ 3 * poll \in Nat /\ 3 * Scan \in Nat
  BY HealthAssumption
<1>2. Max({poll, Scan}) = IF poll >= Scan THEN poll ELSE Scan
  BY <1>1, MaxOfTwo
<1>3. Horizon = IF 3 * poll >= 3 * Scan THEN 3 * poll ELSE 3 * Scan
  BY <1>1, MaxOfTwo DEF Horizon
<1> QED
  BY <1>1, <1>2, <1>3

LEMMA InitInv == Init => Inv
<1> SUFFICES ASSUME Init PROVE Inv
  OBVIOUS
<1>1. poll \in Nat
  BY HealthAssumption DEF Init
<1>2. Types
  BY <1>1, HorizonIsThrice DEF Init, Types, Phases
<1> QED
  BY <1>2, HealthAssumption DEF Init, Inv, AgeInPhase, CyclesCounted, PageIsCoherent

\* A step of any of the threads preserves the invariant.
LEMMA NextInv == Inv /\ [Next]_vars => Inv'
<1> SUFFICES ASSUME Inv, [Next]_vars PROVE Inv'
  OBVIOUS
<1> USE DEF Inv
<1>0. None \notin Nat /\ Polls \subseteq Nat /\ Durations \subseteq Nat
  BY HealthAssumption
<1>1. CASE Begin
  <2>1. /\ phase = "sleep" /\ phase' = "scan" /\ age' = Later(remaining)
        /\ cycle' = cycle + 1 /\ remaining' = 0
        /\ UNCHANGED <<poll, elapsed, nominal, horizon, total, devices, page, steady>>
    BY <1>1 DEF Begin, settings, exporter
  <2>2. remaining \in Nat
    BY DEF Types
  <2>3. Types'
    BY <2>1, <2>2, LaterAddsTime DEF Types, Phases
  <2>4. AgeInPhase'
    <3> SUFFICES ASSUME steady, age' # None PROVE age' <= nominal
      BY <2>1 DEF AgeInPhase
    <3>1. age # None /\ age' <= age + remaining
      BY <2>1, <2>2, LaterAddsTime
    <3> QED
      BY <2>1, <2>3, <3>1 DEF AgeInPhase, Types
  <2>5. CyclesCounted' /\ PageIsCoherent'
    BY <2>1, <1>0 DEF CyclesCounted, PageIsCoherent, Types
  <2> QED
    BY <2>3, <2>4, <2>5
<1>2. ASSUME NEW time \in Durations, Acquire(time) \/ AcquireFails(time)
      PROVE  Inv'
  <2>1. /\ phase = "scan" /\ phase' \in {"acquired", "failing"}
        /\ elapsed' = time /\ age' = Later(time)
        /\ UNCHANGED <<poll, remaining, nominal, horizon, total, cycle, devices,
                       page, steady>>
    BY <1>2 DEF Acquire, AcquireFails, Spend, settings, exporter, history
  <2>2. time \in Nat
    BY <1>0
  <2>3. Types'
    BY <2>1, <2>2, LaterAddsTime DEF Types, Phases
  <2>4. AgeInPhase'
    <3> SUFFICES ASSUME steady, age' # None PROVE age' <= nominal + time
      BY <2>1 DEF AgeInPhase
    <3>1. age # None /\ age' <= age + time
      BY <2>1, <2>2, LaterAddsTime
    <3> QED
      BY <2>1, <2>2, <2>3, <3>1 DEF AgeInPhase, Types
  <2>5. CyclesCounted' /\ PageIsCoherent'
    BY <2>1 DEF CyclesCounted, PageIsCoherent
  <2> QED
    BY <2>3, <2>4, <2>5
<1>3. CASE Replace
  <2>1. /\ phase = "acquired" /\ phase' = "replaced" /\ devices' = cycle
        /\ UNCHANGED <<poll, elapsed, remaining, age, nominal, horizon, total, cycle,
                       page, steady>>
    BY <1>3 DEF Replace, settings, exporter, history, counts
  <2> QED
    BY <2>1, <1>0 DEF Types, Phases, AgeInPhase, CyclesCounted, PageIsCoherent
<1>4. CASE MarkSuccess
  <2>1. /\ phase = "replaced" /\ phase' = "marked" /\ total' = total + 1 /\ age' = 0
        /\ UNCHANGED <<poll, elapsed, remaining, nominal, horizon, cycle, devices,
                       page, steady>>
    BY <1>4 DEF MarkSuccess, settings, exporter, history
  <2> QED
    BY <2>1, <1>0 DEF Types, Phases, AgeInPhase, CyclesCounted, PageIsCoherent
<1>5. CASE MarkFailure
  <2>1. /\ phase \in {"failing", "replaced"} /\ phase' = "marked"
        /\ total' = total + 1 /\ steady' = FALSE
        /\ UNCHANGED <<poll, elapsed, remaining, age, nominal, horizon, cycle, devices,
                       page>>
    BY <1>5 DEF MarkFailure, settings, exporter
  <2>2. Types'
    <3>1. steady' \in BOOLEAN
      BY <2>1, Zenon
    <3> QED
      BY <2>1, <3>1 DEF Types, Phases
  <2>3. AgeInPhase'
    BY <2>1 DEF AgeInPhase
  <2>4. CyclesCounted' /\ PageIsCoherent'
    BY <2>1 DEF CyclesCounted, PageIsCoherent, Types
  <2> QED
    BY <2>2, <2>3, <2>4
<1>6. CASE RecordTiming
  <2> DEFINE left == Max({0, poll - elapsed})
  <2>1. /\ phase = "marked" /\ phase' = "sleep" /\ remaining' = left /\ elapsed' = 0
        /\ steady' = (steady /\ Undisturbed)
        /\ UNCHANGED <<poll, age, nominal, horizon, total, cycle, devices, page>>
    BY <1>6 DEF RecordTiming, settings, exporter, counts
  <2>2. left \in Nat /\ left <= poll
    <3>1. poll \in Nat /\ elapsed \in Nat
      BY DEF Types
    <3>2. left = IF 0 >= poll - elapsed THEN 0 ELSE poll - elapsed
      <4> DEFINE m == IF 0 >= poll - elapsed THEN 0 ELSE poll - elapsed
      <4>1. m \in {0, poll - elapsed} /\ \A y \in {0, poll - elapsed} : m >= y
        BY <3>1
      <4>2. \A x \in {0, poll - elapsed} :
               (\A y \in {0, poll - elapsed} : x >= y) => x = m
        BY <3>1
      <4> QED
        BY <4>1, <4>2 DEF Max
    <3> QED
      BY <3>1, <3>2
  <2> HIDE DEF left
  <2>3. Types'
    BY <2>1, <2>2 DEF Types, Phases, Undisturbed
  <2>4. AgeInPhase'
    <3> SUFFICES ASSUME steady', age' # None PROVE age' + remaining' <= nominal'
      BY <2>1 DEF AgeInPhase
    <3>1. steady /\ poll <= nominal
      BY <2>1 DEF Undisturbed
    <3>2. age' = 0
      BY <2>1, <3>1 DEF AgeInPhase
    <3> QED
      BY <2>1, <2>2, <3>1, <3>2 DEF Types
  <2>5. CyclesCounted' /\ PageIsCoherent'
    BY <2>1 DEF CyclesCounted, PageIsCoherent
  <2> QED
    BY <2>3, <2>4, <2>5
<1>7. CASE SetPoll \/ SetAttempts
  <2>1. /\ poll' \in Nat
        /\ UNCHANGED <<phase, elapsed, remaining, age, nominal, horizon, total, cycle,
                       devices, page, steady>>
    BY <1>7, <1>0 DEF SetPoll, SetAttempts, bridgeVars, counts, exporter, Types
  <2> QED
    BY <2>1 DEF Types, AgeInPhase, CyclesCounted, PageIsCoherent
<1>8. CASE ReadSnapshot \/ ReadHealth
  <2>1. /\ page' = devices \/ page' = None
        /\ UNCHANGED <<poll, phase, elapsed, remaining, age, nominal, horizon, total,
                       cycle, devices, steady>>
    BY <1>8 DEF ReadSnapshot, ReadHealth, settings, bridgeVars, counts, history
  <2> QED
    BY <2>1, <1>0 DEF Types, AgeInPhase, CyclesCounted, PageIsCoherent
<1>9. CASE Restart
  <2>1. /\ phase' = "sleep" /\ elapsed' = 0 /\ remaining' = 0 /\ age' = None
        /\ devices' = 0 /\ total' = 0 /\ cycle' = 0 /\ page' = None /\ steady' = TRUE
        /\ horizon' = Horizon' /\ nominal' = Max({poll', Scan}) /\ poll' = poll
    BY <1>9 DEF Restart, settings, Horizon
  <2>2. nominal' \in Nat /\ horizon' = 3 * nominal'
    BY <2>1, HorizonIsThrice DEF Types, Horizon
  <2> QED
    BY <2>1, <2>2 DEF Types, Phases, AgeInPhase, CyclesCounted, PageIsCoherent
<1>10. CASE UNCHANGED vars
  BY <1>10 DEF vars, settings, bridgeVars, counts, exporter, history, Types, AgeInPhase,
               CyclesCounted, PageIsCoherent
<1> QED
  BY <1>1, <1>2, <1>3, <1>4, <1>5, <1>6, <1>7, <1>8, <1>9, <1>10 DEF Next, Work

LEMMA SpecInv == Spec => []Inv
  BY InitInv, NextInv, PTL DEF Spec

-----------------------------------------------------------------------------
\* The types that matter here, for every instance.
THEOREM WellTyped == Spec => []Types
<1>1. Inv => Types
  BY DEF Inv
<1> QED
  BY <1>1, SpecInv, PTL

\* For any interval and any scan duration, no probe after the first success finds a
\* gateway unready whose cycles all succeed within twice the interval it was started with
\* (cli.py:854, prometheus.py:114-116).
THEOREM StaysReady == Spec => []ReadyWhileSucceeding
<1>1. Inv => ReadyWhileSucceeding
  <2> SUFFICES ASSUME Inv, steady, phase # "failing", age # None,
                      phase = "sleep" \/ Undisturbed
               PROVE  age <= horizon
    BY DEF ReadyWhileSucceeding, Ready
  <2>1. /\ age \in Nat /\ nominal \in Nat /\ elapsed \in Nat /\ remaining \in Nat
        /\ horizon = 3 * nominal
        /\ phase \in {"sleep", "scan", "acquired", "replaced", "marked"}
    BY DEF Inv, Types, Phases
  <2>2. CASE phase \in {"acquired", "replaced"}
    <3>1. elapsed <= 2 * nominal
      BY <2>2 DEF Undisturbed
    <3> QED
      BY <2>1, <2>2, <3>1 DEF Inv, AgeInPhase
  <2>3. CASE phase \in {"sleep", "scan", "marked"}
    BY <2>1, <2>3 DEF Inv, AgeInPhase
  <2> QED
    BY <2>1, <2>2, <2>3
<1> QED
  BY <1>1, SpecInv, PTL

\* For any instance the sensors on a page are of no later cycle than the one that follows
\* its counters (prometheus.py:22-23, metrics.py:39-53).
THEOREM ScrapeIsCoherent == Spec => []PageIsCoherent
<1>1. Inv => PageIsCoherent
  BY DEF Inv
<1> QED
  BY <1>1, SpecInv, PTL

-----------------------------------------------------------------------------
(***************************************************************************)
(* The least-number principle: a nonempty set of naturals has a minimum.   *)
(***************************************************************************)
LEMMA LeastNat ==
  ASSUME NEW T, T \subseteq Nat, T # {}
  PROVE  \E m \in T : \A k \in T : m <= k
<1> DEFINE Segments == {0 .. n : n \in T}
<1>1. Segments \subseteq FiniteSubsetsOf(Nat)
  <2> SUFFICES ASSUME NEW n \in T PROVE 0 .. n \in FiniteSubsetsOf(Nat)
    OBVIOUS
  <2>1. n \in Nat
    OBVIOUS
  <2>2. IsFiniteSet(0 .. n)
    BY <2>1, FS_Interval
  <2>3. 0 .. n \subseteq Nat
    BY <2>1
  <2> QED BY <2>2, <2>3 DEF FiniteSubsetsOf
<1>2. Segments # {}
  OBVIOUS
<1>3. PICK x \in Segments :
          \A y \in Segments : ~ (<<y, x>> \in StrictSubsetOrdering(Nat))
  <2> HIDE DEF Segments
  <2> QED BY <1>1, <1>2, FS_StrictSubsetOrderingWellFounded, WFMin
<1>4. PICK m \in T : x = 0 .. m
  BY <1>3
<1>5. SUFFICES ASSUME NEW k \in T, k < m PROVE FALSE
  OBVIOUS
<1>6. k \in Nat /\ m \in Nat
  OBVIOUS
<1>7. 0 .. k \subseteq 0 .. m /\ 0 .. k # 0 .. m
  <2>1. m \in 0 .. m /\ m \notin 0 .. k
    BY <1>5, <1>6
  <2> QED BY <2>1, <1>5, <1>6
<1>8. <<0 .. k, 0 .. m>> \in StrictSubsetOrdering(Nat)
  <2>1. 0 .. k \in SUBSET Nat /\ 0 .. m \in SUBSET Nat
    BY <1>6
  <2> QED BY <2>1, <1>7 DEF StrictSubsetOrdering
<1> QED BY <1>3, <1>4, <1>8

(***************************************************************************)
(* Induction over 0 .. n, with the predicate given as the set where it     *)
(* holds.                                                                  *)
(***************************************************************************)
LEMMA IntervalInduction ==
  ASSUME NEW n \in Nat, NEW P,
         0 \in P,
         \A i \in 1 .. n : i - 1 \in P => i \in P
  PROVE  \A i \in 0 .. n : i \in P
<1> DEFINE Bad == {i \in 0 .. n : i \notin P}
<1>1. SUFFICES ASSUME Bad # {} PROVE FALSE
  OBVIOUS
<1>2. Bad \subseteq Nat
  OBVIOUS
<1>3. PICK m \in Bad : \A k \in Bad : m <= k
  <2> HIDE DEF Bad
  <2> QED BY <1>1, <1>2, LeastNat
<1>4. m # 0 /\ m \in 1 .. n
  OBVIOUS
<1>5. m - 1 \notin Bad /\ m - 1 \in 0 .. n
  BY <1>3, <1>4
<1> QED BY <1>4, <1>5

-----------------------------------------------------------------------------
(***************************************************************************)
(* The sum of a deque, bounded by what bounds each of its entries.         *)
(***************************************************************************)
IsSum(f, d, n) == f = [i \in 0 .. n |-> IF i = 0 THEN 0 ELSE f[i - 1] + d[i]]

\* The recursion for the sum of a deque defines a function.
LEMMA SumExists ==
  ASSUME NEW d, NEW n \in Nat
  PROVE  \E f : IsSum(f, d, n)
<1> DEFINE P == {k \in Nat : \E f : IsSum(f, d, k)}
<1>1. 0 \in P
  <2> DEFINE f == [i \in 0 .. 0 |-> 0]
  <2>1. f = [i \in 0 .. 0 |-> IF i = 0 THEN 0 ELSE f[i - 1] + d[i]]
    OBVIOUS
  <2> QED
    BY <2>1 DEF IsSum
<1>2. ASSUME NEW k \in 1 .. n, k - 1 \in P
      PROVE  k \in P
  <2>1. PICK g : IsSum(g, d, k - 1)
    BY <1>2
  <2> DEFINE f == [i \in 0 .. k |-> IF i = k THEN g[k - 1] + d[k] ELSE g[i]]
  <2>2. ASSUME NEW i \in 0 .. k
        PROVE  f[i] = IF i = 0 THEN 0 ELSE f[i - 1] + d[i]
    <3>1. CASE i = k
      BY <3>1
    <3>2. CASE i # k
      <4>1. i \in 0 .. k - 1 /\ (i # 0 => i - 1 \in 0 .. k - 1)
        BY <3>2
      <4>2. g[i] = IF i = 0 THEN 0 ELSE g[i - 1] + d[i]
        BY <2>1, <4>1 DEF IsSum
      <4>3. f[i] = g[i] /\ (i # 0 => f[i - 1] = g[i - 1])
        BY <3>2, <4>1
      <4> QED
        BY <4>2, <4>3
    <3> QED
      BY <3>1, <3>2
  <2>3. IsSum(f, d, k)
    <3>1. f = [i \in 0 .. k |-> f[i]]
      OBVIOUS
    <3> HIDE DEF f
    <3>2. [i \in 0 .. k |-> f[i]] = [i \in 0 .. k |-> IF i = 0 THEN 0 ELSE f[i - 1] + d[i]]
      BY <2>2
    <3> QED
      BY <3>1, <3>2 DEF IsSum
  <2> QED
    BY <2>3
<1>3. n \in P
  <2> HIDE DEF P
  <2> QED
    BY <1>1, <1>2, IntervalInduction
<1> QED
  BY <1>3

\* The partial sums of a deque and what they end in.
LEMMA PartialSums ==
  ASSUME NEW d \in Seq(Nat)
  PROVE  \E sum : /\ Total(d) = sum[Len(d)] /\ sum[0] = 0
                  /\ \A i \in 1 .. Len(d) : sum[i] = sum[i - 1] + d[i]
                  /\ \A i \in 0 .. Len(d) : sum[i] \in Nat
<1> DEFINE n == Len(d)
           sum == CHOOSE f : IsSum(f, d, n)
           P == {i \in Nat : sum[i] \in Nat}
<1>1. n \in Nat
  OBVIOUS
<1>2. Total(d) = sum[n]
  BY DEF Total, IsSum
<1>3. IsSum(sum, d, n)
  <2> HIDE DEF n
  <2> QED
    BY <1>1, SumExists
<1> HIDE DEF sum
<1>4. sum[0] = 0 /\ \A i \in 1 .. n : sum[i] = sum[i - 1] + d[i]
  BY <1>1, <1>3 DEF IsSum
<1>5. 0 \in P
  BY <1>4
<1>6. ASSUME NEW i \in 1 .. n, i - 1 \in P
      PROVE  i \in P
  BY <1>1, <1>4, <1>6
<1>7. \A i \in 0 .. n : i \in P
  <2> HIDE DEF P, n
  <2> QED
    BY <1>1, <1>5, <1>6, IntervalInduction
<1> QED
  BY <1>2, <1>4, <1>7

\* One entry more moves a bound.
LEMMA BoundsAdd ==
  ASSUME NEW i \in Nat, NEW sum \in Nat, NEW x \in Nat, NEW bound \in Nat
  PROVE  /\ i * bound <= 10 * sum /\ bound <= 10 * x => (i + 1) * bound <= 10 * (sum + x)
         /\ 10 * sum <= i * bound /\ 10 * x <= bound => 10 * (sum + x) <= (i + 1) * bound
<1>1. (i + 1) * bound = i * bound + bound
  OBVIOUS
<1>2. i * bound \in Nat
  OBVIOUS
<1> QED
  BY <1>1, <1>2

\* The tenfold is what polling_margin_status and internal_retry_status compare.
LEMMA TotalBounds ==
  ASSUME NEW d \in Seq(Nat), NEW bound \in Nat
  PROVE  /\ Total(d) \in Nat
         /\ (\A i \in 1 .. Len(d) : bound <= 10 * d[i]) => Len(d) * bound <= 10 * Total(d)
         /\ (\A i \in 1 .. Len(d) : 10 * d[i] <= bound) => 10 * Total(d) <= Len(d) * bound
<1> DEFINE n == Len(d)
<1>1. n \in Nat
  OBVIOUS
<1>2. PICK sum : /\ Total(d) = sum[n] /\ sum[0] = 0
                 /\ \A i \in 1 .. n : sum[i] = sum[i - 1] + d[i]
                 /\ \A i \in 0 .. n : sum[i] \in Nat
  BY PartialSums
<1> DEFINE Low == {i \in Nat : i * bound <= 10 * sum[i]}
           High == {i \in Nat : 10 * sum[i] <= i * bound}
<1>3. 0 \in Low /\ 0 \in High
  BY <1>2
<1>4. ASSUME NEW i \in 1 .. n
      PROVE  /\ bound <= 10 * d[i] /\ i - 1 \in Low => i \in Low
             /\ 10 * d[i] <= bound /\ i - 1 \in High => i \in High
  <2>1. /\ i - 1 \in Nat /\ i \in Nat /\ sum[i - 1] \in Nat /\ d[i] \in Nat /\ (i - 1) + 1 = i
        /\ sum[i] = sum[i - 1] + d[i]
    BY <1>1, <1>2
  <2>2. /\ (i - 1) * bound <= 10 * sum[i - 1] /\ bound <= 10 * d[i]
              => ((i - 1) + 1) * bound <= 10 * (sum[i - 1] + d[i])
        /\ 10 * sum[i - 1] <= (i - 1) * bound /\ 10 * d[i] <= bound
              => 10 * (sum[i - 1] + d[i]) <= ((i - 1) + 1) * bound
    BY <2>1, BoundsAdd
  <2> QED
    BY <2>1, <2>2
<1>5. ASSUME \A i \in 1 .. n : bound <= 10 * d[i]
      PROVE  n \in Low
  <2> HIDE DEF Low, n
  <2>1. \A i \in 0 .. n : i \in Low
    BY <1>1, <1>3, <1>4, <1>5, IntervalInduction
  <2> QED
    BY <1>1, <2>1
<1>6. ASSUME \A i \in 1 .. n : 10 * d[i] <= bound
      PROVE  n \in High
  <2> HIDE DEF High, n
  <2>1. \A i \in 0 .. n : i \in High
    BY <1>1, <1>3, <1>4, <1>6, IntervalInduction
  <2> QED
    BY <1>1, <2>1
<1> QED
  BY <1>1, <1>2, <1>5, <1>6

-----------------------------------------------------------------------------
(***************************************************************************)
(* The averages.  As long as cycles of one kind follow each other under    *)
(* one setting, the newest entries of the deque are theirs, one for each;  *)
(* once there are Window of them, nothing older is left in it.             *)
(***************************************************************************)
Latest(deque, run, alike) ==
    /\ deque \in Seq(Nat) /\ Len(deque) <= Window /\ run.count \in 0 .. Len(deque)
    /\ \A i \in Len(deque) - run.count + 1 .. Len(deque) : deque[i] \in alike

OfKind(kind) == {left \in Nat : Kind(left) = kind}
\* The retries of a run are set against the attempts that are configured.
Set ==
    /\ most = attempts - 1 /\ uses.kind \in {"none used", "all used"}
    /\ most > 0 \/ uses.kind = "none used"
UsedBy(kind) == IF kind = "none used" THEN {0} ELSE {most}

Averages ==
    /\ attempts \in Nat \ {0} /\ limit \in Nat /\ most \in Nat
    /\ Latest(idle, margins, OfKind(margins.kind))
    /\ margins.count = 0 \/ interval = poll
    /\ Latest(retries, uses, UsedBy(uses.kind))
    /\ uses.count = 0 \/ Set

LEMMA NothingLatest ==
  ASSUME NEW deque \in Seq(Nat), Len(deque) <= Window, NEW alike
  PROVE  Latest(deque, Nothing, alike)
<1>1. Len(deque) \in Nat /\ Nothing.count = 0
  BY DEF Nothing
<1> QED
  BY <1>1 DEF Latest

\* A full deque gives up its oldest entry.
LEMMA AppendsToBounded ==
  ASSUME NEW deque \in Seq(Nat), Len(deque) <= Window, NEW x \in Nat
  PROVE  LET longer == AppendBounded(deque, x)
             n == Len(longer)
         IN  /\ longer \in Seq(Nat) /\ n \in 1 .. Window /\ longer[n] = x
             /\ n = Len(deque) + 1 \/ (n = Len(deque) /\ n = Window)
             /\ \A i \in 1 .. n - 1 : longer[i] = deque[i + Len(deque) + 1 - n]
<1> DEFINE all == Append(deque, x)
<1>1. /\ all \in Seq(Nat) /\ Len(deque) \in Nat /\ Len(all) = Len(deque) + 1
      /\ all[Len(all)] = x /\ \A i \in 1 .. Len(deque) : all[i] = deque[i]
      /\ Window \in Nat \ {0}
  BY HealthAssumption
<1>2. AppendBounded(deque, x) = IF Len(all) > Window THEN Tail(all) ELSE all
  BY DEF AppendBounded
<1> HIDE DEF all
<1>3. CASE Len(all) > Window
  <2>1. Len(deque) = Window /\ AppendBounded(deque, x) = Tail(all) /\ all # <<>>
    BY <1>1, <1>2, <1>3
  <2>2. /\ Tail(all) \in Seq(Nat) /\ Len(Tail(all)) = Len(deque)
        /\ \A i \in 1 .. Len(deque) : Tail(all)[i] = all[i + 1]
    BY <1>1, <2>1, HeadTailProperties
  <2>3. Tail(all)[Len(deque)] = x
    BY <1>1, <2>1, <2>2
  <2>4. ASSUME NEW i \in 1 .. Len(deque) - 1
        PROVE  Tail(all)[i] = deque[i + Len(deque) + 1 - Len(deque)]
    <3>1. i + Len(deque) + 1 - Len(deque) = i + 1 /\ i + 1 \in 1 .. Len(deque)
          /\ i \in 1 .. Len(deque)
      BY <1>1
    <3> QED
      BY <1>1, <2>2, <3>1
  <2> QED
    BY <1>1, <2>1, <2>2, <2>3, <2>4
<1>4. CASE ~(Len(all) > Window)
  <2>1. AppendBounded(deque, x) = all /\ Len(all) \in 1 .. Window
    BY <1>1, <1>2, <1>4
  <2>2. ASSUME NEW i \in 1 .. Len(all) - 1
        PROVE  all[i] = deque[i + Len(deque) + 1 - Len(all)]
    <3>1. i + Len(deque) + 1 - Len(all) = i /\ i \in 1 .. Len(deque)
      BY <1>1
    <3> QED
      BY <1>1, <3>1
  <2> QED
    BY <1>1, <2>1, <2>2
<1> QED
  BY <1>3, <1>4

\* A run goes on, or begins anew, with the entry that is appended.
LEMMA RunExtends ==
  ASSUME NEW deque, NEW run, NEW old, Latest(deque, run, old),
         NEW kind, NEW alike, run.kind = kind /\ run.count # 0 => old \subseteq alike,
         NEW x \in Nat, x \in alike
  PROVE  /\ Latest(AppendBounded(deque, x), Extend(run, kind), alike)
         /\ Extend(run, kind).kind = kind
<1> DEFINE longer == AppendBounded(deque, x)
           n == Len(longer)
           count == Extend(run, kind).count
<1>1. deque \in Seq(Nat) /\ Len(deque) <= Window /\ run.count \in 0 .. Len(deque)
      /\ Window \in Nat \ {0} /\ Len(deque) \in Nat
  BY HealthAssumption DEF Latest
<1>2. /\ longer \in Seq(Nat) /\ n \in 1 .. Window /\ longer[n] = x
      /\ n = Len(deque) + 1 \/ (n = Len(deque) /\ n = Window)
      /\ \A i \in 1 .. n - 1 : longer[i] = deque[i + Len(deque) + 1 - n]
  BY <1>1, AppendsToBounded
<1>3. Extend(run, kind).kind = kind
  BY DEF Extend
<1>4. count = 1 \/ (run.kind = kind /\ count <= run.count + 1 /\ count \in 1 .. Window)
  <2>1. CASE run.kind # kind
    BY <2>1 DEF Extend
  <2>2. CASE run.kind = kind
    <3>1. Min({Window, run.count + 1}) = IF Window =< run.count + 1 THEN Window ELSE run.count + 1
      BY <1>1, MinOfTwo
    <3>2. count = Min({Window, run.count + 1})
      BY <2>2 DEF Extend
    <3> QED
      BY <1>1, <2>2, <3>1, <3>2
  <2> QED
    BY <2>1, <2>2
<1> HIDE DEF longer, count
<1>5. count \in 0 .. n
  BY <1>1, <1>2, <1>4
<1>6. n \in Nat /\ count \in Nat /\ run.count \in Nat /\ count <= n
  BY <1>1, <1>2, <1>5
<1> HIDE DEF n
<1>7. ASSUME NEW i \in n - count + 1 .. n
      PROVE  longer[i] \in alike
  <2>1. CASE i = n
    BY <1>2, <2>1 DEF n
  <2>2. CASE i # n
    <3> DEFINE j == i + Len(deque) + 1 - n
    <3>1. i \in 1 .. n - 1 /\ count # 1
      BY <1>6, <2>2
    <3>2. run.kind = kind /\ count <= run.count + 1 /\ run.count > 0
      BY <1>4, <1>6, <3>1
    <3>3. n = Len(deque) + 1 \/ n = Len(deque)
      BY <1>2 DEF n
    <3>4. j \in Len(deque) - run.count + 1 .. Len(deque)
      BY <1>1, <1>6, <3>1, <3>2, <3>3
    <3>5. longer[i] = deque[j]
      BY <1>2, <3>1 DEF n
    <3> QED
      BY <3>2, <3>4, <3>5 DEF Latest
  <2> QED
    BY <2>1, <2>2
<1> QED
  BY <1>2, <1>3, <1>5, <1>7 DEF Latest, longer, count, n

\* What the settings, the bridge and the scrapes leave alone.
LEMMA KeepsIdle ==
  ASSUME Averages, UNCHANGED <<poll, idle, interval, margins>>
  PROVE  Latest(idle, margins, OfKind(margins.kind))' /\ (margins.count = 0 \/ interval = poll)'
  BY DEF Averages, Latest, OfKind, Kind

LEMMA KeepsRetries ==
  ASSUME Averages, UNCHANGED <<attempts, retries, most, uses>>
  PROVE  /\ Latest(retries, uses, UsedBy(uses.kind))'
         /\ (uses.count = 0 \/ Set)'
  BY DEF Averages, Latest, UsedBy, Set

LEMMA InitAverages == Init => Averages
<1> SUFFICES ASSUME Init PROVE Averages
  OBVIOUS
<1>1. /\ <<>> \in Seq(Nat) /\ Len(<<>>) <= Window /\ Nothing.count = 0
      /\ attempts \in Nat \ {0}
  BY HealthAssumption DEF Nothing, Init
<1>2. /\ idle = <<>> /\ retries = <<>> /\ margins = Nothing /\ uses = Nothing
      /\ limit = 0 /\ most = 0
  BY DEF Init
<1>3. /\ Latest(<<>>, Nothing, OfKind(Nothing.kind)) /\ Latest(<<>>, Nothing, UsedBy(Nothing.kind))
  BY <1>1, NothingLatest
<1> QED
  BY <1>1, <1>2, <1>3 DEF Averages

\* A step of any of the threads preserves it.
LEMMA NextAverages == Inv /\ Averages /\ [Next]_vars => Averages'
<1> SUFFICES ASSUME Inv, Averages, [Next]_vars PROVE Averages'
  OBVIOUS
<1>1. /\ attempts \in Nat \ {0} /\ limit \in Nat /\ most \in Nat
      /\ idle \in Seq(Nat) /\ Len(idle) <= Window /\ retries \in Seq(Nat) /\ Len(retries) <= Window
      /\ poll \in Nat /\ elapsed \in Nat /\ Nothing.count = 0
  BY DEF Averages, Latest, Inv, Types, Nothing
<1>2. CASE Begin
  <2>1. limit' = attempts - 1
        /\ UNCHANGED <<poll, attempts, idle, interval, retries, most, margins, uses>>
    BY <1>2 DEF Begin, settings, timing, retrying
  <2>2. attempts' \in Nat \ {0} /\ limit' \in Nat /\ most' \in Nat
    BY <1>1, <2>1
  <2> QED
    BY <2>1, <2>2, KeepsIdle, KeepsRetries DEF Averages
<1>3. ASSUME NEW time, Acquire(time)
      PROVE  Averages'
  <2>1. PICK used \in 0 .. limit :
          /\ retries' = AppendBounded(retries, used)
          /\ uses' = IF limit # most' \/ used \notin {0, most'} THEN Nothing
                     ELSE Extend(uses, IF used = 0 THEN "none used" ELSE "all used")
    BY <1>3 DEF Acquire
  <2>2. retries' = AppendBounded(retries, used)
    BY <2>1, Zenon
  <2>3. /\ most' = attempts - 1
        /\ UNCHANGED <<poll, attempts, limit, idle, interval, margins>>
    BY <1>3 DEF Acquire, settings, timing
  <2>4. most' \in Nat /\ used \in Nat
    BY <1>1, <2>3
  <2>5. retries' \in Seq(Nat) /\ Len(retries') <= Window
    <3>1. /\ AppendBounded(retries, used) \in Seq(Nat)
          /\ Len(AppendBounded(retries, used)) \in 1 .. Window
      BY <1>1, <2>4, AppendsToBounded
    <3> QED
      BY <2>2, <3>1, HealthAssumption
  <2>6. Latest(retries, uses, UsedBy(uses.kind))
    BY DEF Averages
  <2>7. ASSUME NEW kind, NEW alike, used \in alike,
               uses.kind = kind /\ uses.count # 0 => UsedBy(uses.kind) \subseteq alike
        PROVE  /\ Latest(AppendBounded(retries, used), Extend(uses, kind), alike)
               /\ Extend(uses, kind).kind = kind
    BY <2>4, <2>6, <2>7, RunExtends
  <2>8. used # 0 /\ used = most' => most' > 0
    BY <2>4
  <2>9. Latest(retries', uses', UsedBy(uses.kind)') /\ (uses'.count = 0 \/ Set')
    <3>1. CASE uses' = Nothing
      <4>1. Latest(retries', Nothing, UsedBy(uses.kind)')
        BY <2>5, NothingLatest
      <4> QED
        BY <1>1, <3>1, <4>1
    <3>2. CASE used = 0 /\ uses' = Extend(uses, "none used")
      <4>1. uses.kind = "none used" /\ uses.count # 0 => UsedBy(uses.kind) \subseteq {0}
        BY DEF UsedBy
      <4>2. /\ Latest(AppendBounded(retries, used), Extend(uses, "none used"), {0})
            /\ Extend(uses, "none used").kind = "none used"
        <5>1. used \in {0}
          BY <3>2
        <5> QED
          BY <2>7, <4>1, <5>1, Zenon
      <4>3. UsedBy(uses.kind)' = {0}
        BY <3>2, <4>2 DEF UsedBy
      <4>4. Set'
        BY <2>3, <3>2, <4>2 DEF Set
      <4> QED
        BY <2>2, <3>2, <4>2, <4>3, <4>4
    <3>3. CASE used # 0 /\ used = most' /\ uses' = Extend(uses, "all used")
      <4>1. uses.kind = "all used" /\ uses.count # 0 => UsedBy(uses.kind) \subseteq {most'}
        BY <2>3 DEF Averages, UsedBy, Set
      <4>2. /\ Latest(AppendBounded(retries, used), Extend(uses, "all used"), {most'})
            /\ Extend(uses, "all used").kind = "all used"
        <5>1. used \in {most'}
          BY <3>3
        <5> QED
          BY <2>7, <4>1, <5>1, Zenon
      <4>3. UsedBy(uses.kind)' = {most'}
        BY <3>3, <4>2 DEF UsedBy
      <4>4. Set'
        BY <2>3, <2>8, <3>3, <4>2, Zenon DEF Set
      <4> QED
        BY <2>2, <3>3, <4>2, <4>3, <4>4
    <3>4. \/ uses' = Nothing
          \/ used = 0 /\ uses' = Extend(uses, "none used")
          \/ used # 0 /\ used = most' /\ uses' = Extend(uses, "all used")
      BY <2>1
    <3> QED
      BY <3>1, <3>2, <3>3, <3>4
  <2>10. Latest(idle, margins, OfKind(margins.kind))' /\ (margins.count = 0 \/ interval = poll)'
    BY <2>3, KeepsIdle
  <2>11. Latest(retries, uses, UsedBy(uses.kind))'
    BY <2>9 DEF Latest
  <2> QED
    BY <1>1, <2>3, <2>4, <2>9, <2>10, <2>11 DEF Averages
<1>4. CASE RecordTiming
  <2> DEFINE left == Max({0, poll - elapsed})
  <2>1. /\ idle' = AppendBounded(idle, left) /\ margins' = Extend(margins, Kind(left))
        /\ interval' = poll /\ limit' = 0 /\ UNCHANGED <<poll, attempts, retries, most, uses>>
    BY <1>4 DEF RecordTiming, settings, retrying
  <2>2. left \in Nat
    <3> DEFINE m == IF 0 >= poll - elapsed THEN 0 ELSE poll - elapsed
    <3>1. /\ m \in {0, poll - elapsed} /\ m \in Nat
          /\ \A y \in {0, poll - elapsed} : m >= y
      BY <1>1
    <3>2. \A x \in {0, poll - elapsed} :
             (\A y \in {0, poll - elapsed} : x >= y) => x = m
      BY <1>1
    <3> QED
      BY <3>1, <3>2 DEF Max
  <2> HIDE DEF left
  <2>3. Latest(idle', margins', OfKind(Kind(left))) /\ margins'.kind = Kind(left)
    <3>1. Latest(idle, margins, OfKind(margins.kind)) /\ left \in OfKind(Kind(left))
      BY <2>2 DEF Averages, OfKind
    <3> QED
      BY <2>1, <2>2, <3>1, RunExtends
  <2>4. Latest(idle, margins, OfKind(margins.kind))'
    BY <2>1, <2>3 DEF Latest, OfKind, Kind
  <2>5. most' \in Nat /\ attempts' \in Nat \ {0} /\ limit' \in Nat
    BY <1>1, <2>1
  <2> QED
    BY <2>1, <2>4, <2>5, KeepsRetries DEF Averages
<1>5. CASE SetPoll
  <2>1. margins' = Nothing /\ UNCHANGED <<attempts, limit, idle, interval, retries, most, uses>>
    BY <1>5 DEF SetPoll, bridgeVars, timing, retrying
  <2>2. Latest(idle, Nothing, OfKind(margins.kind)')
    BY <1>1, NothingLatest
  <2>3. Latest(idle, margins, OfKind(margins.kind))' /\ margins'.count = 0
    BY <1>1, <2>1, <2>2
  <2>4. most' \in Nat /\ attempts' \in Nat \ {0} /\ limit' \in Nat
    BY <1>1, <2>1
  <2> QED
    BY <2>1, <2>3, <2>4, KeepsRetries DEF Averages
<1>6. CASE SetAttempts
  <2>1. /\ uses' = Nothing /\ attempts' \in Attempts
        /\ UNCHANGED <<poll, limit, idle, interval, retries, most, margins>>
    BY <1>6 DEF SetAttempts, bridgeVars, timing, retrying
  <2>2. Latest(retries, Nothing, UsedBy(uses.kind)')
    BY <1>1, NothingLatest
  <2>3. Latest(retries, uses, UsedBy(uses.kind))' /\ uses'.count = 0
    BY <1>1, <2>1, <2>2
  <2>4. most' \in Nat /\ attempts' \in Nat \ {0} /\ limit' \in Nat
    BY <1>1, <2>1, HealthAssumption
  <2> QED
    BY <2>1, <2>3, <2>4, KeepsIdle DEF Averages
<1>7. CASE Restart
  <2>1. /\ idle' = <<>> /\ retries' = <<>> /\ margins' = Nothing /\ uses' = Nothing
        /\ limit' = 0 /\ most' = 0 /\ attempts' = attempts
    BY <1>7 DEF Restart, settings
  <2>2. <<>> \in Seq(Nat) /\ Len(<<>>) <= Window
    BY HealthAssumption
  <2>3. Latest(<<>>, Nothing, OfKind(margins.kind)') /\ Latest(<<>>, Nothing, UsedBy(uses.kind)')
    BY <2>2, NothingLatest
  <2>4. Latest(idle, margins, OfKind(margins.kind))' /\ Latest(retries, uses, UsedBy(uses.kind))'
    BY <2>1, <2>3
  <2> QED
    BY <1>1, <2>1, <2>4 DEF Averages
<1>8. CASE \/ Replace \/ MarkSuccess \/ MarkFailure \/ ReadSnapshot \/ ReadHealth
           \/ UNCHANGED vars \/ \E time : AcquireFails(time)
  <2>1. UNCHANGED <<poll, attempts, limit, idle, interval, retries, most, margins, uses>>
    BY <1>8 DEF Replace, MarkSuccess, MarkFailure, ReadSnapshot, ReadHealth, AcquireFails, vars,
                settings, bridgeVars, timing, retrying, history
  <2>2. most' \in Nat /\ attempts' \in Nat \ {0} /\ limit' \in Nat
    BY <1>1, <2>1
  <2> QED
    BY <2>1, <2>2, KeepsIdle, KeepsRetries DEF Averages
<1> QED
  BY <1>2, <1>3, <1>4, <1>5, <1>6, <1>7, <1>8 DEF Next, Work

-----------------------------------------------------------------------------
\* Window entries of one kind make the verdict of that kind.
LEMMA MarginsFollow ==
  ASSUME Inv, Averages, margins.count = Window
  PROVE  MarginStatus = CASE margins.kind = "overran" -> "insufficient"
                          [] margins.kind = "little"  -> "tight"
                          [] margins.kind = "ample"   -> "sufficient"
<1> DEFINE n == Len(idle)
<1>1. /\ idle \in Seq(Nat) /\ n = Window /\ n \in Nat \ {0} /\ idle # <<>>
      /\ interval = poll /\ poll \in Nat
      /\ \A i \in 1 .. n : idle[i] \in Nat /\ Kind(idle[i]) = margins.kind
  <2>1. /\ idle \in Seq(Nat) /\ n <= Window /\ Window \in 0 .. n /\ Window \in Nat \ {0}
        /\ \A i \in n - Window + 1 .. n : idle[i] \in OfKind(margins.kind)
        /\ interval = poll
    BY HealthAssumption DEF Averages, Latest
  <2>2. n = Window /\ n \in Nat \ {0} /\ n - Window + 1 = 1 /\ idle # <<>>
    BY <2>1
  <2> QED
    BY <2>1, <2>2 DEF OfKind, Inv, Types
<1> HIDE DEF n
<1>2. CASE margins.kind = "overran"
  <2>1. \A i \in 1 .. n : 10 * idle[i] <= 0
    <3> SUFFICES ASSUME NEW i \in 1 .. n PROVE idle[i] = 0
      OBVIOUS
    <3> QED
      BY <1>1, <1>2 DEF Kind
  <2>2. Total(idle) \in Nat /\ 10 * Total(idle) <= n * 0
    BY <1>1, <2>1, TotalBounds DEF n
  <2>3. Total(idle) = 0
    BY <1>1, <2>2
  <2>4. MarginStatus = "insufficient"
    BY <1>1, <2>3 DEF MarginStatus
  <2> QED
    BY <1>2, <2>4
<1>3. CASE margins.kind = "little"
  <2>1. poll \in Nat \ {0} /\ \A i \in 1 .. n : 10 <= 10 * idle[i] /\ 10 * idle[i] <= poll - 1
    <3>1. ASSUME NEW i \in 1 .. n PROVE idle[i] > 0 /\ 10 * idle[i] < poll
      BY <1>1, <1>3 DEF Kind
    <3>2. 1 \in 1 .. n /\ \A i \in 1 .. n : idle[i] \in Nat
      BY <1>1
    <3> QED
      BY <1>1, <3>1, <3>2
  <2>2. /\ Total(idle) \in Nat /\ n * 10 <= 10 * Total(idle)
        /\ 10 * Total(idle) <= n * (poll - 1)
    BY <1>1, <2>1, TotalBounds DEF n
  <2>3. n * (poll - 1) = n * poll - n /\ n * poll \in Nat
    BY <1>1
  <2>4. Total(idle) > 0 /\ 10 * Total(idle) < n * interval
    BY <1>1, <2>2, <2>3
  <2>5. MarginStatus = "tight"
    <3>1. Total(idle) # 0
      BY <2>2, <2>4
    <3> QED
      BY <1>1, <2>4, <3>1, Zenon DEF MarginStatus, n
  <2> QED
    BY <1>3, <2>5
<1>4. CASE margins.kind = "ample"
  <2>1. \A i \in 1 .. n : idle[i] \in Nat /\ idle[i] # 0 /\ 10 * idle[i] >= poll
    BY <1>1, <1>4 DEF Kind
  <2>2. PICK lo \in Nat : lo >= poll /\ lo > 0 /\ \A i \in 1 .. n : lo <= 10 * idle[i]
    <3>1. CASE poll = 0
      <4>1. \A i \in 1 .. n : 1 <= 10 * idle[i]
        BY <2>1
      <4> QED
        BY <3>1, <4>1
    <3>2. CASE poll # 0
      <4>1. poll \in Nat /\ poll >= poll /\ poll > 0
        BY <1>1, <3>2
      <4>2. \A i \in 1 .. n : poll <= 10 * idle[i]
        BY <1>1, <2>1
      <4> QED
        BY <4>1, <4>2
    <3> QED
      BY <3>1, <3>2
  <2>3. Total(idle) \in Nat /\ n * lo <= 10 * Total(idle)
    BY <1>1, <2>1, <2>2, TotalBounds DEF n
  <2>4. n * lo >= n * poll /\ n * lo > 0 /\ n * poll \in Nat /\ n * lo \in Nat
    BY <1>1, <2>2
  <2>5. Total(idle) > 0 /\ Total(idle) # 0 /\ ~(10 * Total(idle) < n * interval)
    <3>1. PICK p \in Nat : p = n * lo
      BY <2>4
    <3>2. PICK q \in Nat : q = n * poll
      BY <2>4
    <3>3. p <= 10 * Total(idle) /\ p >= q /\ p > 0 /\ q = n * interval
      BY <1>1, <2>3, <2>4, <3>1, <3>2
    <3> QED
      BY <2>3, <3>3
  <2>6. MarginStatus = "sufficient"
    BY <1>1, <2>5, Zenon DEF MarginStatus, n
  <2> QED
    BY <1>4, <2>6
<1>5. margins.kind \in {"overran", "little", "ample"}
  <2>1. 1 \in 1 .. n
    BY <1>1
  <2>2. Kind(idle[1]) \in {"overran", "little", "ample"}
    BY DEF Kind
  <2> QED
    BY <1>1, <2>1, <2>2
<1> QED
  BY <1>2, <1>3, <1>4, <1>5

LEMMA RetriesFollow ==
  ASSUME Averages, uses.count = Window
  PROVE  RetryStatus = IF uses.kind = "none used" THEN "sufficient" ELSE "insufficient"
<1> DEFINE n == Len(retries)
<1>1. /\ retries \in Seq(Nat) /\ n = Window /\ n \in Nat \ {0} /\ retries # <<>>
      /\ \A i \in 1 .. n : retries[i] \in UsedBy(uses.kind)
      /\ most \in Nat /\ Set
  <2>1. /\ retries \in Seq(Nat) /\ n <= Window /\ Window \in 0 .. n /\ Window \in Nat \ {0}
        /\ \A i \in n - Window + 1 .. n : retries[i] \in UsedBy(uses.kind)
        /\ most \in Nat /\ Set
    BY HealthAssumption DEF Averages, Latest
  <2>2. n = Window /\ n \in Nat \ {0} /\ n - Window + 1 = 1 /\ retries # <<>>
    BY <2>1
  <2> QED
    BY <2>1, <2>2
<1> HIDE DEF n
<1>2. CASE uses.kind = "none used"
  <2>1. \A i \in 1 .. n : retries[i] = 0
    BY <1>1, <1>2, Zenon DEF UsedBy
  <2>2. \A i \in 1 .. n : 10 * retries[i] <= 0
    BY <2>1
  <2>3. Total(retries) \in Nat /\ 10 * Total(retries) <= n * 0
    BY <1>1, <2>2, TotalBounds DEF n
  <2>4. 4 * Total(retries) <= n /\ ~(4 * Total(retries) > n)
    BY <1>1, <2>3
  <2>5. RetryStatus = "sufficient"
    BY <1>1, <2>4, Zenon DEF RetryStatus, n
  <2> QED
    BY <1>2, <2>5
<1>3. CASE uses.kind # "none used"
  <2>1. most > 0 /\ \A i \in 1 .. n : retries[i] = most
    BY <1>1, <1>3 DEF UsedBy, Set
  <2>2. \A i \in 1 .. n : 10 * most <= 10 * retries[i]
    BY <1>1, <2>1
  <2>3. Total(retries) \in Nat /\ n * (10 * most) <= 10 * Total(retries)
    BY <1>1, <2>2, TotalBounds DEF n
  <2>4. /\ n * (10 * most) = 10 * (n * most) /\ n * most \in Nat /\ n * most >= n
        /\ 8 * n * most = 8 * (n * most)
    BY <1>1, <2>1
  <2>5. 4 * Total(retries) > n /\ 10 * Total(retries) >= 8 * n * most
    <3>1. PICK p \in Nat : p = n * most
      BY <2>4
    <3>2. 10 * p <= 10 * Total(retries) /\ p >= n /\ 8 * n * most = 8 * p
      BY <2>3, <2>4, <3>1
    <3> QED
      BY <1>1, <2>3, <3>2
  <2>6. ~(4 * Total(retries) <= n)
    BY <1>1, <2>3, <2>5
  <2>7. RetryStatus = "insufficient"
    BY <1>1, <2>1, <2>5, <2>6, Zenon DEF RetryStatus, n
  <2> QED
    BY <1>3, <2>7
<1> QED
  BY <1>2, <1>3

\* For averages of any length: once as many cycles as they cover went alike under one
\* setting, the polling margin and the retry verdict are what these cycles say, whatever
\* earlier settings or failures had left in the deques, and whoever changes the settings
\* between a cycle and the recording of it (metrics.py:56-104).
THEOREM VerdictsAreTheirs == Spec => []VerdictsFollow
<1>1. Inv /\ Averages => VerdictsFollow
  BY MarginsFollow, RetriesFollow DEF VerdictsFollow
<1>2. Init => Averages
  BY InitAverages
<1>3. Inv /\ Averages /\ [Next]_vars => Averages'
  BY NextAverages
<1> QED
  BY <1>1, <1>2, <1>3, SpecInv, PTL DEF Spec

-----------------------------------------------------------------------------
(***************************************************************************)
(* Recursive functions and the bytes of a number.                          *)
(***************************************************************************)

\* Induction that may use all smaller numbers.
LEMMA StrongInduction ==
  ASSUME NEW n \in Nat, NEW P,
         0 \in P,
         \A k \in 1 .. n : (\A i \in 0 .. k - 1 : i \in P) => k \in P
  PROVE  \A k \in 0 .. n : k \in P
<1> DEFINE Q == {k \in Nat : \A i \in 0 .. k : i \in P}
<1>1. 0 \in Q
  OBVIOUS
<1>2. ASSUME NEW k \in 1 .. n, k - 1 \in Q PROVE k \in Q
  <2>1. k \in P
    BY <1>2
  <2> QED BY <1>2, <2>1
<1>3. \A k \in 0 .. n : k \in Q
  <2> HIDE DEF Q
  <2> QED BY <1>1, <1>2, IntervalInduction
<1> QED BY <1>3

\* A recursion that gets f[k] from f at an earlier place back[k].
GoesBack(back, n) == \A k \in 1 .. n : back[k] \in 0 .. k - 1
StaysIn(step, n, S) == \A k \in 1 .. n : \A x \in S : step[k][x] \in S
IsRecursion(f, n, S, first, back, step) ==
    /\ f \in [0 .. n -> S]
    /\ f[0] = first
    /\ \A k \in 1 .. n : f[k] = step[k][f[back[k]]]

\* A recursion over the numbers up to n that reaches back to smaller ones
\* defines a function.
LEMMA Recursion ==
  ASSUME NEW n \in Nat, NEW S, NEW first \in S,
         NEW back, NEW step,
         GoesBack(back, n), StaysIn(step, n, S)
  PROVE  \E f : IsRecursion(f, n, S, first, back, step)
<1> USE DEF GoesBack, StaysIn
<1> DEFINE Good(k, f) == /\ f[0] = first
                         /\ \A i \in 1 .. k : f[i] = step[i][f[back[i]]]
           P == {k \in Nat : k <= n => \E f \in [0 .. k -> S] : Good(k, f)}
<1>1. 0 \in P
  <2> DEFINE g == [i \in 0 .. 0 |-> first]
  <2>1. g \in [0 .. 0 -> S] /\ Good(0, g)
    OBVIOUS
  <2> QED BY <2>1
<1>2. ASSUME NEW k \in 1 .. n, k - 1 \in P PROVE k \in P
  <2>1. PICK g \in [0 .. k - 1 -> S] : Good(k - 1, g)
    <3> HIDE DEF Good
    <3>1. k - 1 <= n
      OBVIOUS
    <3> QED BY <1>2, <3>1
  <2> DEFINE f == [i \in 0 .. k |-> IF i = k THEN step[k][g[back[k]]] ELSE g[i]]
  <2>2. back[k] \in 0 .. k - 1 /\ g[back[k]] \in S
    OBVIOUS
  <2>3. f \in [0 .. k -> S]
    BY <2>2
  <2>4. f[0] = first
    BY <2>1
  <2>5. ASSUME NEW i \in 1 .. k PROVE f[i] = step[i][f[back[i]]]
    <3>1. back[i] \in 0 .. i - 1
      OBVIOUS
    <3>2. f[back[i]] = g[back[i]]
      BY <3>1
    <3>3. CASE i = k
      BY <3>2, <3>3
    <3>4. CASE i # k
      BY <2>1, <3>2, <3>4
    <3> QED BY <3>3, <3>4
  <2>6. Good(k, f)
    BY <2>4, <2>5
  <2> HIDE DEF Good, f
  <2> QED BY <2>3, <2>6
<1>3. n \in P
  <2> HIDE DEF P
  <2> QED BY <1>1, <1>2, IntervalInduction
<1> QED BY <1>3 DEF IsRecursion

\* What division by 128 and by 256 gives.
LEMMA Septet ==
  ASSUME NEW k \in Nat
  PROVE  /\ k \div 128 \in Nat /\ k % 128 \in 0 .. 127
         /\ k = (k \div 128) * 128 + (k % 128)
         /\ k > 0 => k \div 128 < k
         /\ (128 + (k % 128)) % 128 = k % 128
         /\ (k % 128) % 128 = k % 128
  OBVIOUS

LEMMA Octet ==
  ASSUME NEW v \in Int
  PROVE  /\ v \div 256 \in Int /\ v % 256 \in 0 .. 255
         /\ v = (v \div 256) * 256 + (v % 256)
  OBVIOUS

\* The recursion inside ArcBytes.
IsMarked(f, n) ==
    f = [k \in 0 .. n |-> IF k = 0 THEN <<>> ELSE Append(f[k \div 128], 128 + (k % 128))]

Marked(n) == CHOOSE f : IsMarked(f, n)

\* The recursion for the marked bytes of an arc defines a function.
LEMMA MarkedExists ==
  ASSUME NEW n \in Nat
  PROVE  /\ Marked(n) \in [0 .. n -> Seq(Nat)]
         /\ Marked(n)[0] = <<>>
         /\ \A k \in 1 .. n : Marked(n)[k] = Append(Marked(n)[k \div 128], 128 + (k % 128))
<1>10. n \in Nat
  OBVIOUS
<1> DEFINE back == [k \in 1 .. n |-> k \div 128]
           step == [k \in 1 .. n |-> [x \in Seq(Nat) |-> Append(x, 128 + (k % 128))]]
<1>11. ASSUME NEW k \in 1 .. n PROVE k \div 128 \in 0 .. k - 1
  BY Septet
<1>12. ASSUME NEW k \in 1 .. n, NEW x \in Seq(Nat) PROVE Append(x, 128 + (k % 128)) \in Seq(Nat)
  <2>1. 128 + (k % 128) \in Nat
    BY Septet
  <2> QED BY <2>1, AppendProperties
<1>1. GoesBack(back, n)
  BY <1>11 DEF GoesBack
<1>2. StaysIn(step, n, Seq(Nat))
  BY <1>12 DEF StaysIn
<1>3. <<>> \in Seq(Nat)
  OBVIOUS
<1>4. PICK f : IsRecursion(f, n, Seq(Nat), <<>>, back, step)
  <2> HIDE DEF back, step
  <2> QED BY <1>10, <1>1, <1>2, <1>3, Recursion
<1>5. ASSUME NEW k \in 1 .. n
      PROVE  f[k] = Append(f[k \div 128], 128 + (k % 128))
  <2>1. back[k] = k \div 128 /\ back[k] \in 0 .. n
    BY <1>11, <1>10
  <2>2. f[back[k]] \in Seq(Nat)
    BY <1>4, <2>1 DEF IsRecursion
  <2>3. f[k] = step[k][f[back[k]]]
    BY <1>4 DEF IsRecursion
  <2> QED BY <2>1, <2>2, <2>3
<1>6. IsMarked(f, n)
  <2> DEFINE g == [k \in 0 .. n |-> IF k = 0 THEN <<>> ELSE Append(f[k \div 128], 128 + (k % 128))]
  <2>1. ASSUME NEW k \in 0 .. n PROVE g[k] = f[k]
    <3>1. CASE k = 0
      BY <1>4, <3>1 DEF IsRecursion
    <3>2. CASE k # 0
      <4>1. k \in 1 .. n
        BY <3>2, <1>10
      <4> QED BY <1>5, <3>2, <4>1
    <3> QED BY <3>1, <3>2
  <2>2. f = [k \in 0 .. n |-> f[k]] /\ g = [k \in 0 .. n |-> g[k]]
    BY <1>4 DEF IsRecursion
  <2>3. f = g
    <3> HIDE DEF g
    <3> QED BY <2>1, <2>2
  <2> QED BY <2>3 DEF IsMarked
<1> DEFINE m == Marked(n)
<1>7. m = [k \in 0 .. n |-> IF k = 0 THEN <<>> ELSE Append(m[k \div 128], 128 + (k % 128))]
  <2>1. IsMarked(m, n)
    BY <1>6 DEF Marked
  <2> HIDE DEF m
  <2> QED BY <2>1 DEF IsMarked
<1>8. /\ m = [k \in 0 .. n |-> m[k]]
      /\ m[0] = <<>>
      /\ \A k \in 1 .. n : m[k] = Append(m[k \div 128], 128 + (k % 128))
  <2> HIDE DEF m
  <2> DEFINE body(k) == IF k = 0 THEN <<>> ELSE Append(m[k \div 128], 128 + (k % 128))
  <2>1. m = [k \in 0 .. n |-> body(k)]
    BY <1>7
  <2>2. \A k \in 0 .. n : m[k] = body(k)
    <3> HIDE DEF body
    <3> QED BY <2>1
  <2>3. m = [k \in 0 .. n |-> m[k]]
    <3> HIDE DEF body
    <3> QED BY <2>1, <2>2
  <2>4. 0 \in 0 .. n /\ \A k \in 1 .. n : k \in 0 .. n /\ k # 0
    BY <1>10
  <2> QED BY <2>2, <2>3, <2>4
<1>9. \A k \in 0 .. n : m[k] \in Seq(Nat)
  <2> DEFINE P == {k \in Nat : m[k] \in Seq(Nat)}
  <2> HIDE DEF m
  <2>1. 0 \in P
    BY <1>3, <1>8
  <2>2. ASSUME NEW k \in 1 .. n, \A i \in 0 .. k - 1 : i \in P PROVE k \in P
    <3>1. m[k \div 128] \in Seq(Nat)
      BY <1>11, <2>2
    <3>2. Append(m[k \div 128], 128 + (k % 128)) \in Seq(Nat)
      BY <1>12, <3>1
    <3>3. m[k] = Append(m[k \div 128], 128 + (k % 128))
      BY <1>8
    <3>4. m[k] \in Seq(Nat)
      BY <3>2, <3>3, Zenon
    <3> QED BY <3>4
  <2>3. \A k \in 0 .. n : k \in P
    <3> HIDE DEF P
    <3> QED BY <1>10, <2>1, <2>2, StrongInduction
  <2> QED BY <2>3
<1> QED
  <2> HIDE DEF m
  <2>1. m \in [0 .. n -> Seq(Nat)]
    BY <1>8, <1>9
  <2> QED BY <1>8, <2>1 DEF m

\* The recursion inside BitLength; that it defines a function is shown like MarkedExists.
IsBits(f, n) ==
    f = [k \in 0 .. n |-> IF k = 0 THEN 0 ELSE 1 + f[k \div 2]]

Bits(n) == CHOOSE f : IsBits(f, n)

\* The recursion for the length in bits defines a function.
LEMMA BitsExists ==
  ASSUME NEW n \in Nat
  PROVE  /\ Bits(n) \in [0 .. n -> Nat]
         /\ Bits(n)[0] = 0
         /\ \A k \in 1 .. n : Bits(n)[k] = 1 + Bits(n)[k \div 2]
<1>10. n \in Nat
  OBVIOUS
<1> DEFINE back == [k \in 1 .. n |-> k \div 2]
           step == [k \in 1 .. n |-> [x \in Nat |-> 1 + x]]
<1>11. ASSUME NEW k \in 1 .. n PROVE k \div 2 \in 0 .. k - 1
  OBVIOUS
<1>12. ASSUME NEW k \in 1 .. n, NEW x \in Nat PROVE 1 + x \in Nat
  OBVIOUS
<1>1. GoesBack(back, n)
  BY <1>11 DEF GoesBack
<1>2. StaysIn(step, n, Nat)
  BY <1>12 DEF StaysIn
<1>3. 0 \in Nat
  OBVIOUS
<1>4. PICK f : IsRecursion(f, n, Nat, 0, back, step)
  <2> HIDE DEF back, step
  <2> QED BY <1>10, <1>1, <1>2, <1>3, Recursion
<1>5. ASSUME NEW k \in 1 .. n
      PROVE  f[k] = 1 + f[k \div 2]
  <2>1. back[k] = k \div 2 /\ back[k] \in 0 .. n
    BY <1>11, <1>10
  <2>2. f[back[k]] \in Nat
    BY <1>4, <2>1 DEF IsRecursion
  <2>3. f[k] = step[k][f[back[k]]]
    BY <1>4 DEF IsRecursion
  <2> QED BY <2>1, <2>2, <2>3
<1>6. IsBits(f, n)
  <2> DEFINE g == [k \in 0 .. n |-> IF k = 0 THEN 0 ELSE 1 + f[k \div 2]]
  <2>1. ASSUME NEW k \in 0 .. n PROVE g[k] = f[k]
    <3>1. CASE k = 0
      BY <1>4, <3>1 DEF IsRecursion
    <3>2. CASE k # 0
      <4>1. k \in 1 .. n
        BY <3>2, <1>10
      <4> QED BY <1>5, <3>2, <4>1
    <3> QED BY <3>1, <3>2
  <2>2. f = [k \in 0 .. n |-> f[k]] /\ g = [k \in 0 .. n |-> g[k]]
    BY <1>4 DEF IsRecursion
  <2>3. f = g
    <3> HIDE DEF g
    <3> QED BY <2>1, <2>2
  <2> QED BY <2>3 DEF IsBits
<1> DEFINE m == Bits(n)
<1>7. m = [k \in 0 .. n |-> IF k = 0 THEN 0 ELSE 1 + m[k \div 2]]
  <2>1. IsBits(m, n)
    BY <1>6 DEF Bits
  <2> HIDE DEF m
  <2> QED BY <2>1 DEF IsBits
<1>8. /\ m = [k \in 0 .. n |-> m[k]]
      /\ m[0] = 0
      /\ \A k \in 1 .. n : m[k] = 1 + m[k \div 2]
  <2> HIDE DEF m
  <2> DEFINE body(k) == IF k = 0 THEN 0 ELSE 1 + m[k \div 2]
  <2>1. m = [k \in 0 .. n |-> body(k)]
    BY <1>7
  <2>2. \A k \in 0 .. n : m[k] = body(k)
    <3> HIDE DEF body
    <3> QED BY <2>1
  <2>3. m = [k \in 0 .. n |-> m[k]]
    <3> HIDE DEF body
    <3> QED BY <2>1, <2>2
  <2>4. 0 \in 0 .. n /\ \A k \in 1 .. n : k \in 0 .. n /\ k # 0
    BY <1>10
  <2> QED BY <2>2, <2>3, <2>4
<1>9. \A k \in 0 .. n : m[k] \in Nat
  <2> DEFINE P == {k \in Nat : m[k] \in Nat}
  <2> HIDE DEF m
  <2>1. 0 \in P
    BY <1>3, <1>8
  <2>2. ASSUME NEW k \in 1 .. n, \A i \in 0 .. k - 1 : i \in P PROVE k \in P
    <3>1. m[k \div 2] \in Nat
      BY <1>11, <2>2
    <3>2. 1 + m[k \div 2] \in Nat
      BY <1>12, <3>1
    <3>3. m[k] = 1 + m[k \div 2]
      BY <1>8
    <3> QED BY <3>2, <3>3
  <2>3. \A k \in 0 .. n : k \in P
    <3> HIDE DEF P
    <3> QED BY <1>10, <2>1, <2>2, StrongInduction
  <2> QED BY <2>3
<1> QED
  <2> HIDE DEF m
  <2>1. m \in [0 .. n -> Nat]
    BY <1>8, <1>9
  <2> QED BY <1>8, <2>1 DEF m

\* The recursion inside ToBytes.
IsShifted(f, v, n) ==
    f = [k \in 0 .. n |-> IF k = 0 THEN v ELSE f[k - 1] \div 256]

Shifted(v, n) == CHOOSE f : IsShifted(f, v, n)

\* Shifting a number byte by byte defines a function.
LEMMA ShiftedExists ==
  ASSUME NEW v \in Int, NEW n \in Nat
  PROVE  /\ Shifted(v, n) \in [0 .. n -> Int]
         /\ Shifted(v, n)[0] = v
         /\ \A k \in 1 .. n : Shifted(v, n)[k] = Shifted(v, n)[k - 1] \div 256
<1>10. n \in Nat
  OBVIOUS
<1> DEFINE back == [k \in 1 .. n |-> k - 1]
           step == [k \in 1 .. n |-> [x \in Int |-> x \div 256]]
<1>11. ASSUME NEW k \in 1 .. n PROVE k - 1 \in 0 .. k - 1
  OBVIOUS
<1>12. ASSUME NEW k \in 1 .. n, NEW x \in Int PROVE x \div 256 \in Int
  BY Octet
<1>1. GoesBack(back, n)
  BY <1>11 DEF GoesBack
<1>2. StaysIn(step, n, Int)
  BY <1>12 DEF StaysIn
<1>3. v \in Int
  OBVIOUS
<1>4. PICK f : IsRecursion(f, n, Int, v, back, step)
  <2> HIDE DEF back, step
  <2> QED BY <1>10, <1>1, <1>2, <1>3, Recursion
<1>5. ASSUME NEW k \in 1 .. n
      PROVE  f[k] = f[k - 1] \div 256
  <2>1. back[k] = k - 1 /\ back[k] \in 0 .. n
    BY <1>11, <1>10
  <2>2. f[back[k]] \in Int
    BY <1>4, <2>1 DEF IsRecursion
  <2>3. f[k] = step[k][f[back[k]]]
    BY <1>4 DEF IsRecursion
  <2> QED BY <2>1, <2>2, <2>3
<1>6. IsShifted(f, v, n)
  <2> DEFINE g == [k \in 0 .. n |-> IF k = 0 THEN v ELSE f[k - 1] \div 256]
  <2>1. ASSUME NEW k \in 0 .. n PROVE g[k] = f[k]
    <3>1. CASE k = 0
      BY <1>4, <3>1 DEF IsRecursion
    <3>2. CASE k # 0
      <4>1. k \in 1 .. n
        BY <3>2, <1>10
      <4> QED BY <1>5, <3>2, <4>1
    <3> QED BY <3>1, <3>2
  <2>2. f = [k \in 0 .. n |-> f[k]] /\ g = [k \in 0 .. n |-> g[k]]
    BY <1>4 DEF IsRecursion
  <2>3. f = g
    <3> HIDE DEF g
    <3> QED BY <2>1, <2>2
  <2> QED BY <2>3 DEF IsShifted
<1> DEFINE m == Shifted(v, n)
<1>7. m = [k \in 0 .. n |-> IF k = 0 THEN v ELSE m[k - 1] \div 256]
  <2>1. IsShifted(m, v, n)
    BY <1>6 DEF Shifted
  <2> HIDE DEF m
  <2> QED BY <2>1 DEF IsShifted
<1>8. /\ m = [k \in 0 .. n |-> m[k]]
      /\ m[0] = v
      /\ \A k \in 1 .. n : m[k] = m[k - 1] \div 256
  <2> HIDE DEF m
  <2> DEFINE body(k) == IF k = 0 THEN v ELSE m[k - 1] \div 256
  <2>1. m = [k \in 0 .. n |-> body(k)]
    BY <1>7
  <2>2. \A k \in 0 .. n : m[k] = body(k)
    <3> HIDE DEF body
    <3> QED BY <2>1
  <2>3. m = [k \in 0 .. n |-> m[k]]
    <3> HIDE DEF body
    <3> QED BY <2>1, <2>2
  <2>4. 0 \in 0 .. n /\ \A k \in 1 .. n : k \in 0 .. n /\ k # 0
    BY <1>10
  <2> QED BY <2>2, <2>3, <2>4
<1>9. \A k \in 0 .. n : m[k] \in Int
  <2> DEFINE P == {k \in Nat : m[k] \in Int}
  <2> HIDE DEF m
  <2>1. 0 \in P
    BY <1>3, <1>8
  <2>2. ASSUME NEW k \in 1 .. n, \A i \in 0 .. k - 1 : i \in P PROVE k \in P
    <3>1. m[k - 1] \in Int
      BY <1>11, <2>2
    <3>2. m[k - 1] \div 256 \in Int
      BY <1>12, <3>1
    <3>3. m[k] = m[k - 1] \div 256
      BY <1>8
    <3> QED BY <3>2, <3>3
  <2>3. \A k \in 0 .. n : k \in P
    <3> HIDE DEF P
    <3> QED BY <1>10, <2>1, <2>2, StrongInduction
  <2> QED BY <2>3
<1> QED
  <2> HIDE DEF m
  <2>1. m \in [0 .. n -> Int]
    BY <1>8, <1>9
  <2> QED BY <1>8, <2>1 DEF m

\* An arc in bytes: the marked ones and the last.
LEMMA ArcInMarks ==
  ASSUME NEW n \in Nat
  PROVE  /\ ArcBytes(n) = Append(Marked(n)[n \div 128], n % 128)
         /\ Marked(n)[n \div 128] \in Seq(Nat) /\ n % 128 \in Nat
         /\ ArcBytes(n) \in Seq(Nat)
<1>1. ArcBytes(n) = Append(Marked(n)[n \div 128], n % 128)
  BY DEF ArcBytes, Marked, IsMarked
<1>2. n \div 128 \in 0 .. n /\ n % 128 \in Nat
  BY Septet
<1>3. Marked(n)[n \div 128] \in Seq(Nat)
  BY <1>2, MarkedExists
<1> QED BY <1>1, <1>2, <1>3, AppendProperties

\* The recursion inside Body.
IsBodies(f, start, oid) ==
    f = [k \in 0 .. Len(oid) - 2 |-> IF k = 0 THEN start ELSE (f[k - 1] \o ArcBytes(oid[k + 2]))]

Bodies(start, oid) == CHOOSE f : IsBodies(f, start, oid)

\* The recursion over the arcs of an OID defines a function.
LEMMA BodiesExists ==
  ASSUME NEW start \in Seq(Nat), NEW oid \in Seq(Nat), Len(oid) >= 2
  PROVE  /\ Bodies(start, oid) \in [0 .. Len(oid) - 2 -> Seq(Nat)]
         /\ Bodies(start, oid)[0] = start
         /\ \A k \in 1 .. Len(oid) - 2 : Bodies(start, oid)[k] = (Bodies(start, oid)[k - 1] \o ArcBytes(oid[k + 2]))
<1>10. Len(oid) - 2 \in Nat
  OBVIOUS
<1> DEFINE back == [k \in 1 .. Len(oid) - 2 |-> k - 1]
           step == [k \in 1 .. Len(oid) - 2 |-> [x \in Seq(Nat) |-> (x \o ArcBytes(oid[k + 2]))]]
<1>11. ASSUME NEW k \in 1 .. Len(oid) - 2 PROVE k - 1 \in 0 .. k - 1
  BY <1>10
<1>12. ASSUME NEW k \in 1 .. Len(oid) - 2, NEW x \in Seq(Nat) PROVE (x \o ArcBytes(oid[k + 2])) \in Seq(Nat)
  <2>1. oid[k + 2] \in Nat
    BY <1>10
  <2>2. ArcBytes(oid[k + 2]) \in Seq(Nat)
    BY <2>1, ArcInMarks
  <2> QED BY <2>2, ConcatProperties
<1>1. GoesBack(back, Len(oid) - 2)
  BY <1>11 DEF GoesBack
<1>2. StaysIn(step, Len(oid) - 2, Seq(Nat))
  BY <1>12 DEF StaysIn
<1>3. start \in Seq(Nat)
  OBVIOUS
<1>4. PICK f : IsRecursion(f, Len(oid) - 2, Seq(Nat), start, back, step)
  <2> HIDE DEF back, step
  <2> QED BY <1>10, <1>1, <1>2, <1>3, Recursion
<1>5. ASSUME NEW k \in 1 .. Len(oid) - 2
      PROVE  f[k] = (f[k - 1] \o ArcBytes(oid[k + 2]))
  <2>1. back[k] = k - 1 /\ back[k] \in 0 .. Len(oid) - 2
    BY <1>11, <1>10
  <2>2. f[back[k]] \in Seq(Nat)
    BY <1>4, <2>1 DEF IsRecursion
  <2>3. f[k] = step[k][f[back[k]]]
    BY <1>4 DEF IsRecursion
  <2> QED BY <2>1, <2>2, <2>3
<1>6. IsBodies(f, start, oid)
  <2> DEFINE g == [k \in 0 .. Len(oid) - 2 |-> IF k = 0 THEN start ELSE (f[k - 1] \o ArcBytes(oid[k + 2]))]
  <2>1. ASSUME NEW k \in 0 .. Len(oid) - 2 PROVE g[k] = f[k]
    <3>1. CASE k = 0
      BY <1>4, <3>1 DEF IsRecursion
    <3>2. CASE k # 0
      <4>1. k \in 1 .. Len(oid) - 2
        BY <3>2, <1>10
      <4> QED BY <1>5, <3>2, <4>1
    <3> QED BY <3>1, <3>2
  <2>2. f = [k \in 0 .. Len(oid) - 2 |-> f[k]] /\ g = [k \in 0 .. Len(oid) - 2 |-> g[k]]
    BY <1>4 DEF IsRecursion
  <2>3. f = g
    <3> HIDE DEF g
    <3> QED BY <2>1, <2>2
  <2> QED BY <2>3 DEF IsBodies
<1> DEFINE m == Bodies(start, oid)
<1>7. m = [k \in 0 .. Len(oid) - 2 |-> IF k = 0 THEN start ELSE (m[k - 1] \o ArcBytes(oid[k + 2]))]
  <2>1. IsBodies(m, start, oid)
    BY <1>6 DEF Bodies
  <2> HIDE DEF m
  <2> QED BY <2>1 DEF IsBodies
<1>8. /\ m = [k \in 0 .. Len(oid) - 2 |-> m[k]]
      /\ m[0] = start
      /\ \A k \in 1 .. Len(oid) - 2 : m[k] = (m[k - 1] \o ArcBytes(oid[k + 2]))
  <2> HIDE DEF m
  <2> DEFINE body(k) == IF k = 0 THEN start ELSE (m[k - 1] \o ArcBytes(oid[k + 2]))
  <2>1. m = [k \in 0 .. Len(oid) - 2 |-> body(k)]
    BY <1>7
  <2>2. \A k \in 0 .. Len(oid) - 2 : m[k] = body(k)
    <3> HIDE DEF body
    <3> QED BY <2>1
  <2>3. m = [k \in 0 .. Len(oid) - 2 |-> m[k]]
    <3> HIDE DEF body
    <3> QED BY <2>1, <2>2
  <2>4. 0 \in 0 .. Len(oid) - 2 /\ \A k \in 1 .. Len(oid) - 2 : k \in 0 .. Len(oid) - 2 /\ k # 0
    BY <1>10
  <2> QED BY <2>2, <2>3, <2>4
<1>9. \A k \in 0 .. Len(oid) - 2 : m[k] \in Seq(Nat)
  <2> DEFINE P == {k \in Nat : m[k] \in Seq(Nat)}
  <2> HIDE DEF m
  <2>1. 0 \in P
    BY <1>3, <1>8
  <2>2. ASSUME NEW k \in 1 .. Len(oid) - 2, \A i \in 0 .. k - 1 : i \in P PROVE k \in P
    <3>1. m[k - 1] \in Seq(Nat)
      BY <1>11, <2>2
    <3>2. (m[k - 1] \o ArcBytes(oid[k + 2])) \in Seq(Nat)
      BY <1>12, <3>1
    <3>3. m[k] = (m[k - 1] \o ArcBytes(oid[k + 2]))
      BY <1>8
    <3>4. m[k] \in Seq(Nat)
      BY <3>2, <3>3, Zenon
    <3> QED BY <3>4
  <2>3. \A k \in 0 .. Len(oid) - 2 : k \in P
    <3> HIDE DEF P
    <3> QED BY <1>10, <2>1, <2>2, StrongInduction
  <2> QED BY <2>3
<1> QED
  <2> HIDE DEF m
  <2>1. m \in [0 .. Len(oid) - 2 -> Seq(Nat)]
    BY <1>8, <1>9
  <2> QED BY <1>8, <2>1 DEF m

\* The body of an OID is the last value of that recursion.
LEMMA BodyIsLast ==
  ASSUME NEW start \in Seq(Nat), NEW oid \in Seq(Nat), Len(oid) >= 2
  PROVE  Body(start, oid) = Bodies(start, oid)[Len(oid) - 2]
BY DEF Body, Bodies, IsBodies

(***************************************************************************)
(* Reading OIDs: the loop of _decode_oid.                                  *)
(***************************************************************************)

\* What reading some bytes makes of a state of the loop in _decode_oid.
State(done, part) == [values |-> done, value |-> part]

\* The states of that loop, and the one it ends in.
IsTrace(t, from, bytes) ==
    t = [i \in 0 .. Len(bytes) |-> IF i = 0 THEN from ELSE Reading(t[i - 1], bytes[i])]

Ends(from, bytes, to) == \E t : IsTrace(t, from, bytes) /\ t[Len(bytes)] = to

\* A marked byte adds its seven bits to the arc that is being read.
LEMMA ReadingMarked ==
  ASSUME NEW done, NEW part \in Nat, NEW byte \in Nat, byte >= 128
  PROVE  Reading(State(done, part), byte) = State(done, part * 128 + (byte % 128))
BY DEF Reading, State

\* No bytes leave the state, one more byte is one more turn of the loop.
LEMMA EndsNone ==
  ASSUME NEW from
  PROVE  Ends(from, <<>>, from)
<1> DEFINE t == [i \in 0 .. 0 |-> from]
<1>1. t = [i \in 0 .. 0 |-> IF i = 0 THEN from ELSE Reading(t[i - 1], <<>>[i])]
  OBVIOUS
<1>2. Len(<<>>) = 0
  OBVIOUS
<1>3. IsTrace(t, from, <<>>) /\ t[0] = from
  <2> HIDE DEF t
  <2>1. t[0] = from
    BY DEF t
  <2> QED BY <1>1, <1>2, <2>1 DEF IsTrace
<1> QED BY <1>2, <1>3 DEF Ends

LEMMA EndsAppend ==
  ASSUME NEW from, NEW to, NEW bytes \in Seq(Nat), NEW byte \in Nat,
         Ends(from, bytes, to)
  PROVE  Ends(from, Append(bytes, byte), Reading(to, byte))
<1> DEFINE n == Len(bytes)
           all == Append(bytes, byte)
<1>1. n \in Nat /\ Len(all) = n + 1 /\ all[n + 1] = byte
        /\ \A i \in 1 .. n : all[i] = bytes[i]
  OBVIOUS
<1>2. PICK t : IsTrace(t, from, bytes) /\ t[n] = to
  BY DEF Ends
<1> HIDE DEF n, all
<1>3. t = [i \in 0 .. n |-> IF i = 0 THEN from ELSE Reading(t[i - 1], bytes[i])]
  BY <1>2 DEF IsTrace, n
<1> DEFINE u == [i \in 0 .. n + 1 |-> IF i = n + 1 THEN Reading(to, byte) ELSE t[i]]
<1>4. ASSUME NEW i \in 0 .. n + 1
      PROVE  u[i] = IF i = 0 THEN from ELSE Reading(u[i - 1], all[i])
  <2>1. CASE i = n + 1
    <3>1. u[i] = Reading(to, byte) /\ i # 0
      BY <1>1, <2>1
    <3>2. i - 1 = n /\ u[n] = t[n]
      BY <1>1, <2>1
    <3>3. all[i] = byte
      BY <1>1, <2>1
    <3> QED BY <1>2, <3>1, <3>2, <3>3
  <2>2. CASE i = 0
    <3>1. u[0] = t[0] /\ t[0] = from
      BY <1>1, <1>3
    <3> QED BY <2>2, <3>1
  <2>3. CASE i \in 1 .. n
    <3>1. u[i] = t[i] /\ u[i - 1] = t[i - 1]
      BY <1>1, <2>3
    <3>2. all[i] = bytes[i] /\ i # 0
      BY <1>1, <2>3
    <3>3. t[i] = Reading(t[i - 1], bytes[i])
      BY <1>1, <1>3, <2>3
    <3> QED BY <3>1, <3>2, <3>3
  <2> QED BY <1>1, <2>1, <2>2, <2>3
<1>5. IsTrace(u, from, all)
  <2>1. u = [i \in 0 .. n + 1 |-> u[i]]
    OBVIOUS
  <2> HIDE DEF u
  <2>2. u = [i \in 0 .. n + 1 |-> IF i = 0 THEN from ELSE Reading(u[i - 1], all[i])]
    BY <1>4, <2>1
  <2> QED BY <1>1, <2>2 DEF IsTrace
<1>6. u[n + 1] = Reading(to, byte)
  BY <1>1
<1> HIDE DEF u
<1>7. Ends(from, all, Reading(to, byte))
  BY <1>1, <1>5, <1>6 DEF Ends
<1> QED BY <1>7 DEF all

\* What the loop ends in are the arcs.
LEMMA EndsIsArcs ==
  ASSUME NEW bytes \in Seq(Nat), NEW to, Ends(State(<<>>, 0), bytes, to)
  PROVE  Arcs(bytes) = to.values
<1> DEFINE n == Len(bytes)
           from == State(<<>>, 0)
           chosen == CHOOSE t : IsTrace(t, from, bytes)
<1>1. n \in Nat
  OBVIOUS
<1>2. PICK t : IsTrace(t, from, bytes) /\ t[n] = to
  BY DEF Ends
<1>3. IsTrace(chosen, from, bytes)
  <2> HIDE DEF from
  <2> QED BY <1>2
<1>4. Arcs(bytes) = chosen[n].values
  BY DEF Arcs, IsTrace, State
<1> HIDE DEF chosen, from, n
<1>5. \A s : IsTrace(s, from, bytes) =>
         s[0] = from /\ \A i \in 1 .. n : s[i] = Reading(s[i - 1], bytes[i])
  <2> SUFFICES ASSUME NEW s, IsTrace(s, from, bytes)
               PROVE  s[0] = from /\ \A i \in 1 .. n : s[i] = Reading(s[i - 1], bytes[i])
    OBVIOUS
  <2>1. s = [i \in 0 .. n |-> IF i = 0 THEN from ELSE Reading(s[i - 1], bytes[i])]
    BY DEF IsTrace, n
  <2>2. s[0] = from
    BY <1>1, <2>1
  <2>3. ASSUME NEW i \in 1 .. n PROVE s[i] = Reading(s[i - 1], bytes[i])
    <3>1. i \in 0 .. n /\ i # 0
      BY <1>1
    <3> QED BY <2>1, <3>1
  <2> QED BY <2>2, <2>3
<1> DEFINE P == {i \in Nat : i <= n => chosen[i] = t[i]}
<1>6. 0 \in P
  BY <1>2, <1>3, <1>5
<1>7. ASSUME NEW i \in 1 .. n, i - 1 \in P PROVE i \in P
  <2>1. chosen[i - 1] = t[i - 1]
    BY <1>1, <1>7
  <2>2. chosen[i] = t[i]
    BY <1>2, <1>3, <1>5, <2>1
  <2> QED BY <2>2
<1>8. n \in P
  <2> HIDE DEF P
  <2> QED BY <1>1, <1>6, <1>7, IntervalInduction
<1>9. chosen[n] = to
  BY <1>1, <1>2, <1>8
<1> QED BY <1>4, <1>9

\* Two laws of concatenation.
LEMMA ConcatAppend ==
  ASSUME NEW a \in Seq(Nat), NEW b \in Seq(Nat), NEW x \in Nat
  PROVE  /\ a \o b \in Seq(Nat)
         /\ a \o Append(b, x) = Append(a \o b, x)
<1>1. a \o b \in Seq(Nat) /\ a \o Append(b, x) \in Seq(Nat) /\ Append(a \o b, x) \in Seq(Nat)
  OBVIOUS
<1>2. Len(a \o Append(b, x)) = Len(Append(a \o b, x))
  OBVIOUS
<1>3. ASSUME NEW i \in 1 .. Len(a \o Append(b, x))
      PROVE  (a \o Append(b, x))[i] = Append(a \o b, x)[i]
  OBVIOUS
<1> QED BY <1>1, <1>2, <1>3, SeqEqual

LEMMA JoinTwice ==
  ASSUME NEW a \in Seq(Nat), NEW b \in Seq(Nat), NEW c \in Seq(Nat)
  PROVE  (a \o b) \o c = a \o (b \o c)
BY ConcatAssociative

\* A whole arc is read as the number it stands for.
LEMMA ArcIsRead ==
  ASSUME NEW from, NEW pre \in Seq(Nat), NEW done \in Seq(Nat),
         Ends(from, pre, State(done, 0)), NEW n \in Nat
  PROVE  Ends(from, pre \o ArcBytes(n), State(Append(done, n), 0))
<1> DEFINE m == Marked(n)
           P == {k \in Nat : k <= n => Ends(from, pre \o m[k], State(done, k))}
<1>0. /\ m \in [0 .. n -> Seq(Nat)]
      /\ m[0] = <<>>
      /\ \A k \in 1 .. n : m[k] = Append(m[k \div 128], 128 + (k % 128))
  BY MarkedExists
<1>5. ArcBytes(n) = Append(m[n \div 128], n % 128)
  BY ArcInMarks
<1> HIDE DEF m
<1>1. 0 \in P
  <2>2. pre \o <<>> = pre
    OBVIOUS
  <2> QED BY <1>0, <2>2
<1>2. ASSUME NEW k \in 1 .. n, \A i \in 0 .. k - 1 : i \in P PROVE k \in P
  <2> DEFINE h == k \div 128
             b == 128 + (k % 128)
  <2>1. h \in 0 .. k - 1 /\ b \in Nat /\ b >= 128 /\ h * 128 + (b % 128) = k /\ h \in Nat
    BY Septet
  <2>2. m[k] = Append(m[h], b) /\ m[h] \in Seq(Nat)
    <3>1. h \in 0 .. n
      BY <2>1
    <3>2. m[k] = Append(m[k \div 128], 128 + (k % 128))
      BY <1>0
    <3> QED BY <1>0, <3>1, <3>2
  <2> HIDE DEF h, b
  <2>3. Ends(from, pre \o m[h], State(done, h))
    BY <1>2, <2>1
  <2>4. pre \o m[h] \in Seq(Nat) /\ pre \o m[k] = Append(pre \o m[h], b)
    <3>1. pre \o m[h] \in Seq(Nat) /\ pre \o Append(m[h], b) = Append(pre \o m[h], b)
      BY <2>1, <2>2, ConcatAppend
    <3> QED BY <2>2, <3>1
  <2>5. Reading(State(done, h), b) = State(done, k)
    <3>1. Reading(State(done, h), b) = State(done, h * 128 + (b % 128))
      BY <2>1, ReadingMarked
    <3>2. h * 128 + (b % 128) = k
      BY <2>1
    <3> QED BY <3>1, <3>2
  <2>6. Ends(from, pre \o m[k], State(done, k))
    BY <2>1, <2>3, <2>4, <2>5, EndsAppend
  <2> QED BY <2>6
<1>3. \A k \in 0 .. n : k \in P
  <2> HIDE DEF P
  <2> QED BY <1>1, <1>2, StrongInduction
<1> DEFINE h == n \div 128
           b == n % 128
<1>4. h \in 0 .. n /\ h \in Nat /\ b \in Nat /\ b < 128 /\ h * 128 + (b % 128) = n
  BY Septet
<1>9. m[h] \in Seq(Nat)
  BY <1>0, <1>4
<1>6. Ends(from, pre \o m[h], State(done, h))
  BY <1>3, <1>4
<1>10. ArcBytes(n) = Append(m[h], b)
  BY <1>5
<1> HIDE DEF h, b
<1>7. pre \o m[h] \in Seq(Nat) /\ pre \o ArcBytes(n) = Append(pre \o m[h], b)
  <2>1. pre \o m[h] \in Seq(Nat) /\ pre \o Append(m[h], b) = Append(pre \o m[h], b)
    BY <1>4, <1>9, ConcatAppend
  <2> QED BY <1>10, <2>1
<1>8. Reading(State(done, h), b) = State(Append(done, n), 0)
  <2>1. h \in Nat /\ b \in Nat /\ b < 128 /\ h * 128 + (b % 128) = n
    BY <1>4
  <2>2. ~(b >= 128)
    BY <2>1
  <2> QED BY <2>1, <2>2 DEF Reading, State
<1> QED BY <1>4, <1>6, <1>7, <1>8, EndsAppend

\* All arcs from the third on are read one after the other.
LEMMA BodyIsRead ==
  ASSUME NEW from, NEW start \in Seq(Nat), NEW done \in Seq(Nat),
         Ends(from, start, State(done, 0)),
         NEW oid \in Seq(Nat), Len(oid) >= 2
  PROVE  /\ Body(start, oid) \in Seq(Nat)
         /\ Ends(from, Body(start, oid), State(done \o SubSeq(oid, 3, Len(oid)), 0))
<1> DEFINE n == Len(oid) - 2
           m == Bodies(start, oid)
           upto(i) == done \o SubSeq(oid, 3, i + 2)
           P == {i \in Nat : i <= n => Ends(from, m[i], State(upto(i), 0))}
<1>1. n \in Nat /\ Len(oid) = n + 2
  OBVIOUS
<1>2. /\ m \in [0 .. n -> Seq(Nat)]
      /\ m[0] = start
      /\ \A i \in 1 .. n : m[i] = m[i - 1] \o ArcBytes(oid[i + 2])
  BY BodiesExists
<1>3. upto(0) = done
  <2>1. SubSeq(oid, 3, 2) = <<>>
    OBVIOUS
  <2>2. done \o <<>> = done
    OBVIOUS
  <2> QED BY <2>1, <2>2
<1>4. ASSUME NEW i \in 0 .. n PROVE upto(i) \in Seq(Nat)
  <2>1. SubSeq(oid, 3, i + 2) \in Seq(Nat)
    BY <1>1
  <2> QED BY <2>1
<1>5. ASSUME NEW i \in 1 .. n PROVE upto(i) = Append(upto(i - 1), oid[i + 2])
  <2>1. SubSeq(oid, 3, i + 1) \in Seq(Nat) /\ oid[i + 2] \in Nat
    BY <1>1
  <2>2. SubSeq(oid, 3, i + 2) = Append(SubSeq(oid, 3, i + 1), oid[i + 2])
    BY <1>1
  <2>3. i - 1 + 2 = i + 1
    OBVIOUS
  <2>4. done \o Append(SubSeq(oid, 3, i + 1), oid[i + 2])
          = Append(done \o SubSeq(oid, 3, i + 1), oid[i + 2])
    BY <2>1, ConcatAppend
  <2>5. upto(i) = done \o Append(SubSeq(oid, 3, i + 1), oid[i + 2])
    BY <2>2
  <2>6. upto(i - 1) = done \o SubSeq(oid, 3, i + 1)
    BY <2>3
  <2> HIDE DEF upto
  <2> QED BY <2>4, <2>5, <2>6
<1> HIDE DEF n, m, upto
<1>6. 0 \in P
  BY <1>2, <1>3
<1>7. ASSUME NEW i \in 1 .. n, i - 1 \in P PROVE i \in P
  <2>1. i - 1 \in 0 .. n /\ i - 1 <= n
    BY <1>1
  <2>2. Ends(from, m[i - 1], State(upto(i - 1), 0))
    BY <1>7, <2>1
  <2>3. m[i - 1] \in Seq(Nat) /\ upto(i - 1) \in Seq(Nat)
    BY <1>2, <1>4, <2>1
  <2>4. oid[i + 2] \in Nat
    BY <1>1
  <2>5. Ends(from, m[i - 1] \o ArcBytes(oid[i + 2]), State(Append(upto(i - 1), oid[i + 2]), 0))
    BY <2>2, <2>3, <2>4, ArcIsRead
  <2>6. Ends(from, m[i], State(upto(i), 0))
    BY <1>2, <1>5, <2>5
  <2> QED BY <2>6
<1>8. n \in P
  <2>1. n \in Nat
    BY <1>1
  <2> HIDE DEF P
  <2>2. \A i \in 0 .. n : i \in P
    BY <2>1, <1>6, <1>7, IntervalInduction
  <2> QED BY <2>1, <2>2
<1>9. Ends(from, m[n], State(upto(n), 0)) /\ m[n] \in Seq(Nat)
  BY <1>1, <1>2, <1>8
<1>10. Body(start, oid) = m[n] /\ upto(n) = done \o SubSeq(oid, 3, Len(oid))
  BY <1>1, BodyIsLast DEF m, n, upto
<1> QED BY <1>9, <1>10

\* What the body starts with stays in front of it.
LEMMA BodyStart ==
  ASSUME NEW r \in Nat, NEW oid \in Seq(Nat), Len(oid) >= 2
  PROVE  /\ Body(<<>>, oid) \in Seq(Nat)
         /\ Body(<<r>>, oid) = <<r>> \o Body(<<>>, oid)
<1> DEFINE n == Len(oid) - 2
           f == Bodies(<<>>, oid)
           g == Bodies(<<r>>, oid)
           P == {i \in Nat : i <= n => g[i] = <<r>> \o f[i]}
<1>0. <<>> \in Seq(Nat) /\ <<r>> \in Seq(Nat) /\ n \in Nat
  OBVIOUS
<1>1. /\ f \in [0 .. n -> Seq(Nat)]
      /\ f[0] = <<>>
      /\ \A i \in 1 .. n : f[i] = f[i - 1] \o ArcBytes(oid[i + 2])
  BY <1>0, BodiesExists
<1>2. /\ g[0] = <<r>>
      /\ \A i \in 1 .. n : g[i] = g[i - 1] \o ArcBytes(oid[i + 2])
  BY <1>0, BodiesExists
<1>3. \A i \in 1 .. n : ArcBytes(oid[i + 2]) \in Seq(Nat)
  <2> SUFFICES ASSUME NEW i \in 1 .. n PROVE ArcBytes(oid[i + 2]) \in Seq(Nat)
    OBVIOUS
  <2>1. oid[i + 2] \in Nat
    BY <1>0
  <2> QED BY <2>1, ArcInMarks
<1> HIDE DEF n, f, g
<1>4. 0 \in P
  <2>1. <<r>> \o <<>> = <<r>>
    OBVIOUS
  <2> QED BY <1>1, <1>2, <2>1
<1>5. ASSUME NEW i \in 1 .. n, i - 1 \in P PROVE i \in P
  <2>1. i - 1 \in 0 .. n /\ i - 1 <= n
    BY <1>0
  <2>2. g[i - 1] = <<r>> \o f[i - 1] /\ f[i - 1] \in Seq(Nat)
    BY <1>1, <1>5, <2>1
  <2>3. (<<r>> \o f[i - 1]) \o ArcBytes(oid[i + 2]) = <<r>> \o (f[i - 1] \o ArcBytes(oid[i + 2]))
    <3>1. f[i - 1] \in Seq(Nat) /\ ArcBytes(oid[i + 2]) \in Seq(Nat) /\ <<r>> \in Seq(Nat)
      BY <1>0, <1>3, <2>2
    <3> QED BY <3>1, JoinTwice
  <2>4. g[i] = <<r>> \o f[i]
    BY <1>1, <1>2, <2>2, <2>3
  <2> QED BY <2>4
<1>6. n \in P
  <2>1. n \in Nat
    BY <1>0
  <2> HIDE DEF P
  <2>2. \A i \in 0 .. n : i \in P
    BY <2>1, <1>4, <1>5, IntervalInduction
  <2> QED BY <2>1, <2>2
<1>7. Body(<<>>, oid) = f[n] /\ Body(<<r>>, oid) = g[n]
  BY <1>0, BodyIsLast DEF f, g, n
<1>8. g[n] = <<r>> \o f[n] /\ f[n] \in Seq(Nat)
  <2>1. n \in Nat /\ n \in 0 .. n
    BY <1>0
  <2>2. f[n] \in Seq(Nat)
    BY <1>1, <2>1
  <2> QED BY <1>6, <2>1, <2>2
<1> QED BY <1>7, <1>8

\* The OIDs whose first two arcs fit one byte below 128.
PlainOids == {oid \in Seq(Nat) : Len(oid) >= 2 /\ oid[1] \in 0 .. 2 /\ oid[2] \in 0 .. 39}

\* An arc below 128 is one byte.
LEMMA SmallArc ==
  ASSUME NEW n \in 0 .. 127
  PROVE  ArcBytes(n) = <<n>>
<1>1. n \div 128 = 0 /\ n % 128 = n /\ n \in Nat
  OBVIOUS
<1>2. ArcBytes(n) = Append(Marked(n)[0], n)
  BY <1>1, ArcInMarks
<1>3. Marked(n)[0] = <<>>
  BY <1>1, MarkedExists
<1>4. Append(<<>>, n) = <<n>>
  OBVIOUS
<1> QED BY <1>2, <1>3, <1>4

\* The byte of the first two arcs.
LEMMA RootByte ==
  ASSUME NEW oid \in PlainOids
  PROVE  /\ Root(oid) \in 0 .. 127
         /\ Root(oid) \div 40 = oid[1] /\ Root(oid) % 40 = oid[2]
         /\ Root(oid) - 40 * oid[1] = oid[2]
<1>1. oid[1] \in 0 .. 2 /\ oid[2] \in 0 .. 39
  BY DEF PlainOids
<1> DEFINE a == oid[1]
           b == oid[2]
<1>2. Root(oid) = 40 * a + b
  BY DEF Root
<1>3. a \in 0 .. 2 /\ b \in 0 .. 39
  BY <1>1
<1> HIDE DEF a, b
<1>4. (40 * a + b) \div 40 = a /\ (40 * a + b) % 40 = b /\ 40 * a + b \in 0 .. 127
        /\ 40 * a + b - 40 * a = b
  <2>1. a = 0 \/ a = 1 \/ a = 2
    BY <1>3
  <2> QED BY <1>3, <2>1
<1> QED BY <1>2, <1>4 DEF a, b

\* An OID is its first two arcs and the rest.
LEMMA OidParts ==
  ASSUME NEW oid \in Seq(Nat), Len(oid) >= 2
  PROVE  /\ SubSeq(oid, 3, Len(oid)) \in Seq(Nat)
         /\ <<oid[1], oid[2]>> \o SubSeq(oid, 3, Len(oid)) = oid
<1> DEFINE rest == SubSeq(oid, 3, Len(oid))
           all == <<oid[1], oid[2]>> \o rest
<1>0. Len(oid) \in Nat /\ \A i \in 3 .. Len(oid) : oid[i] \in Nat
  OBVIOUS
<1>1. rest \in Seq(Nat) /\ Len(rest) = Len(oid) - 2
        /\ \A i \in 1 .. Len(oid) - 2 : rest[i] = oid[i + 2]
  <2>1. /\ rest \in Seq(Nat)
        /\ Len(rest) = IF 3 <= Len(oid) THEN Len(oid) - 3 + 1 ELSE 0
        /\ \A i \in 1 .. Len(oid) - 3 + 1 : rest[i] = oid[3 + i - 1]
    <3>1. 3 \in Int /\ Len(oid) \in Int
      BY <1>0
    <3> QED BY ONLY <1>0, <3>1, SubSeqProperties
  <2>2. Len(rest) = Len(oid) - 2
    <3>1. Len(rest) = IF 3 <= Len(oid) THEN Len(oid) - 3 + 1 ELSE 0
      BY <2>1
    <3>2. Len(oid) \in Nat /\ Len(oid) >= 2
      BY <1>0
    <3> DEFINE size == Len(oid)
               short == Len(rest)
    <3>3. size \in Nat /\ size >= 2 /\ short = IF 3 <= size THEN size - 3 + 1 ELSE 0
      BY <3>1, <3>2
    <3> HIDE DEF size, short
    <3>4. short = size - 2
      BY <3>3
    <3> QED BY <3>4 DEF size, short
  <2>3. ASSUME NEW i \in 1 .. Len(oid) - 2 PROVE rest[i] = oid[i + 2]
    <3>1. i \in 1 .. Len(oid) - 3 + 1 /\ 3 + i - 1 = i + 2
      BY <1>0
    <3> QED BY <2>1, <3>1
  <2> QED BY <2>1, <2>2, <2>3
<1>2. oid[1] \in Nat /\ oid[2] \in Nat
  OBVIOUS
<1> HIDE DEF rest
<1>3. all \in Seq(Nat) /\ Len(all) = Len(oid)
  BY <1>1, <1>2
<1>4. ASSUME NEW i \in 1 .. Len(oid) PROVE all[i] = oid[i]
  <2>1. CASE i <= 2
    BY <1>1, <2>1
  <2>2. CASE i > 2
    <3>1. i - 2 \in 1 .. Len(oid) - 2 /\ i - 2 + 2 = i
      BY <2>2
    <3>2. all[i] = rest[i - 2]
      BY <1>1, <2>2
    <3> HIDE DEF all
    <3>3. rest[i - 2] = oid[i - 2 + 2]
      BY <1>1, <3>1
    <3> QED BY <3>1, <3>2, <3>3
  <2> HIDE DEF all
  <2> QED BY <1>0, <2>1, <2>2
<1> HIDE DEF all
<1>5. all = oid
  BY <1>3, <1>4, SeqEqual
<1> QED BY <1>1, <1>5 DEF rest, all

\* What stands in front of a sequence, and what is behind it.
LEMMA FrontAndTail ==
  ASSUME NEW r \in Nat, NEW s \in Seq(Nat)
  PROVE  /\ <<r>> \o s \in Seq(Nat)
         /\ (<<r>> \o s)[1] = r
         /\ Tail(<<r>> \o s) = s
         /\ <<r>> \o s # <<>>
<1> DEFINE all == <<r>> \o s
<1>1. all \in Seq(Nat) /\ Len(all) = Len(s) + 1 /\ all[1] = r
        /\ \A i \in 1 .. Len(s) : all[i + 1] = s[i]
  OBVIOUS
<1> HIDE DEF all
<1>2. Tail(all) \in Seq(Nat) /\ Len(Tail(all)) = Len(s)
        /\ \A i \in 1 .. Len(s) : Tail(all)[i] = all[i + 1]
  BY <1>1
<1>3. Tail(all) = s
  BY <1>1, <1>2, SeqEqual
<1>4. all # <<>>
  BY <1>1
<1> QED BY <1>1, <1>3, <1>4 DEF all

\* What a manager sends of a plain OID is what _oid makes of it, and each side
\* reads it as that OID.
LEMMA OidRoundTrip ==
  ASSUME NEW oid \in PlainOids
  PROVE  /\ Encodable(oid)
         /\ ManagerEncodes(oid) = EncodeOid(oid)
         /\ DecodeOid(ManagerEncodes(oid)) = oid
         /\ ManagerDecodes(EncodeOid(oid)) = oid
<1> DEFINE r == Root(oid)
           bytes == Body(<<r>>, oid)
           rest == SubSeq(oid, 3, Len(oid))
           from == State(<<>>, 0)
<1>1. oid \in Seq(Nat) /\ Len(oid) >= 2
  BY DEF PlainOids
<1>2. /\ r \in 0 .. 127 /\ r \in Nat
      /\ r \div 40 = oid[1] /\ r % 40 = oid[2] /\ r - 40 * oid[1] = oid[2]
  BY RootByte
<1>3. rest \in Seq(Nat) /\ <<oid[1], oid[2]>> \o rest = oid
  BY <1>1, OidParts
<1>4. <<>> \in Seq(Nat) /\ <<r>> \in Seq(Nat)
  BY <1>2
<1>5. ManagerEncodes(oid) = bytes /\ EncodeOid(oid) = bytes
  <2>1. ArcBytes(r) = <<r>>
    BY <1>2, SmallArc
  <2> QED BY <2>1 DEF ManagerEncodes, EncodeOid
<1> HIDE DEF rest, from
<1>6. DecodeOid(bytes) = oid
  <2> DEFINE tail == Body(<<>>, oid)
  <2>1. Ends(from, <<>>, from)
    BY EndsNone
  <2>2. from = State(<<>>, 0)
    BY DEF from
  <2>3. tail \in Seq(Nat) /\ Ends(from, tail, State(<<>> \o rest, 0))
    BY <1>1, <1>4, <2>1, <2>2, BodyIsRead DEF rest
  <2>4. <<>> \o rest = rest
    BY <1>3
  <2>5. bytes = <<r>> \o tail
    BY <1>1, <1>2, BodyStart
  <2> HIDE DEF tail, r, bytes
  <2>6. Arcs(tail) = rest
    <3>1. Arcs(tail) = State(rest, 0).values
      BY <2>2, <2>3, <2>4, EndsIsArcs
    <3> QED BY <3>1 DEF State
  <2>7. bytes[1] = r /\ Tail(bytes) = tail
    BY <1>2, <2>3, <2>5, FrontAndTail
  <2>8. DecodeOid(bytes) = <<r \div 40, r % 40>> \o rest
    BY <2>6, <2>7 DEF DecodeOid
  <2> QED BY <1>2, <1>3, <2>8
<1>7. ManagerDecodes(bytes) = oid
  <2>1. Ends(from, <<>>, State(<<>>, 0))
    BY EndsNone DEF from
  <2>2. Ends(from, Append(<<>>, r), Reading(State(<<>>, 0), r))
    BY <1>2, <1>4, <2>1, EndsAppend
  <2>3. Append(<<>>, r) = <<r>>
    OBVIOUS
  <2>4. Reading(State(<<>>, 0), r) = State(<<r>>, 0)
    <3>1. 0 * 128 + (r % 128) = r /\ r < 128
      <4> HIDE DEF r
      <4> QED BY <1>2
    <3> HIDE DEF r
    <3>2. Reading(State(<<>>, 0), r) = State(Append(<<>>, r), 0)
      <4>1. ~(r >= 128)
        BY <1>2, <3>1
      <4> QED BY <3>1, <4>1 DEF Reading, State
    <3> QED BY <2>3, <3>2
  <2>5. bytes \in Seq(Nat) /\ Ends(from, bytes, State(<<r>> \o rest, 0))
    BY <1>1, <1>4, <2>2, <2>3, <2>4, BodyIsRead DEF rest
  <2> HIDE DEF bytes, r
  <2>6. Arcs(bytes) = <<r>> \o rest
    <3>1. Arcs(bytes) = State(<<r>> \o rest, 0).values
      BY <2>5, EndsIsArcs DEF from
    <3> QED BY <3>1 DEF State
  <2> DEFINE arcs == Arcs(bytes)
  <2>7. arcs[1] = r /\ Tail(arcs) = rest
    BY <1>2, <1>3, <2>6, FrontAndTail
  <2>8. oid[1] \in Nat /\ oid[1] <= 2
    BY DEF PlainOids
  <2>9. Min({2, oid[1]}) = oid[1]
    BY <2>8, MinOfTwo
  <2>10. ManagerDecodes(bytes) = <<oid[1], r - 40 * oid[1]>> \o rest
    <3>1. Min({2, arcs[1] \div 40}) = oid[1]
      BY <1>2, <2>7, <2>9
    <3> HIDE DEF arcs
    <3>2. ManagerDecodes(bytes)
            = <<Min({2, arcs[1] \div 40}), arcs[1] - 40 * Min({2, arcs[1] \div 40})>> \o Tail(arcs)
      BY DEF ManagerDecodes, arcs
    <3> QED BY <2>7, <3>1, <3>2
  <2> QED BY <1>2, <1>3, <2>10
<1>8. Encodable(oid)
  BY <1>2 DEF Encodable
<1> QED BY <1>5, <1>6, <1>7, <1>8

(***************************************************************************)
(* Integers: the width that _integer takes and what is read back.          *)
(***************************************************************************)

\* abs(v), whose bits bit_length() counts.
Size(v) == IF v < 0 THEN -v ELSE v

\* BitLength is the recursion Bits at abs(v).
LEMMA LengthInBits ==
  ASSUME NEW v \in Int
  PROVE  /\ Size(v) \in Nat
         /\ BitLength(v) = Bits(Size(v))[Size(v)]
BY DEF BitLength, Bits, IsBits, Size

\* The length in bits grows with the number.
LEMMA BitsGrow ==
  ASSUME NEW n \in Nat
  PROVE  \A k \in 0 .. n : \A j \in 0 .. k : Bits(n)[j] <= Bits(n)[k]
<1> DEFINE b == Bits(n)
           P == {k \in Nat : k <= n => \A j \in 0 .. k : b[j] <= b[k]}
<1>1. /\ b \in [0 .. n -> Nat]
      /\ b[0] = 0
      /\ \A k \in 1 .. n : b[k] = 1 + b[k \div 2]
  BY BitsExists
<1> HIDE DEF b
<1>2. 0 \in P
  BY <1>1
<1>3. ASSUME NEW k \in 1 .. n, \A i \in 0 .. k - 1 : i \in P PROVE k \in P
  <2>1. ASSUME NEW j \in 0 .. k PROVE b[j] <= b[k]
    <3>1. CASE j = 0
      BY <1>1, <3>1
    <3>2. CASE j # 0
      <4>1. j \div 2 \in 0 .. k \div 2 /\ k \div 2 \in 0 .. k - 1
        BY <3>2
      <4>2. b[j \div 2] <= b[k \div 2]
        BY <1>3, <4>1
      <4>3. b[j] = 1 + b[j \div 2] /\ b[k] = 1 + b[k \div 2]
        <5>1. j \in 1 .. n /\ k \in 1 .. n
          BY <3>2
        <5> QED BY <1>1, <5>1
      <4>4. b[j \div 2] \in Nat /\ b[k \div 2] \in Nat
        BY <1>1, <4>1
      <4> QED BY <4>2, <4>3, <4>4
    <3> QED BY <3>1, <3>2
  <2> QED BY <2>1
<1>4. \A k \in 0 .. n : k \in P
  <2> HIDE DEF P
  <2> QED BY <1>2, <1>3, StrongInduction
<1> QED BY <1>4 DEF b

\* A number beyond 127 has more than seven bits.
LEMMA SevenBits ==
  ASSUME NEW n \in Nat, NEW k \in 0 .. n, Bits(n)[k] <= 7
  PROVE  k <= 127
<1> DEFINE b == Bits(n)
           Least(c, t) == \A i \in 0 .. n : i >= c => b[i] >= t
<1>1. /\ b \in [0 .. n -> Nat]
      /\ \A i \in 1 .. n : b[i] = 1 + b[i \div 2]
  BY BitsExists
<1> HIDE DEF b
<1>2. ASSUME NEW c \in Nat, c >= 1, NEW t \in Nat, Least(c, t)
      PROVE  Least(2 * c, t + 1)
  <2> SUFFICES ASSUME NEW i \in 0 .. n, i >= 2 * c PROVE b[i] >= t + 1
    OBVIOUS
  <2>1. i \div 2 \in 0 .. n /\ i \div 2 >= c /\ i \in 1 .. n
    BY <1>2
  <2>2. b[i \div 2] >= t /\ b[i \div 2] \in Nat
    BY <1>1, <1>2, <2>1
  <2> QED BY <1>1, <2>1, <2>2
<1>3. Least(1, 1)
  <2> SUFFICES ASSUME NEW i \in 0 .. n, i >= 1 PROVE b[i] >= 1
    OBVIOUS
  <2>1. i \div 2 \in 0 .. n /\ i \in 1 .. n
    OBVIOUS
  <2>2. b[i \div 2] \in Nat
    BY <1>1, <2>1
  <2> QED BY <1>1, <2>1, <2>2
<1> HIDE DEF Least
<1>4. Least(2, 2)
  <2>1. Least(2 * 1, 1 + 1)
    BY <1>2, <1>3
  <2> QED BY <2>1
<1>5. Least(4, 3)
  <2>1. Least(2 * 2, 2 + 1)
    BY <1>2, <1>4
  <2> QED BY <2>1
<1>6. Least(8, 4)
  <2>1. Least(2 * 4, 3 + 1)
    BY <1>2, <1>5
  <2> QED BY <2>1
<1>7. Least(16, 5)
  <2>1. Least(2 * 8, 4 + 1)
    BY <1>2, <1>6
  <2> QED BY <2>1
<1>8. Least(32, 6)
  <2>1. Least(2 * 16, 5 + 1)
    BY <1>2, <1>7
  <2> QED BY <2>1
<1>9. Least(64, 7)
  <2>1. Least(2 * 32, 6 + 1)
    BY <1>2, <1>8
  <2> QED BY <2>1
<1>10. Least(128, 8)
  <2>1. Least(2 * 64, 7 + 1)
    BY <1>2, <1>9
  <2> QED BY <2>1
<1>11. b[k] <= 7 /\ b[k] \in Nat
  BY <1>1 DEF b
<1>12. k >= 128 => b[k] >= 8
  BY <1>10 DEF Least
<1> QED BY <1>11, <1>12

\* A byte less is eight bits less.
LEMMA EightBitsLess ==
  ASSUME NEW n \in Nat, NEW k \in 0 .. n, k \div 256 # 0
  PROVE  /\ k \div 256 \in 0 .. n
         /\ Bits(n)[k] = 8 + Bits(n)[k \div 256]
<1> DEFINE b == Bits(n)
           h1 == k \div 2
           h2 == h1 \div 2
           h3 == h2 \div 2
           h4 == h3 \div 2
           h5 == h4 \div 2
           h6 == h5 \div 2
           h7 == h6 \div 2
           h8 == h7 \div 2
<1>1. /\ b \in [0 .. n -> Nat]
      /\ \A i \in 1 .. n : b[i] = 1 + b[i \div 2]
  BY BitsExists
<1>2. /\ k \in 1 .. n /\ h1 \in 1 .. n /\ h2 \in 1 .. n /\ h3 \in 1 .. n
      /\ h4 \in 1 .. n /\ h5 \in 1 .. n /\ h6 \in 1 .. n /\ h7 \in 1 .. n
      /\ h8 \in 0 .. n
      /\ h8 = k \div 256
  OBVIOUS
<1> HIDE DEF b
<1>3. b[k] = 1 + b[h1] /\ b[h1] = 1 + b[h2] /\ b[h2] = 1 + b[h3] /\ b[h3] = 1 + b[h4]
  BY <1>1, <1>2
<1>4. b[h4] = 1 + b[h5] /\ b[h5] = 1 + b[h6] /\ b[h6] = 1 + b[h7] /\ b[h7] = 1 + b[h8]
  BY <1>1, <1>2
<1> HIDE DEF h1, h2, h3, h4, h5, h6, h7, h8
<1>5. b[h8] \in Nat
  BY <1>1, <1>2
<1>6. b[k] = 8 + b[h8]
  BY <1>3, <1>4, <1>5
<1> QED BY <1>2, <1>6 DEF b

\* The bits of a number but for its sign: v, or for a negative one its complement.
Unsigned(u) == IF u >= 0 THEN u ELSE - u - 1

\* A shift by a byte is the same on these bits, and seven of them are a signed byte.
LEMMA UnsignedShift ==
  ASSUME NEW u \in Int
  PROVE  /\ Unsigned(u) \in Nat /\ Unsigned(u) <= Size(u) /\ Size(u) \in Nat
         /\ Unsigned(u \div 256) = Unsigned(u) \div 256
         /\ Unsigned(u) <= 127 => u \in -128 .. 127
BY DEF Unsigned, Size

\* What to_bytes leaves for the first byte is a signed byte: the width suffices.
LEMMA WidthFits ==
  ASSUME NEW v \in Int
  PROVE  /\ Width(v) \in Nat /\ Width(v) >= 1
         /\ Shifted(v, Width(v))[Width(v) - 1] \in -128 .. 127
<1> DEFINE n == Size(v)
           b == Bits(n)
           all == b[n]
           w == Width(v)
           s == Shifted(v, w)
<1>1. n \in Nat /\ BitLength(v) = all
  BY LengthInBits
<1>2. b \in [0 .. n -> Nat] /\ b[0] = 0 /\ \A k \in 0 .. n : b[k] <= all
  <2>1. b \in [0 .. n -> Nat] /\ b[0] = 0
    BY <1>1, BitsExists
  <2>2. \A k \in 0 .. n : b[k] <= all
    BY <1>1, BitsGrow
  <2> QED BY <2>1, <2>2
<1>3. all \in Nat
  BY <1>1, <1>2
<1>4. w = (all + 8) \div 8 /\ w \in Nat /\ w >= 1 /\ all - 8 * (w - 1) <= 7
  <2> HIDE DEF all
  <2>1. (all + 8) \div 8 \in Nat /\ (all + 8) \div 8 >= 1
          /\ all - 8 * ((all + 8) \div 8 - 1) <= 7
    BY <1>3
  <2>2. 1 \in Nat
    OBVIOUS
  <2>3. Max({1, (all + 8) \div 8}) = (all + 8) \div 8
    BY <2>1, <2>2, MaxOfTwo
  <2>4. w = (all + 8) \div 8
    BY <1>1, <2>3 DEF Width
  <2> HIDE DEF w
  <2> QED BY <2>1, <2>4
<1>5. /\ s \in [0 .. w -> Int]
      /\ s[0] = v
      /\ \A i \in 1 .. w : s[i] = s[i - 1] \div 256
  <2>1. w \in Nat
    BY <1>4
  <2> HIDE DEF w
  <2> QED BY <2>1, ShiftedExists
<1> DEFINE Fits(i) == /\ Unsigned(s[i]) \in 0 .. n
                      /\ b[Unsigned(s[i])] = 0 \/ b[Unsigned(s[i])] + 8 * i <= all
           P == {i \in Nat : i <= w => Fits(i)}
<1> HIDE DEF w, s, b
<1>6. 0 \in P
  <2>1. Unsigned(v) \in 0 .. n
    BY <1>1, UnsignedShift
  <2>2. b[Unsigned(v)] \in Nat /\ b[Unsigned(v)] <= all
    BY <1>2, <2>1
  <2>3. b[Unsigned(v)] + 8 * 0 <= all
    BY <1>3, <2>2
  <2> QED BY <1>5, <2>1, <2>3
<1>7. ASSUME NEW i \in 1 .. w, i - 1 \in P PROVE i \in P
  <2> DEFINE k == Unsigned(s[i - 1])
             h == Unsigned(s[i])
  <2>1. k \in 0 .. n /\ (b[k] = 0 \/ b[k] + 8 * (i - 1) <= all)
    <3>1. i - 1 <= w
      BY <1>4
    <3> QED BY <1>7, <3>1
  <2>2. s[i - 1] \in Int /\ s[i] = s[i - 1] \div 256
    <3>1. i - 1 \in 0 .. w
      BY <1>4
    <3> QED BY <1>5, <3>1
  <2>3. h = k \div 256
    BY <2>2, UnsignedShift
  <2> HIDE DEF k, h
  <2>4. h \in 0 .. n
    BY <1>1, <2>1, <2>3
  <2>5. b[h] = 0 \/ b[h] + 8 * i <= all
    <3>1. CASE h = 0
      BY <1>2, <3>1
    <3>2. CASE h # 0
      <4>1. b[k] = 8 + b[h]
        BY <1>1, <2>1, <2>3, <3>2, EightBitsLess DEF b
      <4>2. b[h] \in Nat
        BY <1>2, <2>4
      <4> HIDE DEF all
      <4>3. b[k] + 8 * (i - 1) <= all
        BY <2>1, <4>1, <4>2
      <4>4. b[k] + 8 * (i - 1) = b[h] + 8 * i
        BY <4>1, <4>2
      <4> QED BY <4>3, <4>4
    <3> QED BY <3>1, <3>2
  <2> QED BY <2>4, <2>5 DEF h
<1>8. \A i \in 0 .. w : i \in P
  <2>1. w \in Nat
    BY <1>4
  <2> HIDE DEF P
  <2> QED BY <1>6, <1>7, <2>1, IntervalInduction
<1>9. w - 1 \in 0 .. w /\ Fits(w - 1)
  BY <1>4, <1>8
<1> DEFINE u == s[w - 1]
           c == Unsigned(u)
<1>10. u \in Int /\ c \in 0 .. n /\ b[c] \in Nat
  BY <1>2, <1>5, <1>9
<1>11. b[c] <= 7
  <2> HIDE DEF all, c
  <2>1. b[c] = 0 \/ b[c] + 8 * (w - 1) <= all
    BY <1>9 DEF c
  <2> QED BY <1>3, <1>4, <1>10, <2>1
<1>12. c <= 127
  BY <1>1, <1>10, <1>11, SevenBits DEF b
<1>13. u \in -128 .. 127
  BY <1>10, <1>12, UnsignedShift
<1> QED BY <1>4, <1>13 DEF w, s

\* The least of some numbers is one of them.
LEMMA MinInSet ==
  ASSUME NEW T, T \subseteq Nat, T # {}
  PROVE  Min(T) \in T /\ \A x \in T : Min(T) <= x
<1>1. PICK m \in T : \A x \in T : m <= x
  BY LeastNat
<1> QED BY <1>1 DEF Min

\* What to_bytes makes of a number that fits.
LEMMA RawBytes ==
  ASSUME NEW v \in Int, NEW w \in Nat, w >= 1
  PROVE  /\ ToBytes(v, w) = [i \in 1 .. w |-> Shifted(v, w)[w - i] % 256]
         /\ ToBytes(v, w) \in Seq(Nat) /\ Len(ToBytes(v, w)) = w
         /\ \A i \in 1 .. w : ToBytes(v, w)[i] \in 0 .. 255
<1> DEFINE s == Shifted(v, w)
           raw == [i \in 1 .. w |-> s[w - i] % 256]
<1>1. ToBytes(v, w) = raw
  BY DEF ToBytes, Shifted, IsShifted
<1>2. s \in [0 .. w -> Int]
  BY ShiftedExists
<1> HIDE DEF s
<1>3. \A i \in 1 .. w : raw[i] \in 0 .. 255
  <2> SUFFICES ASSUME NEW i \in 1 .. w PROVE s[w - i] % 256 \in 0 .. 255
    OBVIOUS
  <2>1. w - i \in 0 .. w
    OBVIOUS
  <2>2. s[w - i] \in Int
    BY <1>2, <2>1
  <2> QED BY <2>2, Octet
<1>4. raw \in Seq(Nat) /\ Len(raw) = w
  <2>1. \A i \in 1 .. w : raw[i] \in Nat
    BY <1>3
  <2>2. raw \in [1 .. w -> Nat]
    <3>1. raw = [i \in 1 .. w |-> raw[i]]
      OBVIOUS
    <3> HIDE DEF raw
    <3> QED BY <2>1, <3>1
  <2> HIDE DEF raw
  <2> QED BY <2>2, IsASeq
<1> HIDE DEF raw
<1>5. ToBytes(v, w) \in Seq(Nat) /\ Len(ToBytes(v, w)) = w
        /\ \A i \in 1 .. w : ToBytes(v, w)[i] \in 0 .. 255
  BY <1>1, <1>3, <1>4
<1> QED BY <1>1, <1>5 DEF raw, s

\* The recursion inside DecodeInteger.
IsValue(f, bytes) ==
    f = [i \in 0 .. Len(bytes) |->
            IF i = 0 THEN (IF bytes[1] >= 128 THEN -1 ELSE 0)
            ELSE f[i - 1] * 256 + bytes[i]]

\* A function that satisfies the recursion is what from_bytes computes.
LEMMA ValueIsRead ==
  ASSUME NEW bytes, NEW n \in Nat, n = Len(bytes), NEW g, IsValue(g, bytes)
  PROVE  DecodeInteger(bytes) = g[n]
<1> DEFINE f == CHOOSE f : IsValue(f, bytes)
<1>1. DecodeInteger(bytes) = f[n]
  BY DEF DecodeInteger, IsValue
<1>2. IsValue(f, bytes)
  OBVIOUS
<1> HIDE DEF f
<1>3. \A h : IsValue(h, bytes) =>
        /\ h[0] = IF bytes[1] >= 128 THEN -1 ELSE 0
        /\ \A i \in 1 .. n : h[i] = h[i - 1] * 256 + bytes[i]
  <2> SUFFICES ASSUME NEW h, IsValue(h, bytes)
               PROVE  /\ h[0] = IF bytes[1] >= 128 THEN -1 ELSE 0
                      /\ \A i \in 1 .. n : h[i] = h[i - 1] * 256 + bytes[i]
    OBVIOUS
  <2> DEFINE body(i) == IF i = 0 THEN (IF bytes[1] >= 128 THEN -1 ELSE 0)
                        ELSE h[i - 1] * 256 + bytes[i]
  <2>1. h = [i \in 0 .. n |-> body(i)]
    BY DEF IsValue
  <2>2. \A i \in 0 .. n : h[i] = body(i)
    <3> HIDE DEF body
    <3> QED BY <2>1
  <2>3. 0 \in 0 .. n /\ \A i \in 1 .. n : i \in 0 .. n /\ i # 0
    OBVIOUS
  <2>4. h[0] = body(0) /\ \A i \in 1 .. n : h[i] = body(i)
    <3> HIDE DEF body
    <3> QED BY <2>2, <2>3
  <2>5. \A i \in 1 .. n : body(i) = h[i - 1] * 256 + bytes[i]
    BY <2>3
  <2> QED BY <2>4, <2>5
<1> DEFINE P == {i \in Nat : i <= n => f[i] = g[i]}
<1>4. 0 \in P
  BY <1>2, <1>3
<1>5. ASSUME NEW i \in 1 .. n, i - 1 \in P PROVE i \in P
  <2>1. f[i - 1] = g[i - 1]
    BY <1>5
  <2>2. f[i] = f[i - 1] * 256 + bytes[i] /\ g[i] = g[i - 1] * 256 + bytes[i]
    BY <1>2, <1>3
  <2> QED BY <2>1, <2>2
<1>6. \A i \in 0 .. n : i \in P
  <2> HIDE DEF P
  <2> QED BY <1>4, <1>5, IntervalInduction
<1>7. f[n] = g[n]
  BY <1>6
<1> QED BY <1>1, <1>7

\* An integer is read back as it was.
LEMMA IntegerRoundTrip ==
  ASSUME NEW v \in Int
  PROVE  DecodeInteger(EncodeInteger(v)) = v
<1> DEFINE w == Width(v)
           s == Shifted(v, w)
           raw == ToBytes(v, w)
           Redundant(i) == \/ raw[i] = 0 /\ raw[i + 1] < 128
                           \/ raw[i] = 255 /\ raw[i + 1] >= 128
           Ends0 == {k \in 0 .. w - 1 : k = w - 1 \/ ~Redundant(k + 1)}
           d == Min(Ends0)
           n == w - d
           bytes == SubSeq(raw, d + 1, w)
<1>1. w \in Nat /\ w >= 1 /\ s[w - 1] \in -128 .. 127
  BY WidthFits
<1>2. raw \in Seq(Nat) /\ Len(raw) = w /\ \A i \in 1 .. w : raw[i] \in 0 .. 255
  <2>1. w \in Nat /\ w >= 1
    BY <1>1
  <2> HIDE DEF w
  <2> QED BY <2>1, RawBytes
<1>3. /\ s \in [0 .. w -> Int]
      /\ s[0] = v
      /\ \A i \in 1 .. w : s[i] = s[i - 1] \div 256
  <2>1. w \in Nat
    BY <1>1
  <2> HIDE DEF w
  <2> QED BY <2>1, ShiftedExists
<1>4. \A i \in 1 .. w : raw[i] = s[w - i] % 256
  <2>1. w \in Nat /\ w >= 1
    BY <1>1
  <2> HIDE DEF w
  <2>2. raw = [i \in 1 .. w |-> s[w - i] % 256]
    BY <2>1, RawBytes
  <2> HIDE DEF raw, s
  <2> QED BY <2>2
<1>5. EncodeInteger(v) = bytes
  <2>1. Len(raw) = w
    BY <1>2
  <2> QED BY <2>1 DEF EncodeInteger
<1> HIDE DEF w, s, raw
<1>6. d \in 0 .. w - 1 /\ \A k \in 0 .. w - 1 : k < d => Redundant(k + 1)
  <2>1. w - 1 \in Ends0 /\ Ends0 \subseteq Nat
    BY <1>1
  <2>2. d \in Ends0 /\ \A x \in Ends0 : d <= x
    <3> HIDE DEF Ends0
    <3>1. Ends0 # {}
      BY <2>1
    <3> QED BY <2>1, <3>1, MinInSet
  <2> HIDE DEF d
  <2>3. d \in 0 .. w - 1
    BY <2>2
  <2>4. ASSUME NEW k \in 0 .. w - 1, k < d PROVE Redundant(k + 1)
    <3>1. k \notin Ends0
      BY <1>1, <2>2, <2>3, <2>4
    <3> HIDE DEF Redundant
    <3> QED BY <3>1
  <2> QED BY <2>3, <2>4
<1> HIDE DEF d
\* After each dropped byte what is left is still a signed byte at the top.
<1>7. s[n - 1] \in -128 .. 127
  <2> DEFINE P == {k \in Nat : k <= d => s[w - k - 1] \in -128 .. 127}
  <2>1. 0 \in P
    BY <1>1
  <2>2. ASSUME NEW k \in 1 .. d, k - 1 \in P PROVE k \in P
    <3> DEFINE a == s[w - k]
               b == s[w - k - 1]
    <3>1. w - (k - 1) - 1 = w - k /\ k - 1 <= d
      BY <1>1, <1>6
    <3>2. a \in -128 .. 127
      BY <2>2, <3>1
    <3>3. w - k \in 1 .. w /\ w - k - 1 \in 0 .. w /\ (w - k) - 1 = w - k - 1
      BY <1>1, <1>6
    <3>4. a = b \div 256 /\ b \in Int
      BY <1>3, <3>3
    <3>5. raw[k] = a % 256 /\ raw[k + 1] = b % 256
      <4>1. k \in 1 .. w /\ k + 1 \in 1 .. w /\ w - (k + 1) = w - k - 1
        BY <1>1, <1>6
      <4> QED BY <1>4, <4>1
    <3>6. Redundant(k)
      <4>1. k - 1 \in 0 .. w - 1 /\ k - 1 < d /\ k - 1 + 1 = k
        BY <1>1, <1>6
      <4> HIDE DEF Redundant
      <4>2. Redundant(k - 1 + 1)
        BY <1>6, <4>1
      <4> QED BY <4>1, <4>2
    <3>7. \/ a % 256 = 0 /\ b % 256 < 128
          \/ a % 256 = 255 /\ b % 256 >= 128
      BY <3>5, <3>6
    <3> HIDE DEF a, b
    <3>8. a = 0 \/ a = -1
      BY <3>2, <3>7
    <3>9. b = 256 * a + (b % 256) /\ b % 256 \in 0 .. 255
      BY <3>4
    <3>10. b \in -128 .. 127
      BY <3>2, <3>4, <3>7, <3>8, <3>9
    <3> QED BY <3>10 DEF b
  <2>3. \A k \in 0 .. d : k \in P
    <3>1. d \in Nat
      BY <1>1, <1>6
    <3> HIDE DEF P
    <3> QED BY <2>1, <2>2, <3>1, IntervalInduction
  <2>4. d \in 0 .. d /\ d \in Nat /\ w - d - 1 = n - 1
    BY <1>1, <1>6
  <2>5. s[w - d - 1] \in -128 .. 127
    BY <2>3, <2>4
  <2> QED BY <2>4, <2>5
<1>8. /\ n \in 1 .. w /\ Len(bytes) = n
      /\ \A i \in 1 .. n : bytes[i] = s[n - i] % 256
  <2>0. n \in 1 .. w /\ d + 1 \in 1 .. w /\ w - (d + 1) + 1 = n
    BY <1>1, <1>6
  <2>1. \A i \in d + 1 .. w : raw[i] \in Nat
    BY <1>2, <2>0
  <2>2. /\ Len(bytes) = IF d + 1 <= w THEN w - (d + 1) + 1 ELSE 0
        /\ \A i \in 1 .. w - (d + 1) + 1 : bytes[i] = raw[d + 1 + i - 1]
    <3>1. d + 1 \in Int /\ w \in Int
      BY <1>1, <2>0
    <3> QED BY <2>1, <3>1, SubSeqProperties
  <2> HIDE DEF bytes
  <2>3. Len(bytes) = n
    BY <2>0, <2>2
  <2>4. ASSUME NEW i \in 1 .. n PROVE bytes[i] = s[n - i] % 256
    <3>1. d + 1 + i - 1 \in 1 .. w /\ w - (d + 1 + i - 1) = n - i
      BY <1>1, <1>6
    <3>2. bytes[i] = raw[d + 1 + i - 1]
      BY <2>0, <2>2
    <3> QED BY <1>4, <3>1, <3>2
  <2> QED BY <2>0, <2>3, <2>4
<1>9. n \in Nat /\ \A i \in 0 .. n : s[i] \in Int
  <2>1. n \in Nat /\ n <= w
    BY <1>1, <1>8
  <2> HIDE DEF n
  <2>2. \A i \in 0 .. n : i \in 0 .. w
    BY <1>1, <2>1
  <2> QED BY <1>3, <2>1, <2>2
<1>10. \A i \in 1 .. n : s[i] = s[i - 1] \div 256
  <2>1. n \in Nat /\ n <= w
    BY <1>1, <1>8
  <2> HIDE DEF n
  <2>2. \A i \in 1 .. n : i \in 1 .. w
    BY <1>1, <2>1
  <2> QED BY <1>3, <2>2
<1> DEFINE sign == IF bytes[1] >= 128 THEN -1 ELSE 0
           g == [i \in 0 .. n |-> IF i = 0 THEN sign ELSE s[n - i]]
<1> HIDE DEF n, bytes
<1>11. ASSUME NEW i \in 1 .. n PROVE g[i] = g[i - 1] * 256 + bytes[i]
  <2>1. n - i \in 0 .. n /\ g[i] = s[n - i] /\ bytes[i] = s[n - i] % 256
    BY <1>8, <1>9
  <2> DEFINE b == s[n - i]
  <2>2. b \in Int
    BY <1>9, <2>1
  <2>3. CASE i = 1
    <3>1. b \in -128 .. 127
      BY <1>7, <2>3
    <3>2. g[i - 1] = sign
      <4>1. 0 \in 0 .. n
        BY <1>9
      <4> HIDE DEF sign
      <4>2. g[0] = sign
        BY <4>1
      <4> QED BY <2>3, <4>2
    <3>3. bytes[1] = b % 256
      BY <2>1, <2>3
    <3> HIDE DEF b, g
    <3>4. sign = IF b % 256 >= 128 THEN -1 ELSE 0
      BY <3>3
    <3> HIDE DEF sign
    <3>5. b = sign * 256 + (b % 256)
      BY <3>1, <3>4
    <3>6. g[i] = b /\ bytes[i] = b % 256
      BY <2>1 DEF b
    <3> QED BY <3>2, <3>5, <3>6
  <2>4. CASE i # 1
    <3>1. n - (i - 1) \in 1 .. n /\ n - (i - 1) - 1 = n - i /\ i - 1 \in 0 .. n /\ i - 1 # 0
      BY <1>9, <2>4
    <3>2. g[i - 1] = s[n - (i - 1)]
      BY <3>1
    <3>3. s[n - (i - 1)] = b \div 256
      BY <1>10, <3>1
    <3> HIDE DEF b, g
    <3>4. b = (b \div 256) * 256 + (b % 256)
      BY <2>2
    <3>5. g[i] = b /\ bytes[i] = b % 256
      BY <2>1 DEF b
    <3> QED BY <3>2, <3>3, <3>4, <3>5
  <2> QED BY <2>3, <2>4
<1>12. IsValue(g, bytes)
  <2> DEFINE h == [i \in 0 .. n |-> IF i = 0 THEN sign ELSE g[i - 1] * 256 + bytes[i]]
  <2>1. ASSUME NEW i \in 0 .. n PROVE g[i] = h[i]
    <3>1. CASE i = 0
      BY <3>1
    <3>2. CASE i # 0
      <4>1. i \in 1 .. n
        BY <1>9, <3>2
      <4>2. h[i] = g[i - 1] * 256 + bytes[i]
        BY <3>2
      <4> HIDE DEF g, h
      <4> QED BY <1>11, <4>1, <4>2
    <3> QED BY <3>1, <3>2
  <2>2. g = [i \in 0 .. n |-> g[i]] /\ h = [i \in 0 .. n |-> h[i]]
    OBVIOUS
  <2>3. g = h
    <3> HIDE DEF g, h
    <3> QED BY <2>1, <2>2
  <2>4. Len(bytes) = n
    BY <1>8
  <2> HIDE DEF g
  <2> QED BY <2>3, <2>4 DEF IsValue
<1>13. g[n] = v
  <2>1. n # 0 /\ n \in 0 .. n /\ n - n = 0
    BY <1>8, <1>9
  <2> QED BY <1>3, <2>1
<1> HIDE DEF g
<1>14. DecodeInteger(bytes) = g[n]
  <2>1. n = Len(bytes)
    BY <1>8
  <2> QED BY <1>9, <1>12, <2>1, ValueIsRead
<1> QED BY <1>5, <1>13, <1>14

(***************************************************************************)
(* The order of OIDs is a strict total order.                              *)
(***************************************************************************)
\* Arcs are numbers.
LEMMA ArcsAreNumbers ==
  ASSUME NEW a \in Seq(Nat)
  PROVE  Len(a) \in Nat /\ \A j \in 1 .. Len(a) : a[j] \in Nat
OBVIOUS

\* a and b are alike before place i, where a ends or has the smaller arc.
BeforeAt(a, b, i) ==
    /\ i \in 1 .. Len(b)
    /\ \A j \in 1 .. i - 1 : j <= Len(a) /\ a[j] = b[j]
    /\ i = Len(a) + 1 \/ (i <= Len(a) /\ a[i] < b[i])

\* Before says that there is such a place.
LEMMA BeforeMeans ==
  ASSUME NEW a, NEW b
  PROVE  Before(a, b) <=> \E i : BeforeAt(a, b, i)
BY DEF Before, BeforeAt

\* The order is irreflexive, transitive and total.
LEMMA BeforeIrreflexive ==
  ASSUME NEW a \in Seq(Nat)
  PROVE  ~Before(a, a)
<1> SUFFICES ASSUME NEW i, BeforeAt(a, a, i) PROVE FALSE
  BY BeforeMeans
<1>1. i \in 1 .. Len(a) /\ Len(a) \in Nat /\ a[i] \in Nat
  BY DEF BeforeAt
<1> QED BY <1>1 DEF BeforeAt

LEMMA BeforeTransitive ==
  ASSUME NEW a \in Seq(Nat), NEW b \in Seq(Nat), NEW c \in Seq(Nat),
         Before(a, b), Before(b, c)
  PROVE  Before(a, c)
<1>1. PICK i : BeforeAt(a, b, i)
  BY BeforeMeans
<1>2. PICK k : BeforeAt(b, c, k)
  BY BeforeMeans
<1>3. /\ Len(a) \in Nat /\ Len(b) \in Nat /\ Len(c) \in Nat
      /\ \A j \in 1 .. Len(a) : a[j] \in Nat
      /\ \A j \in 1 .. Len(b) : b[j] \in Nat
      /\ \A j \in 1 .. Len(c) : c[j] \in Nat
  BY ArcsAreNumbers
<1>4. i \in 1 .. Len(b) /\ k \in 1 .. Len(c)
  BY <1>1, <1>2 DEF BeforeAt
<1>5. \A j \in 1 .. i - 1 : j <= Len(a) /\ a[j] = b[j]
  BY <1>1 DEF BeforeAt
<1>6. \A j \in 1 .. k - 1 : j <= Len(b) /\ b[j] = c[j]
  BY <1>2 DEF BeforeAt
<1>7. i = Len(a) + 1 \/ (i <= Len(a) /\ a[i] < b[i])
  BY <1>1 DEF BeforeAt
<1>8. k = Len(b) + 1 \/ (k <= Len(b) /\ b[k] < c[k])
  BY <1>2 DEF BeforeAt
<1>9. CASE i < k
  <2>1. b[i] = c[i] /\ i \in 1 .. Len(c)
    BY <1>3, <1>4, <1>6, <1>9
  <2>2. \A j \in 1 .. i - 1 : j <= Len(a) /\ a[j] = c[j]
    BY <1>3, <1>4, <1>5, <1>6, <1>9
  <2>3. BeforeAt(a, c, i)
    BY <1>7, <2>1, <2>2 DEF BeforeAt
  <2> QED BY <2>3, BeforeMeans
<1>10. CASE i = k
  <2>1. k <= Len(b) /\ b[k] < c[k]
    BY <1>3, <1>4, <1>8, <1>10
  <2>2. \A j \in 1 .. i - 1 : j <= Len(a) /\ a[j] = c[j]
    BY <1>5, <1>6, <1>10
  <2>3. i = Len(a) + 1 \/ (i <= Len(a) /\ a[i] < c[i])
    <3>1. CASE i <= Len(a)
      <4>1. a[i] \in Nat /\ b[i] \in Nat /\ c[i] \in Nat
        BY <1>3, <1>4, <1>10, <2>1, <3>1
      <4>2. a[i] < b[i] /\ b[i] < c[i]
        BY <1>3, <1>7, <1>10, <2>1, <3>1
      <4> QED BY <3>1, <4>1, <4>2
    <3> QED BY <1>7, <3>1
  <2>4. BeforeAt(a, c, i)
    BY <1>4, <1>10, <2>2, <2>3 DEF BeforeAt
  <2> QED BY <2>4, BeforeMeans
<1>11. CASE i > k
  <2>1. k \in 1 .. i - 1
    BY <1>4, <1>11
  <2>2. k <= Len(a) /\ a[k] = b[k]
    BY <1>5, <2>1
  <2>3. k <= Len(b) /\ b[k] < c[k]
    BY <1>3, <1>4, <1>8, <1>11
  <2>4. \A j \in 1 .. k - 1 : j <= Len(a) /\ a[j] = c[j]
    BY <1>3, <1>4, <1>5, <1>6, <1>11
  <2>5. BeforeAt(a, c, k)
    BY <1>4, <2>2, <2>3, <2>4 DEF BeforeAt
  <2> QED BY <2>5, BeforeMeans
<1> QED BY <1>4, <1>9, <1>10, <1>11

LEMMA BeforeTotal ==
  ASSUME NEW a \in Seq(Nat), NEW b \in Seq(Nat), a # b
  PROVE  Before(a, b) \/ Before(b, a)
<1> DEFINE Alike(i) == i <= Len(a) /\ i <= Len(b) /\ a[i] = b[i]
           T == {i \in Nat : i >= 1 /\ ~Alike(i)}
<1>1. /\ Len(a) \in Nat /\ Len(b) \in Nat
      /\ \A j \in 1 .. Len(a) : a[j] \in Nat
      /\ \A j \in 1 .. Len(b) : b[j] \in Nat
  BY ArcsAreNumbers
<1>2. Len(a) + 1 \in T
  BY <1>1
<1>3. PICK i \in T : \A k \in T : i <= k
  <2> HIDE DEF T
  <2>1. T \subseteq Nat
    BY DEF T
  <2> QED BY <1>2, <2>1, LeastNat
<1>4. i \in Nat /\ i >= 1 /\ ~Alike(i)
  OBVIOUS
<1>5. \A j \in 1 .. i - 1 : Alike(j)
  <2> SUFFICES ASSUME NEW j \in 1 .. i - 1, ~Alike(j) PROVE FALSE
    OBVIOUS
  <2>1. j \in T /\ j < i
    BY <1>4
  <2> QED BY <1>3, <1>4, <2>1
<1>6. i <= Len(a) + 1 /\ i <= Len(b) + 1
  <2>1. i - 1 \in Nat /\ (i - 1 >= 1 => i - 1 \in 1 .. i - 1)
    BY <1>4
  <2> QED BY <1>1, <1>4, <1>5, <2>1
<1>7. \A j \in 1 .. i - 1 : j <= Len(a) /\ j <= Len(b) /\ a[j] = b[j]
  BY <1>5
<1>8. CASE i = Len(a) + 1 /\ i = Len(b) + 1
  <2>1. Len(a) = Len(b) /\ \A j \in 1 .. Len(a) : a[j] = b[j]
    BY <1>1, <1>7, <1>8
  <2>2. a = b
    BY <2>1, SeqEqual
  <2> QED BY <2>2
<1>9. CASE i = Len(a) + 1 /\ i <= Len(b)
  <2>1. BeforeAt(a, b, i)
    BY <1>4, <1>7, <1>9 DEF BeforeAt
  <2> QED BY <2>1, BeforeMeans
<1>10. CASE i <= Len(a) /\ i = Len(b) + 1
  <2>1. BeforeAt(b, a, i)
    BY <1>4, <1>7, <1>10 DEF BeforeAt
  <2> QED BY <2>1, BeforeMeans
<1>11. CASE i <= Len(a) /\ i <= Len(b)
  <2>1. a[i] \in Nat /\ b[i] \in Nat /\ a[i] # b[i]
    BY <1>1, <1>4, <1>11
  <2>2. CASE a[i] < b[i]
    <3>1. BeforeAt(a, b, i)
      BY <1>4, <1>7, <1>11, <2>2 DEF BeforeAt
    <3> QED BY <3>1, BeforeMeans
  <2>3. CASE b[i] < a[i]
    <3>1. BeforeAt(b, a, i)
      BY <1>4, <1>7, <1>11, <2>3 DEF BeforeAt
    <3> QED BY <3>1, BeforeMeans
  <2> QED BY <2>1, <2>2, <2>3
<1> QED BY <1>1, <1>4, <1>6, <1>8, <1>9, <1>10, <1>11

\* What begins with an OID comes after it.
LEMMA BeforeLonger ==
  ASSUME NEW a \in Seq(Nat), NEW s \in Seq(Nat), Len(s) >= 1
  PROVE  Before(a, a \o s)
<1>1. Len(a) \in Nat /\ Len(s) \in Nat /\ Len(a \o s) = Len(a) + Len(s)
        /\ \A j \in 1 .. Len(a) : (a \o s)[j] = a[j]
  OBVIOUS
<1> DEFINE b == a \o s
<1> HIDE DEF b
<1>2. BeforeAt(a, b, Len(a) + 1)
  BY <1>1 DEF BeforeAt, b
<1>3. Before(a, b)
  BY <1>2, BeforeMeans
<1> QED BY <1>3 DEF b

(***************************************************************************)
(* A table: finitely many rows with plain OIDs, no two with the same.      *)
(***************************************************************************)
IsRow(row) ==
    /\ row[1] \in PlainOids
    /\ row = <<row[1], row[2]>>
    /\ row[2] # EndOfMibView

IsTable(table) ==
    /\ IsFiniteSet(table)
    /\ \A row \in table : IsRow(row)
    /\ \A row, other \in table : row[1] = other[1] => row = other

\* The rows that are not after an OID.
UpTo(table, oid) == {row \in table : ~Before(oid, row[1])}

\* There are finitely many of them.
LEMMA UpToFinite ==
  ASSUME NEW table, IsTable(table), NEW oid
  PROVE  /\ IsFiniteSet(UpTo(table, oid))
         /\ Cardinality(UpTo(table, oid)) \in Nat
         /\ UpTo(table, oid) \subseteq table
<1>1. UpTo(table, oid) \subseteq table /\ IsFiniteSet(table)
  BY DEF UpTo, IsTable
<1>2. IsFiniteSet(UpTo(table, oid))
  BY <1>1, FS_Subset
<1> QED BY <1>1, <1>2, FS_CardinalityType

\* The OID of a row of a table.
LEMMA RowOid ==
  ASSUME NEW table, IsTable(table), NEW row \in table
  PROVE  row[1] \in PlainOids /\ row[1] \in Seq(Nat)
BY DEF IsTable, IsRow, PlainOids

\* A row before another has fewer rows that are not after it.
LEMMA FewerUpTo ==
  ASSUME NEW table, IsTable(table), NEW a \in table, NEW b \in table,
         Before(a[1], b[1])
  PROVE  Cardinality(UpTo(table, a[1])) < Cardinality(UpTo(table, b[1]))
<1> DEFINE A == UpTo(table, a[1])
           B == UpTo(table, b[1])
<1>1. a[1] \in Seq(Nat) /\ b[1] \in Seq(Nat)
  BY RowOid
<1>2. ASSUME NEW row \in A PROVE row \in B
  <2>1. row \in table /\ ~Before(a[1], row[1])
    BY DEF UpTo
  <2>2. row[1] \in Seq(Nat)
    BY <2>1, RowOid
  <2>3. ~Before(b[1], row[1])
    BY <1>1, <2>1, <2>2, BeforeTransitive
  <2> QED BY <2>1, <2>3 DEF UpTo
<1>3. b \in B /\ b \notin A
  BY <1>1, BeforeIrreflexive DEF UpTo
<1>4. IsFiniteSet(B) /\ Cardinality(A) \in Nat /\ Cardinality(B) \in Nat
  BY UpToFinite
<1> HIDE DEF A, B
<1>5. Cardinality(A) <= Cardinality(B) /\ (Cardinality(B) = Cardinality(A) => B = A)
  <2>1. A \in SUBSET B
    BY <1>2
  <2> QED BY <1>4, <2>1, FS_Subset
<1>6. Cardinality(A) < Cardinality(B)
  BY <1>3, <1>4, <1>5
<1> QED BY <1>6 DEF A, B

\* Behind an OID that no row follows, all of the table lies before it.
LEMMA NoSuccessor ==
  ASSUME NEW table, IsTable(table), NEW oid \in PlainOids, Successor(table, oid) = {}
  PROVE  UpTo(table, oid) = table
<1> SUFFICES ASSUME NEW row \in table, Before(oid, row[1]) PROVE FALSE
  BY DEF UpTo
<1> DEFINE Following == {r \in table : Before(oid, r[1])}
           Places == {Cardinality(UpTo(table, r[1])) : r \in Following}
<1>1. Places \subseteq Nat /\ Places # {}
  <2>1. \A r \in Following : Cardinality(UpTo(table, r[1])) \in Nat
    BY UpToFinite
  <2>2. row \in Following
    OBVIOUS
  <2> HIDE DEF Following
  <2> QED BY <2>1, <2>2
<1>2. PICK p \in Places : \A q \in Places : p <= q
  <2> HIDE DEF Places
  <2> QED BY <1>1, LeastNat
<1>3. PICK s \in Following : p = Cardinality(UpTo(table, s[1]))
  OBVIOUS
<1>4. s \in table /\ Before(oid, s[1])
  OBVIOUS
<1>5. ASSUME NEW other \in table, Before(oid, other[1]), Before(other[1], s[1])
      PROVE  FALSE
  <2>1. Cardinality(UpTo(table, other[1])) < p
    BY <1>3, <1>4, <1>5, FewerUpTo
  <2>2. other \in Following
    BY <1>5
  <2>3. Cardinality(UpTo(table, other[1])) \in Places
    <3> HIDE DEF Following
    <3> QED BY <2>2
  <2> HIDE DEF Places
  <2>4. p <= Cardinality(UpTo(table, other[1]))
    BY <1>2, <2>3
  <2>5. p \in Nat /\ Cardinality(UpTo(table, other[1])) \in Nat
    BY <1>1, <2>3
  <2> QED BY <2>1, <2>4, <2>5
<1>6. s \in Successor(table, oid)
  BY <1>4, <1>5 DEF Successor
<1> QED BY <1>6

\* The successor is the only row that comes to lie before the new OID.
LEMMA SuccessorAddsOne ==
  ASSUME NEW table, IsTable(table), NEW oid \in PlainOids,
         NEW s \in Successor(table, oid)
  PROVE  /\ s \in table /\ s \notin UpTo(table, oid)
         /\ UpTo(table, s[1]) = UpTo(table, oid) \cup {s}
         /\ Cardinality(UpTo(table, s[1])) = Cardinality(UpTo(table, oid)) + 1
<1>1. s \in table /\ Before(oid, s[1])
        /\ \A other \in table : Before(oid, other[1]) => ~Before(other[1], s[1])
  BY DEF Successor
<1>2. oid \in Seq(Nat) /\ s[1] \in Seq(Nat)
  BY <1>1, RowOid DEF PlainOids
<1>3. s \notin UpTo(table, oid)
  BY <1>1 DEF UpTo
<1>4. ASSUME NEW row \in table, ~Before(s[1], row[1]), row # s
      PROVE  ~Before(oid, row[1])
  <2>1. row[1] \in Seq(Nat) /\ row[1] # s[1]
    BY <1>1, <1>4, RowOid DEF IsTable
  <2>2. Before(row[1], s[1])
    BY <1>2, <1>4, <2>1, BeforeTotal
  <2> QED BY <1>1, <2>2
<1>5. ASSUME NEW row \in table, ~Before(oid, row[1])
      PROVE  ~Before(s[1], row[1])
  <2>1. row[1] \in Seq(Nat)
    BY RowOid
  <2> QED BY <1>1, <1>2, <1>5, <2>1, BeforeTransitive
<1>6. ~Before(s[1], s[1])
  BY <1>2, BeforeIrreflexive
<1>7. UpTo(table, s[1]) = UpTo(table, oid) \cup {s}
  BY <1>1, <1>4, <1>5, <1>6 DEF UpTo
<1>8. IsFiniteSet(UpTo(table, oid))
  BY UpToFinite
<1>9. Cardinality(UpTo(table, oid) \cup {s}) = Cardinality(UpTo(table, oid)) + 1
  BY <1>3, <1>8, FS_AddElement
<1> QED BY <1>1, <1>3, <1>7, <1>9

\* The answers so far are the rows up to the cursor, each at its place.
Listed(table, answers, oid) ==
    /\ answers \in Seq(table)
    /\ Len(answers) = Cardinality(UpTo(table, oid))
    /\ \A row \in UpTo(table, oid) : answers[Cardinality(UpTo(table, row[1]))] = row

\* A walk begins with no answers, before all rows.
LEMMA NothingListed ==
  ASSUME NEW table, NEW oid, \A row \in table : Before(oid, row[1])
  PROVE  Listed(table, <<>>, oid)
<1>1. UpTo(table, oid) = {}
  BY DEF UpTo
<1>2. Cardinality({}) = 0
  BY FS_EmptySet
<1>3. <<>> \in Seq(table) /\ Len(<<>>) = 0
  OBVIOUS
<1> QED BY <1>1, <1>2, <1>3 DEF Listed

\* The successor's answer is the next of the list.
LEMMA OneMoreListed ==
  ASSUME NEW table, IsTable(table), NEW oid \in PlainOids, NEW answers,
         Listed(table, answers, oid), NEW s \in Successor(table, oid)
  PROVE  Listed(table, Append(answers, s), s[1])
<1> DEFINE n == Cardinality(UpTo(table, oid))
           more == Append(answers, s)
           Place(row) == Cardinality(UpTo(table, row[1]))
<1>1. /\ s \in table /\ s \notin UpTo(table, oid)
      /\ UpTo(table, s[1]) = UpTo(table, oid) \cup {s}
      /\ Place(s) = n + 1
  BY SuccessorAddsOne
<1>2. n \in Nat
  BY UpToFinite
<1>3. answers \in Seq(table) /\ Len(answers) = n
        /\ \A row \in UpTo(table, oid) : answers[Place(row)] = row
  BY DEF Listed
<1>4. more \in Seq(table) /\ Len(more) = n + 1 /\ more[n + 1] = s
        /\ \A i \in 1 .. n : more[i] = answers[i]
  BY <1>1, <1>2, <1>3, AppendProperties
<1>5. ASSUME NEW row \in UpTo(table, oid) PROVE Place(row) \in 1 .. n
  <2>1. row \in table /\ ~Before(oid, row[1])
    BY DEF UpTo
  <2>2. row[1] \in Seq(Nat) /\ oid \in Seq(Nat)
    BY <2>1, RowOid DEF PlainOids
  <2>3. UpTo(table, row[1]) \subseteq UpTo(table, oid)
    <3> SUFFICES ASSUME NEW other \in table, ~Before(row[1], other[1]), Before(oid, other[1])
                 PROVE  FALSE
      BY DEF UpTo
    <3>1. other[1] \in Seq(Nat)
      BY RowOid
    <3>2. CASE row[1] = other[1]
      BY <2>1, <3>2
    <3>3. CASE row[1] # other[1]
      <4>1. Before(other[1], row[1])
        BY <2>2, <3>1, <3>3, BeforeTotal
      <4> QED BY <2>1, <2>2, <3>1, <4>1, BeforeTransitive
    <3> QED BY <3>2, <3>3
  <2>4. IsFiniteSet(UpTo(table, oid))
    BY UpToFinite
  <2>5. Place(row) <= n
    BY <2>3, <2>4, FS_Subset
  <2>6. Place(row) \in Nat /\ Place(row) # 0
    <3>1. row \in UpTo(table, row[1])
      BY <2>1, <2>2, BeforeIrreflexive DEF UpTo
    <3>2. IsFiniteSet(UpTo(table, row[1])) /\ Place(row) \in Nat
      BY UpToFinite
    <3>3. UpTo(table, row[1]) # {}
      BY <3>1
    <3> QED BY <3>2, <3>3, FS_EmptySet
  <2> HIDE DEF n, Place
  <2> QED BY <1>2, <2>5, <2>6
<1> HIDE DEF n, more, Place
<1>6. ASSUME NEW row \in UpTo(table, s[1]) PROVE more[Place(row)] = row
  <2>1. CASE row = s
    BY <1>1, <1>4, <2>1
  <2>2. CASE row \in UpTo(table, oid)
    <3>1. Place(row) \in 1 .. n
      BY <1>5, <2>2
    <3> QED BY <1>3, <1>4, <2>2, <3>1
  <2> QED BY <1>1, <2>1, <2>2
<1>7. Len(more) = Place(s)
  BY <1>1, <1>4
<1> QED BY <1>4, <1>6, <1>7 DEF Listed, more, Place

\* GET finds a row by its OID; GETNEXT answers with the successor or says that
\* there is none.
LEMMA GetFinds ==
  ASSUME NEW table, IsTable(table), NEW row \in table
  PROVE  Get(table, ManagerEncodes(row[1])) = row[2]
<1>1. row[1] \in PlainOids
  BY RowOid
<1>2. DecodeOid(ManagerEncodes(row[1])) = row[1]
  BY <1>1, OidRoundTrip
<1>3. {r \in table : r[1] = row[1]} = {row}
  BY DEF IsTable
<1>4. (CHOOSE r \in {row} : TRUE) = row
  OBVIOUS
<1>5. {row} # {}
  OBVIOUS
<1>6. Get(table, ManagerEncodes(row[1]))
        = IF {r \in table : r[1] = row[1]} = {} THEN NoSuchObject
          ELSE (CHOOSE r \in {r \in table : r[1] = row[1]} : TRUE)[2]
  BY <1>2 DEF Get
<1> QED BY <1>3, <1>4, <1>5, <1>6

\* GET finds nothing under an OID that no row has.
LEMMA GetMisses ==
  ASSUME NEW table, NEW oid \in PlainOids, \A row \in table : row[1] # oid
  PROVE  Get(table, ManagerEncodes(oid)) = NoSuchObject
<1>1. DecodeOid(ManagerEncodes(oid)) = oid
  BY OidRoundTrip
<1>2. {r \in table : r[1] = oid} = {}
  OBVIOUS
<1> QED BY <1>1, <1>2 DEF Get

\* GETNEXT answers with a successor, if there is one.
LEMMA GetNextAnswers ==
  ASSUME NEW table, IsTable(table), NEW oid \in PlainOids
  PROVE  /\ Successor(table, oid) = {} =>
              GetNext(table, ManagerEncodes(oid)) = <<EncodeOid(oid), EndOfMibView>>
         /\ Successor(table, oid) # {} => \E s \in Successor(table, oid) :
              GetNext(table, ManagerEncodes(oid)) = <<EncodeOid(s[1]), s[2]>>
<1>1. DecodeOid(ManagerEncodes(oid)) = oid /\ Encodable(oid)
  BY OidRoundTrip
<1>2. CASE Successor(table, oid) = {}
  BY <1>1, <1>2 DEF GetNext
<1>3. CASE Successor(table, oid) # {}
  <2> DEFINE s == CHOOSE row \in Successor(table, oid) : TRUE
  <2>1. s \in Successor(table, oid)
    BY <1>3
  <2>2. Encodable(s[1])
    <3>1. s \in table
      BY <2>1 DEF Successor
    <3>2. s[1] \in PlainOids
      BY <3>1, RowOid
    <3> QED BY <3>2, OidRoundTrip
  <2>3. GetNext(table, ManagerEncodes(oid)) = <<EncodeOid(s[1]), s[2]>>
    BY <1>1, <1>3, <2>2 DEF GetNext
  <2> HIDE DEF s
  <2> QED BY <1>3, <2>1, <2>3
<1> QED BY <1>2, <1>3

(***************************************************************************)
(* The rows of mib().                                                      *)
(***************************************************************************)
VersionRow == <<base \o <<1, 0>>, <<"version">>>>
CountRow == <<base \o <<2, 0>>, <<"integer", EncodeInteger(Cardinality(DOMAIN snapshot))>>>>
DeviceOid(d, c) == base \o <<10, 1, c, Index(d)>>
DeviceCell(d, c) == IF c = 4 THEN <<"integer", EncodeInteger(snapshot[d].rssi)>>
                    ELSE <<"octets", d, c>>
DeviceRow(d, c) == <<DeviceOid(d, c), DeviceCell(d, c)>>
ScalarOid(d, c, v) == base \o <<20, 1, c, Index(d), v>>
ScalarRow(d, c, v) == <<ScalarOid(d, c, v), <<"octets", d, c, v>>>>

DeviceRows(d) == {DeviceRow(d, c) : c \in Columns(d)}
ScalarRows(d) == {ScalarRow(d, c, v) : c \in ScalarColumns, v \in 1 .. snapshot[d].scalars}

\* mib() is the two scalars and, of each device, its row and its values.
LEMMA MibRows ==
  Mib = {VersionRow, CountRow} \cup UNION {DeviceRows(d) \cup ScalarRows(d) : d \in DOMAIN snapshot}
BY DEF Mib, VersionRow, CountRow, DeviceOid, DeviceCell, DeviceRow, ScalarOid,
       ScalarRow, DeviceRows, ScalarRows

\* So a row is of one of four kinds.
LEMMA RowKinds ==
  ASSUME NEW row \in Mib
  PROVE  \/ row = VersionRow
         \/ row = CountRow
         \/ \E d \in DOMAIN snapshot : \E c \in Columns(d) : row = DeviceRow(d, c)
         \/ \E d \in DOMAIN snapshot : \E c \in ScalarColumns, v \in 1 .. snapshot[d].scalars :
              row = ScalarRow(d, c, v)
BY MibRows DEF DeviceRows, ScalarRows

\* The base is one that was parsed, the devices are a snapshot.
SnmpTyped == base \in Bases /\ snapshot \in Snapshots

\* What follows for the base and for a device's entry.
LEMMA SnapshotTypes ==
  ASSUME SnmpTyped
  PROVE  /\ base \in Seq(Nat) /\ Len(base) >= 3
         /\ SharedByteFits => base \in PlainOids
         /\ IsFiniteSet(DOMAIN snapshot) /\ DOMAIN snapshot \subseteq Nat
         /\ \A d \in DOMAIN snapshot :
              /\ snapshot[d].rssi \in Numbers \cup {Absent}
              /\ snapshot[d].columns \subseteq Measured
              /\ snapshot[d].scalars \in Nat
<1>1. base \in ParsedOids
  BY AgentAssumption DEF SnmpTyped
<1>2. base \in Seq(Nat) /\ Len(base) >= 3 /\ base[1] \in 0 .. 2
  BY <1>1 DEF ParsedOids
<1>3. SharedByteFits => base \in PlainOids
  <2> SUFFICES ASSUME base[2] < 40 PROVE base \in PlainOids
    BY DEF SharedByteFits
  <2>1. Len(base) \in Nat /\ 2 \in 1 .. Len(base)
    BY <1>2, LenProperties
  <2>2. base[2] \in Nat
    BY <1>2, <2>1, ElementOfSeq
  <2>3. base[2] \in 0 .. 39
    BY <2>2
  <2>4. Len(base) >= 2
    BY <1>2, <2>1
  <2> QED BY <1>2, <2>3, <2>4 DEF PlainOids
<1>4. PICK found \in SUBSET Addresses : snapshot \in [found -> Payload]
  BY DEF SnmpTyped, Snapshots
<1>5. DOMAIN snapshot = found
  BY <1>4
<1>6. IsFiniteSet(found) /\ found \subseteq Nat
  BY <1>4, FS_Subset, AgentAssumption
<1>7. ASSUME NEW d \in found
      PROVE  /\ snapshot[d].rssi \in Numbers \cup {Absent}
             /\ snapshot[d].columns \subseteq Measured
             /\ snapshot[d].scalars \in Nat
  <2>1. snapshot[d] \in Payload
    BY <1>4, <1>7
  <2>2. MaxScalars \in Nat
    BY AgentAssumption
  <2> QED BY <2>1, <2>2 DEF Payload
<1> QED BY <1>2, <1>3, <1>5, <1>6, <1>7

\* No two devices have the same row index.
LEMMA IndexInjective ==
  ASSUME SnmpTyped
  PROVE  /\ \A d \in DOMAIN snapshot : Index(d) \in Nat
         /\ \A d, e \in DOMAIN snapshot : Index(d) = Index(e) => d = e
<1> DEFINE D == DOMAIN snapshot
           Low(d) == {e \in D : e <= d}
<1>1. IsFiniteSet(D) /\ D \subseteq Nat
  BY SnapshotTypes
<1>2. \A d : Index(d) = Cardinality(Low(d))
  BY DEF Index
<1> HIDE DEF D
<1>3. ASSUME NEW d PROVE IsFiniteSet(Low(d)) /\ Cardinality(Low(d)) \in Nat
  <2>1. Low(d) \in SUBSET D
    OBVIOUS
  <2>2. IsFiniteSet(Low(d))
    BY <1>1, <2>1, FS_Subset
  <2> QED BY <2>2, FS_CardinalityType
<1>4. ASSUME NEW d \in D, NEW e \in D, d < e
      PROVE  Cardinality(Low(d)) # Cardinality(Low(e))
  <2>1. d \in Nat /\ e \in Nat
    BY <1>1
  <2>2. ASSUME NEW x \in Low(d) PROVE x \in Low(e)
    <3>1. x \in Nat /\ x <= d /\ x \in D
      BY <1>1
    <3> QED BY <1>4, <2>1, <3>1
  <2>3. e \in Low(e) /\ e \notin Low(d)
    BY <1>4, <2>1
  <2>4. Low(d) \in SUBSET Low(e) /\ Low(d) # Low(e)
    <3> HIDE DEF Low
    <3> QED BY <2>2, <2>3
  <2>5. IsFiniteSet(Low(e))
    BY <1>3
  <2> HIDE DEF Low
  <2> QED BY <2>4, <2>5, FS_Subset
<1>5. ASSUME NEW d \in D, NEW e \in D, Index(d) = Index(e) PROVE d = e
  <2>1. d \in Nat /\ e \in Nat
    BY <1>1
  <2>2. Cardinality(Low(d)) = Cardinality(Low(e))
    BY <1>2, <1>5
  <2>3. ~(d < e) /\ ~(e < d)
    <3> HIDE DEF Low
    <3> QED BY <1>4, <2>2
  <2> QED BY <2>1, <2>3
<1> QED BY <1>2, <1>3, <1>5 DEF D

\* The columns of a row.
LEMMA ColumnTypes ==
  ASSUME SnmpTyped, NEW d \in DOMAIN snapshot
  PROVE  /\ Columns(d) \subseteq Nat /\ IsFiniteSet(Columns(d))
         /\ 2 \in Columns(d)
         /\ 4 \in Columns(d) <=> snapshot[d].rssi # Absent
<1> DEFINE own == snapshot[d].columns
           rssi == IF snapshot[d].rssi = Absent THEN {} ELSE {4}
<1>1. own \subseteq Measured
  BY SnapshotTypes
<1>2. Columns(d) = Identity \cup own \cup rssi
  BY DEF Columns
<1>3. /\ Identity \cup Measured \subseteq Nat \ {0, 4} /\ 2 \in Identity
      /\ IsFiniteSet(Identity) /\ IsFiniteSet(Measured)
  BY AgentAssumption
<1>4. IsFiniteSet(own)
  BY <1>1, <1>3, FS_Subset
<1>5. IsFiniteSet(rssi) /\ rssi \subseteq Nat
  <2>1. IsFiniteSet({}) /\ IsFiniteSet({4})
    BY FS_EmptySet, FS_Singleton
  <2>2. rssi = {} \/ rssi = {4}
    OBVIOUS
  <2>3. {} \subseteq Nat /\ {4} \subseteq Nat
    OBVIOUS
  <2> HIDE DEF rssi
  <2> QED BY <2>1, <2>2, <2>3
<1> HIDE DEF own
<1>6. IsFiniteSet(Identity \cup own)
  BY <1>3, <1>4, FS_Union
<1>7. IsFiniteSet(Identity \cup own \cup rssi)
  <2> HIDE DEF rssi
  <2> QED BY <1>5, <1>6, FS_Union
<1>8. 4 \notin Identity \cup own /\ 2 \in Identity
  BY <1>1, <1>3
<1>9. 4 \in rssi <=> snapshot[d].rssi # Absent
  OBVIOUS
<1>10. Identity \cup own \subseteq Nat
  BY <1>1, <1>3
<1> HIDE DEF rssi
<1> QED BY <1>2, <1>5, <1>7, <1>8, <1>9, <1>10

\* What a function takes on over a finite set is finite.
LEMMA ImageFinite ==
  ASSUME NEW S, IsFiniteSet(S), NEW f, f = [x \in S |-> f[x]]
  PROVE  IsFiniteSet({f[x] : x \in S})
<1> DEFINE T == {f[x] : x \in S}
<1>1. f \in [S -> T]
  OBVIOUS
<1>2. \A t \in T : \E x \in S : f[x] = t
  OBVIOUS
<1> HIDE DEF T
<1>3. f \in Surjection(S, T)
  BY <1>1, <1>2 DEF Surjection
<1>4. IsFiniteSet(T)
  BY <1>3, FS_Surjection
<1> QED BY <1>4 DEF T

\* A snapshot has finitely many rows.
LEMMA DeviceRowsFinite ==
  ASSUME SnmpTyped, NEW d \in DOMAIN snapshot
  PROVE  IsFiniteSet(DeviceRows(d))
<1> DEFINE f == [c \in Columns(d) |-> DeviceRow(d, c)]
<1>1. IsFiniteSet(Columns(d))
  BY ColumnTypes
<1>2. f = [c \in Columns(d) |-> f[c]] /\ DeviceRows(d) = {f[c] : c \in Columns(d)}
  BY DEF DeviceRows
<1> HIDE DEF f
<1> QED BY <1>1, <1>2, ImageFinite

\* The same for the generic table and for both.
LEMMA ScalarRowsFinite ==
  ASSUME SnmpTyped, NEW d \in DOMAIN snapshot
  PROVE  IsFiniteSet(ScalarRows(d))
<1> DEFINE V == 1 .. snapshot[d].scalars
           f(c) == [v \in V |-> ScalarRow(d, c, v)]
           Of(c) == {f(c)[v] : v \in V}
           g == [c \in ScalarColumns |-> Of(c)]
<1>1. snapshot[d].scalars \in Nat
  BY SnapshotTypes
<1>2. IsFiniteSet(V)
  BY <1>1, FS_Interval
<1>3. IsFiniteSet(ScalarColumns)
  BY AgentAssumption
<1>4. ScalarRows(d) = UNION {g[c] : c \in ScalarColumns}
  <2>1. \A c \in ScalarColumns : g[c] = {ScalarRow(d, c, v) : v \in V}
    OBVIOUS
  <2>2. ScalarRows(d) = {ScalarRow(d, c, v) : c \in ScalarColumns, v \in V}
    BY DEF ScalarRows
  <2> HIDE DEF V, g
  <2>3. ScalarRows(d) = UNION {{ScalarRow(d, c, v) : v \in V} : c \in ScalarColumns}
    BY <2>2
  <2>4. {{ScalarRow(d, c, v) : v \in V} : c \in ScalarColumns} = {g[c] : c \in ScalarColumns}
    BY <2>1
  <2> QED BY <2>3, <2>4
<1> HIDE DEF V
<1>5. ASSUME NEW c \in ScalarColumns PROVE IsFiniteSet(g[c])
  <2>1. f(c) = [v \in V |-> f(c)[v]]
    OBVIOUS
  <2>2. g[c] = Of(c)
    OBVIOUS
  <2> HIDE DEF f, g
  <2> QED BY <1>2, <2>1, <2>2, ImageFinite
<1>6. g = [c \in ScalarColumns |-> g[c]]
  OBVIOUS
<1> HIDE DEF g
<1> DEFINE U == {g[c] : c \in ScalarColumns}
<1>7. IsFiniteSet(U)
  BY <1>3, <1>6, ImageFinite
<1>8. \A T \in U : IsFiniteSet(T)
  BY <1>5
<1>9. ScalarRows(d) = UNION U
  BY <1>4
<1> HIDE DEF U
<1> QED BY <1>7, <1>8, <1>9, FS_UNION

LEMMA MibFinite ==
  ASSUME SnmpTyped
  PROVE  IsFiniteSet(Mib)
<1> DEFINE g == [d \in DOMAIN snapshot |-> DeviceRows(d) \cup ScalarRows(d)]
           U == {g[d] : d \in DOMAIN snapshot}
<1>1. ASSUME NEW d \in DOMAIN snapshot PROVE IsFiniteSet(g[d])
  <2>1. IsFiniteSet(DeviceRows(d) \cup ScalarRows(d))
    BY DeviceRowsFinite, ScalarRowsFinite, FS_Union
  <2> QED BY <2>1
<1>2. IsFiniteSet(DOMAIN snapshot)
  BY SnapshotTypes
<1>3. g = [d \in DOMAIN snapshot |-> g[d]]
  OBVIOUS
<1>4. Mib = {VersionRow, CountRow} \cup UNION U
  BY MibRows
<1> HIDE DEF g
<1>5. IsFiniteSet(U)
  BY <1>2, <1>3, ImageFinite
<1>6. \A T \in U : IsFiniteSet(T)
  BY <1>1
<1> HIDE DEF U
<1>7. IsFiniteSet(UNION U)
  BY <1>5, <1>6, FS_UNION
<1>8. IsFiniteSet({VersionRow, CountRow})
  <2>1. IsFiniteSet({VersionRow} \cup {CountRow})
    BY FS_Singleton, FS_Union
  <2>2. {VersionRow} \cup {CountRow} = {VersionRow, CountRow}
    OBVIOUS
  <2> QED BY <2>1, <2>2
<1> QED BY <1>4, <1>7, <1>8, FS_Union

(***************************************************************************)
(* Every row lies under the base, each under an OID of its own.            *)
(***************************************************************************)
\* The row's OID is the base and these arcs.
Below(row, suffix) ==
    /\ suffix \in Seq(Nat) /\ Len(suffix) >= 1
    /\ row = <<row[1], row[2]>>
    /\ row[1] = base \o suffix
    /\ row[2] # EndOfMibView

\* The four kinds of rows, with the arcs they have below the base.
IsVersion(row, suffix) == row = VersionRow /\ suffix = <<1, 0>>
IsCount(row, suffix) == row = CountRow /\ suffix = <<2, 0>>
IsDevice(row, suffix) ==
    \E d \in DOMAIN snapshot : \E c \in Columns(d) :
        row = DeviceRow(d, c) /\ suffix = <<10, 1, c, Index(d)>>
IsScalar(row, suffix) ==
    \E d \in DOMAIN snapshot : \E c \in ScalarColumns, v \in 1 .. snapshot[d].scalars :
        row = ScalarRow(d, c, v) /\ suffix = <<20, 1, c, Index(d), v>>

\* Each kind of row lies below the base, and no cell is endOfMibView.
LEMMA DeviceBelow ==
  ASSUME SnmpTyped, NEW d \in DOMAIN snapshot, NEW c \in Columns(d)
  PROVE  Below(DeviceRow(d, c), <<10, 1, c, Index(d)>>)
<1> DEFINE s == <<10, 1, c, Index(d)>>
<1>1. Index(d) \in Nat
  BY IndexInjective
<1>2. c \in Nat
  BY ColumnTypes
<1>3. s \in Seq(Nat) /\ Len(s) = 4
  BY <1>1, <1>2
<1>4. DeviceCell(d, c) # EndOfMibView
  BY DEF DeviceCell, EndOfMibView
<1> QED BY <1>3, <1>4 DEF Below, DeviceRow, DeviceOid

LEMMA ScalarBelow ==
  ASSUME SnmpTyped, NEW d \in DOMAIN snapshot, NEW c \in ScalarColumns,
         NEW v \in 1 .. snapshot[d].scalars
  PROVE  Below(ScalarRow(d, c, v), <<20, 1, c, Index(d), v>>)
<1> DEFINE s == <<20, 1, c, Index(d), v>>
<1>1. Index(d) \in Nat
  BY IndexInjective
<1>2. c \in Nat
  BY AgentAssumption
<1>3. v \in Nat
  OBVIOUS
<1>4. s \in Seq(Nat) /\ Len(s) = 5
  BY <1>1, <1>2, <1>3
<1>5. <<"octets", d, c, v>> # EndOfMibView
  BY DEF EndOfMibView
<1> QED BY <1>4, <1>5 DEF Below, ScalarRow, ScalarOid

LEMMA RowsBelow ==
  ASSUME SnmpTyped, NEW row \in Mib
  PROVE  \E suffix : /\ Below(row, suffix)
                     /\ \/ IsVersion(row, suffix)
                        \/ IsCount(row, suffix)
                        \/ IsDevice(row, suffix)
                        \/ IsScalar(row, suffix)
<1>1. CASE row = VersionRow
  <2>1. <<1, 0>> \in Seq(Nat) /\ Len(<<1, 0>>) = 2 /\ <<"version">> # EndOfMibView
    BY DEF EndOfMibView
  <2>2. Below(row, <<1, 0>>)
    BY <1>1, <2>1 DEF Below, VersionRow
  <2> QED BY <1>1, <2>2 DEF IsVersion
<1>2. CASE row = CountRow
  <2>1. <<2, 0>> \in Seq(Nat) /\ Len(<<2, 0>>) = 2
    OBVIOUS
  <2>2. \A x : <<"integer", x>> # EndOfMibView
    BY DEF EndOfMibView
  <2>3. Below(row, <<2, 0>>)
    BY <1>2, <2>1, <2>2 DEF Below, CountRow
  <2> QED BY <1>2, <2>3 DEF IsCount
<1>3. ASSUME NEW d \in DOMAIN snapshot, NEW c \in Columns(d), row = DeviceRow(d, c)
      PROVE  \E suffix : Below(row, suffix) /\ IsDevice(row, suffix)
  BY <1>3, DeviceBelow DEF IsDevice
<1>4. ASSUME NEW d \in DOMAIN snapshot, NEW c \in ScalarColumns,
             NEW v \in 1 .. snapshot[d].scalars, row = ScalarRow(d, c, v)
      PROVE  \E suffix : Below(row, suffix) /\ IsScalar(row, suffix)
  BY <1>4, ScalarBelow DEF IsScalar
<1> QED BY <1>1, <1>2, <1>3, <1>4, RowKinds

\* Two rows with one suffix are the same row.
LEMMA SuffixNamesRow ==
  ASSUME SnmpTyped, NEW row \in Mib, NEW other \in Mib, NEW suffix,
         IsVersion(row, suffix) \/ IsCount(row, suffix)
           \/ IsDevice(row, suffix) \/ IsScalar(row, suffix),
         IsVersion(other, suffix) \/ IsCount(other, suffix)
           \/ IsDevice(other, suffix) \/ IsScalar(other, suffix)
  PROVE  row = other
<1>1. CASE Len(suffix) = 2
  <2>1. /\ ~IsDevice(row, suffix) /\ ~IsScalar(row, suffix)
        /\ ~IsDevice(other, suffix) /\ ~IsScalar(other, suffix)
    BY <1>1 DEF IsDevice, IsScalar
  <2>2. <<1, 0>> # <<2, 0>>
    OBVIOUS
  <2> QED BY <2>1, <2>2 DEF IsVersion, IsCount
<1>2. CASE Len(suffix) = 4
  <2>1. IsDevice(row, suffix) /\ IsDevice(other, suffix)
    BY <1>2 DEF IsVersion, IsCount, IsScalar
  <2>2. PICK d \in DOMAIN snapshot : \E c \in Columns(d) :
            row = DeviceRow(d, c) /\ suffix = <<10, 1, c, Index(d)>>
    BY <2>1 DEF IsDevice
  <2>3. PICK c \in Columns(d) : row = DeviceRow(d, c) /\ suffix = <<10, 1, c, Index(d)>>
    BY <2>2
  <2>4. PICK e \in DOMAIN snapshot : \E b \in Columns(e) :
            other = DeviceRow(e, b) /\ suffix = <<10, 1, b, Index(e)>>
    BY <2>1 DEF IsDevice
  <2>5. PICK b \in Columns(e) : other = DeviceRow(e, b) /\ suffix = <<10, 1, b, Index(e)>>
    BY <2>4
  <2>6. c = b /\ Index(d) = Index(e)
    BY <2>3, <2>5
  <2>7. d = e
    BY <2>6, IndexInjective
  <2> QED BY <2>3, <2>5, <2>6, <2>7
<1>3. CASE Len(suffix) = 5
  <2>1. IsScalar(row, suffix) /\ IsScalar(other, suffix)
    BY <1>3 DEF IsVersion, IsCount, IsDevice
  <2>2. PICK d \in DOMAIN snapshot : \E c \in ScalarColumns, v \in 1 .. snapshot[d].scalars :
            row = ScalarRow(d, c, v) /\ suffix = <<20, 1, c, Index(d), v>>
    BY <2>1 DEF IsScalar
  <2>3. PICK c \in ScalarColumns, v \in 1 .. snapshot[d].scalars :
            row = ScalarRow(d, c, v) /\ suffix = <<20, 1, c, Index(d), v>>
    BY <2>2
  <2>4. PICK e \in DOMAIN snapshot : \E b \in ScalarColumns, w \in 1 .. snapshot[e].scalars :
            other = ScalarRow(e, b, w) /\ suffix = <<20, 1, b, Index(e), w>>
    BY <2>1 DEF IsScalar
  <2>5. PICK b \in ScalarColumns, w \in 1 .. snapshot[e].scalars :
            other = ScalarRow(e, b, w) /\ suffix = <<20, 1, b, Index(e), w>>
    BY <2>4
  <2>6. c = b /\ Index(d) = Index(e) /\ v = w
    BY <2>3, <2>5
  <2>7. d = e
    BY <2>6, IndexInjective
  <2> QED BY <2>3, <2>5, <2>6, <2>7
<1>4. Len(suffix) = 2 \/ Len(suffix) = 4 \/ Len(suffix) = 5
  BY DEF IsVersion, IsCount, IsDevice, IsScalar
<1> QED BY <1>1, <1>2, <1>3, <1>4

\* No two rows have one OID.
LEMMA RowOidsDiffer ==
  ASSUME SnmpTyped
  PROVE  \A row, other \in Mib : row[1] = other[1] => row = other
<1> SUFFICES ASSUME NEW row \in Mib, NEW other \in Mib, row[1] = other[1]
             PROVE  row = other
  OBVIOUS
<1>1. PICK s : /\ Below(row, s)
               /\ IsVersion(row, s) \/ IsCount(row, s) \/ IsDevice(row, s) \/ IsScalar(row, s)
  BY RowsBelow
<1>2. PICK t : /\ Below(other, t)
               /\ IsVersion(other, t) \/ IsCount(other, t) \/ IsDevice(other, t) \/ IsScalar(other, t)
  BY RowsBelow
<1>3. base \in Seq(Nat)
  BY SnapshotTypes
<1>4. s \in Seq(Nat) /\ t \in Seq(Nat) /\ base \o s = base \o t
  BY <1>1, <1>2 DEF Below
<1>5. s = t
  BY <1>3, <1>4, ConcatSimplifications
<1> QED BY <1>1, <1>2, <1>5, SuffixNamesRow

\* An OID stays plain under more arcs.
LEMMA PlainLonger ==
  ASSUME NEW a \in PlainOids, NEW s \in Seq(Nat)
  PROVE  a \o s \in PlainOids
<1>1. a \in Seq(Nat) /\ Len(a) >= 2 /\ a[1] \in 0 .. 2 /\ a[2] \in 0 .. 39
  BY DEF PlainOids
<1>2. Len(a) \in Nat /\ Len(s) \in Nat
  BY <1>1
<1>3. /\ a \o s \in Seq(Nat) /\ Len(a \o s) = Len(a) + Len(s)
      /\ (a \o s)[1] = a[1] /\ (a \o s)[2] = a[2]
  BY <1>1, <1>2, ConcatProperties
<1>4. Len(a \o s) >= 2
  BY <1>1, <1>2, <1>3
<1> QED BY <1>1, <1>3, <1>4 DEF PlainOids

\* What a walk and GET rely on: mib() is a table, all of it after the base.
LEMMA MibIsTable ==
  ASSUME SnmpTyped, SharedByteFits
  PROVE  /\ IsTable(Mib)
         /\ base \in PlainOids
         /\ \A row \in Mib : Before(base, row[1])
<1>1. base \in PlainOids /\ base \in Seq(Nat)
  BY SnapshotTypes
<1>2. ASSUME NEW row \in Mib PROVE IsRow(row) /\ Before(base, row[1])
  <2>1. PICK s : Below(row, s)
    BY RowsBelow
  <2>2. s \in Seq(Nat) /\ Len(s) >= 1 /\ row[1] = base \o s
    BY <2>1 DEF Below
  <2>3. row[1] \in PlainOids
    BY <1>1, <2>2, PlainLonger
  <2>4. Before(base, row[1])
    BY <1>1, <2>2, BeforeLonger
  <2> QED BY <2>1, <2>3, <2>4 DEF IsRow, Below
<1> QED BY <1>1, <1>2, MibFinite, RowOidsDiffer DEF IsTable

(***************************************************************************)
(* The steps of the agent and of the manager.                              *)
(***************************************************************************)

\* The snapshot the agent answers from is one that mib() can be called on
\* (snmp.py:101-183, metrics.py:31-37).
THEOREM SnmpTypes == SnmpSpec => []SnmpTyped
<1>1. SnmpInit => SnmpTyped
  BY DEF SnmpInit, SnmpTyped
<1>2. SnmpTyped /\ [SnmpNext]_snmpVars => SnmpTyped'
  BY DEF SnmpTyped, SnmpNext, ReplaceSnapshot, StartWalk, WalkStep, snmpVars
<1> QED BY <1>1, <1>2, PTL DEF SnmpSpec

\* What GET answers for a cell of the device table.
LEMMA DeviceCellRead ==
  ASSUME SnmpTyped, SharedByteFits, NEW d \in DOMAIN snapshot
  PROVE  /\ \A c \in Columns(d) : Get(Mib, ManagerEncodes(DeviceOid(d, c))) = DeviceCell(d, c)
         /\ 4 \notin Columns(d) => Get(Mib, ManagerEncodes(DeviceOid(d, 4))) = NoSuchObject
<1>1. IsTable(Mib) /\ base \in PlainOids
  BY MibIsTable
<1>2. ASSUME NEW c \in Columns(d)
      PROVE  Get(Mib, ManagerEncodes(DeviceOid(d, c))) = DeviceCell(d, c)
  <2>1. DeviceRow(d, c) \in Mib
    BY MibRows DEF DeviceRows
  <2>2. DeviceRow(d, c)[1] = DeviceOid(d, c) /\ DeviceRow(d, c)[2] = DeviceCell(d, c)
    BY DEF DeviceRow
  <2>3. Get(Mib, ManagerEncodes(DeviceRow(d, c)[1])) = DeviceRow(d, c)[2]
    BY <1>1, <2>1, GetFinds
  <2> QED BY <2>2, <2>3
<1>3. ASSUME 4 \notin Columns(d)
      PROVE  Get(Mib, ManagerEncodes(DeviceOid(d, 4))) = NoSuchObject
  <2> DEFINE suffix == <<10, 1, 4, Index(d)>>
  <2>1. suffix \in Seq(Nat)
    BY IndexInjective
  <2>2. DeviceOid(d, 4) = base \o suffix
    BY DEF DeviceOid
  <2>3. DeviceOid(d, 4) \in PlainOids
    BY <1>1, <2>1, <2>2, PlainLonger
  <2>4. ASSUME NEW row \in Mib, row[1] = DeviceOid(d, 4) PROVE FALSE
    <3>1. PICK s : /\ Below(row, s)
                   /\ IsVersion(row, s) \/ IsCount(row, s) \/ IsDevice(row, s) \/ IsScalar(row, s)
      BY RowsBelow
    <3>2. s \in Seq(Nat) /\ base \o s = base \o suffix
      BY <2>2, <2>4, <3>1 DEF Below
    <3>3. base \in Seq(Nat)
      BY SnapshotTypes
    <3>4. s = suffix
      <4> HIDE DEF suffix
      <4> QED BY <2>1, <3>2, <3>3, ConcatSimplifications
    <3>5. IsDevice(row, s)
      BY <3>1, <3>4 DEF IsVersion, IsCount, IsScalar
    <3>6. PICK e \in DOMAIN snapshot : \E c \in Columns(e) : s = <<10, 1, c, Index(e)>>
      BY <3>5 DEF IsDevice
    <3>7. 4 \in Columns(e) /\ Index(e) = Index(d)
      BY <3>4, <3>6
    <3>8. e = d
      BY <3>7, IndexInjective
    <3> QED BY <1>3, <3>7, <3>8
  <2> QED BY <2>3, <2>4, GetMisses
<1> QED BY <1>2, <1>3

\* All numbers and addresses of a table are those of the snapshot.
LEMMA ConsistentRows ==
  ASSUME SnmpTyped
  PROVE  RowsAreConsistent
<1> DEFINE Cell(d, c) == Get(Mib, ManagerEncodes(base \o <<10, 1, c, Index(d)>>))
<1>1. ASSUME SharedByteFits, NEW d \in DOMAIN snapshot
      PROVE  /\ Cell(d, 2) = <<"octets", d, 2>>
             /\ snapshot[d].rssi # Absent => DecodeInteger(Cell(d, 4)[2]) = snapshot[d].rssi
             /\ snapshot[d].rssi = Absent => Cell(d, 4) = NoSuchObject
  <2>1. \A c : Cell(d, c) = Get(Mib, ManagerEncodes(DeviceOid(d, c)))
    BY DEF DeviceOid
  <2> HIDE DEF Cell
  <2>2. Cell(d, 2) = <<"octets", d, 2>>
    <3>1. 2 \in Columns(d)
      BY ColumnTypes
    <3>2. Cell(d, 2) = DeviceCell(d, 2)
      BY <1>1, <2>1, <3>1, DeviceCellRead
    <3> QED BY <3>2 DEF DeviceCell
  <2>3. ASSUME snapshot[d].rssi # Absent
        PROVE  DecodeInteger(Cell(d, 4)[2]) = snapshot[d].rssi
    <3>1. 4 \in Columns(d)
      BY <2>3, ColumnTypes
    <3>2. Cell(d, 4) = DeviceCell(d, 4)
      BY <1>1, <2>1, <3>1, DeviceCellRead
    <3>3. Cell(d, 4)[2] = EncodeInteger(snapshot[d].rssi)
      BY <3>2 DEF DeviceCell
    <3>4. snapshot[d].rssi \in Int
      BY <2>3, SnapshotTypes, AgentAssumption
    <3> QED BY <3>3, <3>4, IntegerRoundTrip
  <2>4. ASSUME snapshot[d].rssi = Absent PROVE Cell(d, 4) = NoSuchObject
    <3>1. 4 \notin Columns(d)
      BY <2>4, ColumnTypes
    <3> QED BY <1>1, <2>1, <3>1, DeviceCellRead
  <2> QED BY <2>2, <2>3, <2>4
<1>2. \A r, s \in Mib : r[1] = s[1] => r = s
  BY RowOidsDiffer
<1> QED BY <1>1, <1>2 DEF RowsAreConsistent

\* No two rows share an OID, and the address and the number that GET answers for
\* a device are those of the snapshot, whatever the devices and their numbers
\* (snmp.py:33-38, 122-183).
THEOREM RowsStayConsistent == SnmpSpec => []RowsAreConsistent
BY SnmpTypes, ConsistentRows, PTL

(***************************************************************************)
(* The walk: the answers of a walk of a still snapshot are the rows up to  *)
(* the manager's cursor, in order.                                         *)
(***************************************************************************)
\* The inductive invariant.
WalkListed ==
    SharedByteFits =>
        /\ complete
        /\ cursor # Silence => cursor \in PlainOids
        /\ still /\ cursor # Silence => Listed(Mib, walked, cursor)

\* A plain OID is not the missing answer.
LEMMA PlainIsSpoken ==
  ASSUME NEW oid \in PlainOids
  PROVE  oid # Silence
BY DEF PlainOids, Silence

\* The table depends on the base and the snapshot only.
LEMMA MibStays ==
  ASSUME base' = base, snapshot' = snapshot
  PROVE  Mib' = Mib
BY DEF Mib, Index, Columns

\* A list up to an OID that no row follows is the whole walk.
LEMMA ListedIsComplete ==
  ASSUME SnmpTyped, SharedByteFits, NEW oid \in PlainOids, NEW answers,
         Listed(Mib, answers, oid), Successor(Mib, oid) = {}
  PROVE  Complete(answers)
<1>1. IsTable(Mib)
  BY MibIsTable
<1>2. UpTo(Mib, oid) = Mib
  BY <1>1, NoSuccessor
<1>3. /\ Len(answers) = Cardinality(Mib)
      /\ \A row \in Mib : answers[Cardinality(UpTo(Mib, row[1]))] = row
  BY <1>2 DEF Listed
<1>4. \A row \in Mib : Get(Mib, ManagerEncodes(row[1])) = row[2]
  BY <1>1, GetFinds
<1> QED BY <1>3, <1>4 DEF Complete, UpTo

\* One datagram keeps the invariant, and so does every step.
LEMMA WalkStepKeeps ==
  ASSUME SnmpTyped, WalkListed, WalkStep
  PROVE  WalkListed'
<1> DEFINE answer == GetNext(Mib, ManagerEncodes(cursor))
           oid == ManagerDecodes(answer[1])
           last == IF answer = Silence THEN TRUE
                   ELSE answer[2] = EndOfMibView \/ ~Before(cursor, oid)
<1>1. /\ cursor # Silence
      /\ last => /\ cursor' = Silence
                 /\ complete' = (still => Complete(walked))
      /\ ~last => /\ cursor' = oid
                  /\ walked' = IF still THEN Append(walked, <<oid, answer[2]>>) ELSE walked
                  /\ complete' = complete
      /\ base' = base /\ snapshot' = snapshot /\ still' = still
  BY DEF WalkStep
<1>2. Mib' = Mib
  BY <1>1, MibStays
<1>3. SharedByteFits' = SharedByteFits
  BY <1>1 DEF SharedByteFits
<1>4. SUFFICES ASSUME SharedByteFits
               PROVE  /\ complete'
                      /\ cursor' # Silence => cursor' \in PlainOids
                      /\ still' /\ cursor' # Silence => Listed(Mib, walked', cursor')
  BY <1>2, <1>3 DEF WalkListed, Listed, UpTo, Silence, PlainOids
<1>5. IsTable(Mib)
  BY <1>4, MibIsTable
<1>6. /\ complete
      /\ cursor \in PlainOids
      /\ still => Listed(Mib, walked, cursor)
  BY <1>1, <1>4 DEF WalkListed
<1>7. CASE Successor(Mib, cursor) = {}
  <2>1. answer = <<EncodeOid(cursor), EndOfMibView>>
    BY <1>5, <1>6, <1>7, GetNextAnswers
  <2>2. answer # Silence /\ answer[2] = EndOfMibView
    BY <2>1 DEF Silence
  <2>3. last
    BY <2>2
  <2>4. still => Complete(walked)
    BY <1>4, <1>6, <1>7, ListedIsComplete
  <2> HIDE DEF answer, oid, last
  <2> QED BY <1>1, <2>3, <2>4
<1>8. CASE Successor(Mib, cursor) # {}
  <2>1. PICK s \in Successor(Mib, cursor) : answer = <<EncodeOid(s[1]), s[2]>>
    BY <1>5, <1>6, <1>8, GetNextAnswers
  <2>2. s \in Mib /\ Before(cursor, s[1])
    BY DEF Successor
  <2>3. /\ s[1] \in PlainOids
        /\ s = <<s[1], s[2]>>
        /\ s[2] # EndOfMibView
    BY <1>5, <2>2 DEF IsTable, IsRow
  <2>4. ManagerDecodes(EncodeOid(s[1])) = s[1]
    BY <2>3, OidRoundTrip
  <2>5. answer # Silence /\ answer[1] = EncodeOid(s[1]) /\ answer[2] = s[2]
    BY <2>1 DEF Silence
  <2> HIDE DEF answer
  <2>6. oid = s[1]
    BY <2>4, <2>5
  <2>7. ~last
    BY <2>2, <2>3, <2>5, <2>6
  <2> HIDE DEF oid, last
  <2>8. /\ cursor' = s[1] /\ complete'
        /\ still => walked' = Append(walked, s)
    BY <1>1, <1>6, <2>3, <2>5, <2>6, <2>7
  <2>9. still => Listed(Mib, Append(walked, s), s[1])
    BY <1>5, <1>6, OneMoreListed
  <2> QED BY <1>1, <2>3, <2>8, <2>9
<1> QED BY <1>7, <1>8

LEMMA WalkListedStays ==
  ASSUME SnmpTyped, WalkListed, [SnmpNext]_snmpVars
  PROVE  WalkListed'
<1>1. CASE ReplaceSnapshot
  BY <1>1 DEF ReplaceSnapshot, WalkListed, SharedByteFits, Silence, PlainOids
<1>2. CASE StartWalk
  <2>1. /\ cursor' = base /\ walked' = <<>>
        /\ base' = base /\ snapshot' = snapshot /\ complete' = complete
    BY <1>2 DEF StartWalk
  <2>2. Mib' = Mib /\ SharedByteFits' = SharedByteFits
    BY <2>1, MibStays DEF SharedByteFits
  <2>3. SUFFICES ASSUME SharedByteFits
                 PROVE  complete' /\ cursor' \in PlainOids /\ Listed(Mib, walked', cursor')
    BY <2>2 DEF WalkListed, Listed, UpTo, PlainOids, Silence
  <2>4. base \in PlainOids /\ Listed(Mib, <<>>, base)
    BY <2>3, MibIsTable, NothingListed
  <2> QED BY <2>1, <2>3, <2>4 DEF WalkListed
<1>3. CASE WalkStep
  BY <1>3, WalkStepKeeps
<1>4. CASE UNCHANGED snmpVars
  <2>1. /\ base' = base /\ snapshot' = snapshot /\ cursor' = cursor
        /\ walked' = walked /\ still' = still /\ complete' = complete
    BY <1>4 DEF snmpVars
  <2>2. Mib' = Mib
    BY <2>1, MibStays
  <2> QED BY <2>1, <2>2 DEF WalkListed, SharedByteFits, Listed, UpTo, Silence, PlainOids
<1> QED BY <1>1, <1>2, <1>3, <1>4 DEF SnmpNext

\* A walk of the configured subtree gives every row of the table once and in
\* order if no cycle ends meanwhile, and GET agrees with it, for every base the
\* shared byte can hold, every set of devices and every number of scalars
\* (snmp.py:45-56, 84-98, 231-249).
THEOREM WalkStaysComplete == SnmpSpec => []WalkIsComplete
<1>1. SnmpInit => WalkListed
  BY DEF SnmpInit, WalkListed
<1>2. SnmpTyped /\ WalkListed /\ [SnmpNext]_snmpVars => WalkListed'
  BY WalkListedStays
<1>3. WalkListed => WalkIsComplete
  BY DEF WalkListed, WalkIsComplete
<1> QED BY <1>1, <1>2, <1>3, SnmpTypes, PTL DEF SnmpSpec
=============================================================================
