------------------------- MODULE AcquisitionProofs --------------------------
(***************************************************************************)
(* Proofs about what a polling cycle acquires: SensorCycle, for any        *)
(* sensors, thresholds, selections and number of retry windows; and        *)
(* AcquisitionWindow, for any devices, plugins, providers and frames, any  *)
(* number of threads and any length of the buffers.                        *)
(*                                                                         *)
(* What a cycle exports is right because its counters are: that of a       *)
(* sensor that was reused without interruption equals its misses, any      *)
(* other one lags behind them.  Both have to be stated to be preserved.    *)
(*                                                                         *)
(* What a window returns is right because frames are numbered as they come *)
(* and stay in this order: what a buffer drops has as many newer frames    *)
(* behind it as the buffer holds, and what is read later is newer.         *)
(***************************************************************************)
EXTENDS SensorCycle, AcquisitionWindow, FiniteSetTheorems, SequenceTheorems,
        WellFoundedInduction, TLAPS

\* The counters against the misses they stand for.
CountersFollowMisses ==
    /\ \A s \in kept : counters[s] = run[s]
    /\ \A s \in Sensors : counters[s] <= run[s]

\* Only a stale reading has a stale_since.
OnlyStaleHasSince ==
    \A s \in DOMAIN exported : exported[s].stale <=> exported[s].since # 0

\* A cycle that still acquires has a window left.
WindowsLeft ==
    /\ pc = "idle" => attempt = 0
    /\ pc = "scan" => attempt < Attempts

Inv ==
    /\ TypeOK
    /\ WindowsLeft
    /\ CountersFollowMisses
    /\ ReuseKeepsLatest
    /\ StaleOnlyAfterMisses
    /\ OnlyStaleHasSince

-----------------------------------------------------------------------------
\* A partial function is determined by its domain, a set of sensors, and its
\* values.
LEMMA PartialIntro ==
    ASSUME NEW S, NEW f, NEW D \in SUBSET Sensors, f \in [D -> S]
    PROVE  f \in Partial(S)
  BY DEF Partial

LEMMA PartialElim ==
    ASSUME NEW S, NEW f \in Partial(S)
    PROVE  /\ DOMAIN f \subseteq Sensors
           /\ f \in [DOMAIN f -> S]
           /\ \A s \in DOMAIN f : f[s] \in S
  BY DEF Partial

\* Counts stay in their range and their order is not changed by the bound.
LEMMA BoundedProperties ==
    ASSUME MaxMisses \in Nat
    PROVE  /\ \A n \in Nat : Bounded(n) \in 0 .. MaxMisses
           /\ \A m, n \in Nat : m <= n => Bounded(m) <= Bounded(n)
           /\ \A n \in Nat : n > 0 /\ MaxMisses > 0 => Bounded(n) > 0
  BY DEF Bounded

\* The initial states satisfy the invariant.
LEMMA InitInv == Init => Inv
<1> SUFFICES ASSUME Init PROVE Inv
  OBVIOUS
<1>1. collected \in Partial(Contents)
  <2>1. collected \in [{} -> Contents]
    BY DEF Init
  <2> QED BY <2>1, PartialIntro
<1>2. exported \in Partial(Reading)
  <2>1. exported \in [{} -> Reading]
    BY DEF Init
  <2> QED BY <2>1, PartialIntro
<1>3. TypeOK
  BY <1>1, <1>2, CycleAssumption DEF Init, TypeOK, Contents
<1>4. DOMAIN exported = {} /\ kept = {}
  BY DEF Init
<1>5. CountersFollowMisses
  BY <1>4 DEF Init, CountersFollowMisses
<1>6. WindowsLeft
  BY DEF Init, WindowsLeft
<1> QED
  BY <1>3, <1>4, <1>5, <1>6 DEF Inv, ReuseKeepsLatest, StaleOnlyAfterMisses, OnlyStaleHasSince

-----------------------------------------------------------------------------
\* What Export reads: the filtered devices are a partial function into the
\* contents, sensors with data are among them, reused ones among the exported.
LEMMA CurrentType ==
    ASSUME TypeOK
    PROVE  /\ DOMAIN Current \subseteq Sensors
           /\ \A s \in DOMAIN Current : Current[s] \in Contents
           /\ WithData \subseteq DOMAIN Current
           /\ Reused \subseteq Sensors
           /\ Reused \subseteq DOMAIN exported \ WithData
           /\ \A s \in DOMAIN exported : exported[s] \in Reading
<1>1. collected \in Partial(Contents) /\ exported \in Partial(Reading)
  BY DEF TypeOK
<1>2. DOMAIN collected \subseteq Sensors /\ \A s \in DOMAIN collected : collected[s] \in Contents
  BY <1>1, PartialElim
<1>3. DOMAIN exported \subseteq Sensors /\ \A s \in DOMAIN exported : exported[s] \in Reading
  BY <1>1, PartialElim
<1> QED
  BY <1>2, <1>3 DEF Current, WithData, Reused

\* The reading that stands in for a missing one: the value is the previous one,
\* it is stale by the counter, and has a stale_since exactly when it is stale.
LEMMA RetainedType ==
    ASSUME Inv, NEW s \in Reused
    PROVE  /\ Retained(s) \in Reading
           /\ Retained(s).value = exported[s].value
           /\ Retained(s).stale <=> Misses(s) >= threshold
           /\ Retained(s).stale <=> Retained(s).since # 0
           /\ Retained(s).stale /\ exported[s].stale => Retained(s).since = exported[s].since
<1>1. s \in Sensors /\ s \in DOMAIN exported /\ exported[s] \in Reading
  BY CurrentType DEF Inv
<1>2. MaxMisses \in Nat /\ MaxMisses > 0 /\ threshold \in 1 .. MaxMisses
  BY CycleAssumption DEF Inv, TypeOK
<1>3. run[s] \in Nat /\ counters[s] \in Nat
  BY <1>1 DEF Inv, TypeOK
<1>4. Bounded(run[s] + 1) \in 0 .. MaxMisses /\ Bounded(run[s] + 1) > 0
  BY <1>2, <1>3, BoundedProperties
<1>5. Misses(s) \in 0 .. MaxMisses
  BY <1>2, <1>3, BoundedProperties DEF Misses
<1>6. exported[s].stale <=> exported[s].since # 0
  BY <1>1 DEF Inv, OnlyStaleHasSince
<1>7. /\ exported[s].value \in Contents
      /\ exported[s].stale \in BOOLEAN
      /\ exported[s].since \in 0 .. MaxMisses
  BY <1>1 DEF Reading
<1> DEFINE stale == Misses(s) >= threshold
           since == IF ~stale THEN 0
                    ELSE IF exported[s].stale THEN exported[s].since
                    ELSE Bounded(run[s] + 1)
<1>8. stale \in BOOLEAN
  BY <1>2, <1>5
<1>9. since \in 0 .. MaxMisses /\ (stale <=> since # 0)
  BY <1>2, <1>4, <1>6, <1>7
<1>10. Retained(s) = [value |-> exported[s].value, stale |-> stale, since |-> since]
  BY DEF Retained
<1>11. stale /\ exported[s].stale => since = exported[s].since
  OBVIOUS
<1>12. stale <=> Misses(s) >= threshold
  OBVIOUS
<1> HIDE DEF stale, since
<1>13. Retained(s) \in Reading
  BY <1>7, <1>8, <1>9, <1>10 DEF Reading
<1>14. /\ Retained(s).value = exported[s].value
       /\ Retained(s).stale = stale
       /\ Retained(s).since = since
  BY <1>10
<1> QED
  BY <1>9, <1>11, <1>12, <1>13, <1>14

\* A reading of this cycle is never stale.
LEMMA FreshType ==
    ASSUME NEW v \in Contents, MaxMisses \in Nat
    PROVE  /\ Fresh(v) \in Reading
           /\ Fresh(v).value = v
           /\ Fresh(v).stale = FALSE
           /\ Fresh(v).since = 0
  BY DEF Fresh, Reading

-----------------------------------------------------------------------------
\* After Export a reused sensor has its Retained reading, another one that is
\* exported a fresh one; this is all of the export.
LEMMA ExportedAfter ==
    ASSUME Inv, Export
    PROVE  /\ exported' \in Partial(Reading)
           /\ DOMAIN exported' = DOMAIN Current \cup Reused
           /\ \A s \in Reused : exported'[s] = Retained(s)
           /\ \A s \in DOMAIN Current \ Reused : exported'[s] = Fresh(Current[s])
<1> DEFINE value(s) == IF s \in Reused THEN Retained(s) ELSE Fresh(Current[s])
<1>1. exported' = [s \in DOMAIN Current \cup Reused |-> value(s)]
  BY DEF Export, ApplyStaleFallback
<1>2. TypeOK /\ MaxMisses \in Nat
  BY CycleAssumption DEF Inv
<1>3. \A s \in DOMAIN Current \cup Reused : value(s) \in Reading
  BY <1>2, CurrentType, RetainedType, FreshType
<1>4. DOMAIN Current \cup Reused \in SUBSET Sensors
  BY <1>2, CurrentType
<1>5. exported' \in [DOMAIN Current \cup Reused -> Reading]
  <2> HIDE DEF value
  <2> QED BY <1>1, <1>3
<1> QED
  BY <1>1, <1>4, <1>5, PartialIntro

\* After Export the counter of a reused sensor has moved on, that of a sensor
\* with data is zero, any other one has not grown.  So have the misses.
LEMMA CountersAfter ==
    ASSUME Inv, Export
    PROVE  /\ counters' \in [Sensors -> 0 .. MaxMisses]
           /\ run' \in [Sensors -> 0 .. MaxMisses]
           /\ \A s \in Reused : counters'[s] = Bounded(counters[s] + 1)
           /\ \A s \in WithData : counters'[s] = 0 /\ run'[s] = 0
           /\ \A s \in Sensors \ WithData : run'[s] = Bounded(run[s] + 1)
           /\ \A s \in Sensors \ Reused : counters'[s] \in {0, counters[s]}
<1>1. TypeOK /\ MaxMisses \in Nat
  BY CycleAssumption DEF Inv
<1>2. \A s \in Sensors : counters[s] \in 0 .. MaxMisses /\ run[s] \in 0 .. MaxMisses
  BY <1>1 DEF TypeOK
<1>3. \A s \in Sensors : /\ Bounded(counters[s] + 1) \in 0 .. MaxMisses
                        /\ Bounded(run[s] + 1) \in 0 .. MaxMisses
  <2> SUFFICES ASSUME NEW s \in Sensors
               PROVE  /\ Bounded(counters[s] + 1) \in 0 .. MaxMisses
                      /\ Bounded(run[s] + 1) \in 0 .. MaxMisses
    OBVIOUS
  <2>1. counters[s] + 1 \in Nat /\ run[s] + 1 \in Nat
    BY <1>1, <1>2
  <2> QED BY <1>1, <2>1, BoundedProperties
<1>4. /\ Reused \subseteq Sensors /\ Reused \cap WithData = {} /\ WithData \subseteq Sensors
      /\ Reused \subseteq DOMAIN exported /\ WithData \subseteq DOMAIN Current
  BY <1>1, CurrentType
<1>5. counters' = [s \in Sensors |-> Counter(s)]
  BY DEF Export, ApplyStaleFallback
<1>6. run' = [s \in Sensors |-> IF s \in WithData THEN 0 ELSE Bounded(run[s] + 1)]
  BY DEF Export, Remember
<1>7. \A s \in Reused : Counter(s) = Bounded(counters[s] + 1)
  BY <1>4 DEF Counter, Misses
<1>8. \A s \in WithData : Counter(s) = 0
  BY <1>4 DEF Counter
<1>9. \A s \in Sensors \ Reused : Counter(s) \in {0, counters[s]}
  BY <1>4, <1>8 DEF Counter
<1>10. \A s \in Sensors : Counter(s) \in 0 .. MaxMisses
  BY <1>1, <1>2, <1>3, <1>7, <1>9
<1> QED
  BY <1>1, <1>3, <1>4, <1>5, <1>6, <1>7, <1>8, <1>9, <1>10

-----------------------------------------------------------------------------
\* Export preserves each part of the invariant.
LEMMA ExportType ==
    ASSUME Inv, Export
    PROVE  TypeOK'
<1>1. TypeOK
  BY DEF Inv
<1>2. /\ pc' = "idle" /\ attempt' = 0 /\ expected' = {} /\ allowed' = {}
      /\ collected' = [s \in {} |-> Empty]
      /\ reuse' = reuse /\ threshold' = threshold /\ devices' = devices
      /\ applied' = threshold
  BY DEF Export, EndCycle, Remember, settings
<1>3. collected' \in Partial(Contents)
  <2>1. collected' \in [{} -> Contents]
    BY <1>2
  <2> QED BY <2>1, PartialIntro
<1>4. WithData \subseteq Sensors /\ \A s \in WithData : Current[s] \in Contents
  BY <1>1, CurrentType
<1>5. good' \in [Sensors -> Contents]
  <2>1. good' = [s \in Sensors |-> IF s \in WithData THEN Current[s] ELSE good[s]]
    BY DEF Export, Remember
  <2>2. \A s \in Sensors : good[s] \in Contents
    BY <1>1 DEF TypeOK
  <2> QED BY <1>4, <2>1, <2>2
<1>6. kept' \subseteq Sensors
  BY <1>1, <1>4 DEF Export, Remember, TypeOK
<1>7. exported' \in Partial(Reading) /\ counters' \in [Sensors -> 0 .. MaxMisses]
      /\ run' \in [Sensors -> 0 .. MaxMisses]
  BY ExportedAfter, CountersAfter
<1>8. attempt' \in 0 .. Attempts
  BY <1>2, CycleAssumption
<1> QED
  BY <1>1, <1>2, <1>3, <1>5, <1>6, <1>7, <1>8 DEF TypeOK

\* ... and a counter equals the misses if the reuse was not interrupted.
LEMMA ExportCounters ==
    ASSUME Inv, Export
    PROVE  CountersFollowMisses'
<1>1. TypeOK /\ MaxMisses \in Nat /\ CountersFollowMisses
  BY CycleAssumption DEF Inv
<1>2. \A s \in Sensors : counters[s] \in 0 .. MaxMisses /\ run[s] \in 0 .. MaxMisses
  BY <1>1 DEF TypeOK
<1>3. Reused \subseteq Sensors /\ Reused \cap WithData = {} /\ WithData \subseteq Sensors
  BY <1>1, CurrentType
<1>4. ASSUME NEW s \in Sensors
      PROVE  counters'[s] <= run'[s]
  <2>1. counters[s] <= run[s] /\ counters[s] \in Nat /\ run[s] \in Nat
    BY <1>1, <1>2 DEF CountersFollowMisses
  <2>2. counters[s] + 1 \in Nat /\ run[s] + 1 \in Nat /\ counters[s] + 1 <= run[s] + 1
    BY <2>1
  <2>3. Bounded(counters[s] + 1) <= Bounded(run[s] + 1)
    BY <1>1, <2>2, BoundedProperties
  <2>4. CASE s \in WithData
    BY <2>4, CountersAfter
  <2>5. CASE s \in Reused
    BY <1>3, <2>3, <2>5, CountersAfter
  <2>6. CASE s \notin WithData \cup Reused
    <3>1. counters'[s] \in {0, counters[s]} /\ run'[s] = Bounded(run[s] + 1)
      BY <2>6, CountersAfter
    <3>2. Bounded(run[s] + 1) \in Nat /\ counters[s] <= Bounded(run[s] + 1)
      BY <1>1, <1>2, <2>1 DEF Bounded
    <3> QED BY <2>1, <3>1, <3>2
  <2> QED BY <2>4, <2>5, <2>6
<1>5. ASSUME NEW s \in kept'
      PROVE  counters'[s] = run'[s]
  <2>1. CASE s \in WithData
    BY <2>1, CountersAfter
  <2>2. CASE s \notin WithData
    <3>1. s \in kept /\ reuse
      BY <2>2 DEF Export, Remember
    <3>2. s \in DOMAIN exported /\ s \in Sensors
      BY <1>1, <3>1 DEF Inv, ReuseKeepsLatest, TypeOK
    <3>3. s \in Reused
      BY <2>2, <3>1, <3>2 DEF Reused
    <3>4. counters[s] = run[s]
      BY <1>1, <3>1 DEF CountersFollowMisses
    <3> QED BY <2>2, <3>2, <3>3, <3>4, CountersAfter
  <2> QED BY <2>1, <2>2
<1> QED
  BY <1>4, <1>5 DEF CountersFollowMisses

\* ... the latest content is kept, and is stale by the misses.
LEMMA ExportKeepsLatest ==
    ASSUME Inv, Export
    PROVE  ReuseKeepsLatest'
<1>1. TypeOK /\ MaxMisses \in Nat /\ threshold \in 1 .. MaxMisses /\ applied' = threshold
  BY CycleAssumption DEF Inv, TypeOK, Export, Remember
<1>2. good' = [s \in Sensors |-> IF s \in WithData THEN Current[s] ELSE good[s]]
  BY DEF Export, Remember
<1> SUFFICES ASSUME NEW s \in kept'
             PROVE  /\ s \in DOMAIN exported'
                    /\ exported'[s].value = good'[s]
                    /\ exported'[s].stale <=> run'[s] >= applied'
  BY DEF ReuseKeepsLatest
<1>3. CASE s \in WithData
  <2>1. s \in DOMAIN Current \ Reused /\ s \in Sensors /\ Current[s] \in Contents
    BY <1>1, <1>3, CurrentType
  <2>2. s \in DOMAIN exported' /\ exported'[s] = Fresh(Current[s])
    BY <2>1, ExportedAfter
  <2>3. exported'[s].value = Current[s] /\ exported'[s].stale = FALSE
    BY <1>1, <2>1, <2>2, FreshType
  <2>4. run'[s] = 0
    BY <1>3, CountersAfter
  <2> QED BY <1>1, <1>2, <1>3, <2>1, <2>2, <2>3, <2>4
<1>4. CASE s \notin WithData
  <2>1. s \in kept /\ reuse
    BY <1>4 DEF Export, Remember
  <2>2. s \in DOMAIN exported /\ s \in Sensors /\ exported[s].value = good[s]
    BY <1>1, <2>1 DEF Inv, ReuseKeepsLatest, TypeOK
  <2>3. s \in Reused
    BY <1>4, <2>1, <2>2 DEF Reused
  <2>4. s \in DOMAIN exported' /\ exported'[s] = Retained(s)
    BY <2>3, ExportedAfter
  <2>5. exported'[s].value = good'[s]
    BY <1>2, <1>4, <2>2, <2>3, <2>4, RetainedType
  <2>6. run'[s] = Misses(s)
    BY <1>4, <2>1, <2>2, CountersAfter DEF Inv, CountersFollowMisses, Misses
  <2> QED BY <1>1, <2>3, <2>4, <2>5, <2>6, RetainedType
<1> QED
  BY <1>3, <1>4

\* ... nothing is stale early, and nothing else has a stale_since.
LEMMA ExportStale ==
    ASSUME Inv, Export
    PROVE  StaleOnlyAfterMisses' /\ OnlyStaleHasSince'
<1>1. TypeOK /\ MaxMisses \in Nat /\ threshold \in 1 .. MaxMisses /\ applied' = threshold
  BY CycleAssumption DEF Inv, TypeOK, Export, Remember
<1> SUFFICES ASSUME NEW s \in DOMAIN exported'
             PROVE  /\ exported'[s].stale => run'[s] >= applied'
                    /\ exported'[s].stale <=> exported'[s].since # 0
  BY DEF StaleOnlyAfterMisses, OnlyStaleHasSince
<1>2. CASE s \in Reused
  <2>1. exported'[s] = Retained(s)
    BY <1>2, ExportedAfter
  <2>2. s \in Sensors /\ counters'[s] = Misses(s)
    BY <1>1, <1>2, CountersAfter, CurrentType DEF Misses
  <2>3. counters'[s] <= run'[s] /\ counters'[s] \in Nat /\ run'[s] \in Nat
    BY <1>1, <2>2, ExportCounters, CountersAfter DEF CountersFollowMisses
  <2> QED BY <1>1, <1>2, <2>1, <2>2, <2>3, RetainedType
<1>3. CASE s \notin Reused
  <2>1. s \in DOMAIN Current /\ exported'[s] = Fresh(Current[s])
    BY <1>3, ExportedAfter
  <2>2. Current[s] \in Contents
    BY <1>1, <2>1, CurrentType
  <2> QED BY <1>1, <2>1, <2>2, FreshType
<1> QED
  BY <1>2, <1>3

-----------------------------------------------------------------------------
\* Every step preserves the invariant: all but Export leave alone what it says
\* beyond types.
LEMMA StepInv == Inv /\ [Next]_vars => Inv'
<1> SUFFICES ASSUME Inv, [Next]_vars PROVE Inv'
  OBVIOUS
<1>1. /\ TypeOK /\ WindowsLeft /\ CountersFollowMisses
      /\ ReuseKeepsLatest /\ StaleOnlyAfterMisses /\ OnlyStaleHasSince
  BY DEF Inv
<1>0. WindowsLeft'
  <2>1. attempt \in 0 .. Attempts /\ Attempts \in Nat \ {0}
    BY <1>1, CycleAssumption DEF TypeOK
  <2>2. CASE Window
    <3>1. attempt' = attempt + 1 /\ pc' \in {"scan", "export"}
          /\ (pc' = "scan" => attempt' # Attempts)
      BY <2>2 DEF Window, LastWindow
    <3>2. attempt < Attempts
      BY <1>1, <2>2 DEF Window, WindowsLeft
    <3> QED BY <2>1, <3>1, <3>2 DEF WindowsLeft
  <2>3. CASE FailCycle \/ Export
    BY <2>3 DEF FailCycle, Export, EndCycle, WindowsLeft
  <2>4. CASE StartCycle
    BY <1>1, <2>1, <2>4 DEF StartCycle, WindowsLeft
  <2>5. CASE SetRuntime \/ SetDevices \/ UNCHANGED vars
    BY <1>1, <2>5 DEF SetRuntime, SetDevices, vars, WindowsLeft
  <2> QED BY <2>2, <2>3, <2>4, <2>5 DEF Next
<1>2. ASSUME UNCHANGED results
      PROVE  /\ CountersFollowMisses' /\ ReuseKeepsLatest'
             /\ StaleOnlyAfterMisses' /\ OnlyStaleHasSince'
  BY <1>1, <1>2 DEF results, history, CountersFollowMisses, ReuseKeepsLatest,
                    StaleOnlyAfterMisses, OnlyStaleHasSince
<1>3. CASE StartCycle
  <2>1. DOMAIN exported \subseteq Sensors
    BY <1>1, PartialElim DEF TypeOK
  <2>2. devices \subseteq Sensors
    BY <1>1, CycleAssumption DEF TypeOK
  <2>3. TypeOK'
    BY <1>1, <1>3, <2>1, <2>2 DEF StartCycle, TypeOK, settings, results, history
  <2> QED BY <1>0, <1>2, <1>3, <2>3 DEF StartCycle, Inv
<1>4. CASE Window
  <2>1. collected' \in Partial(Contents)
    <3>1. PICK D \in SUBSET (IF attempt = 0 THEN Sensors ELSE Sensors \ Cloud) :
               \E given \in [D -> Contents] :
                  collected' = [s \in DOMAIN collected \cup D |->
                                  IF s \in D THEN given[s] ELSE collected[s]]
      BY <1>4 DEF Window
    <3>2. PICK given \in [D -> Contents] :
                  collected' = [s \in DOMAIN collected \cup D |->
                                  IF s \in D THEN given[s] ELSE collected[s]]
      BY <3>1
    <3>3. /\ DOMAIN collected \subseteq Sensors
          /\ \A s \in DOMAIN collected : collected[s] \in Contents
      BY <1>1, PartialElim DEF TypeOK
    <3>4. DOMAIN collected \cup D \in SUBSET Sensors
      BY <3>3
    <3>5. collected' \in [DOMAIN collected \cup D -> Contents]
      BY <3>2, <3>3
    <3> QED BY <3>4, <3>5, PartialIntro
  <2>2. TypeOK'
    <3>1. attempt' \in 0 .. Attempts /\ pc' \in {"idle", "scan", "export"}
      <4>1. attempt < Attempts /\ attempt \in 0 .. Attempts /\ Attempts \in Nat
        BY <1>1, <1>4, CycleAssumption DEF Window, WindowsLeft, TypeOK
      <4>2. attempt' = attempt + 1
        BY <1>4 DEF Window
      <4>3. pc' \in {"scan", "export"}
        BY <1>4 DEF Window
      <4> QED BY <4>1, <4>2, <4>3
    <3> QED BY <1>1, <1>4, <2>1, <3>1 DEF Window, TypeOK, settings, results, history
  <2> QED BY <1>0, <1>2, <1>4, <2>2 DEF Window, Inv
<1>5. CASE FailCycle
  <2>1. collected' \in Partial(Contents)
    <3>1. collected' \in [{} -> Contents]
      BY <1>5 DEF FailCycle, EndCycle
    <3> QED BY <3>1, PartialIntro
  <2>2. TypeOK'
    BY <1>1, <1>5, <2>1, CycleAssumption DEF FailCycle, EndCycle, TypeOK, settings, results, history
  <2> QED BY <1>0, <1>2, <1>5, <2>2 DEF FailCycle, Inv
<1>6. CASE Export
  BY <1>0, <1>6, ExportType, ExportCounters, ExportKeepsLatest, ExportStale DEF Inv
<1>7. CASE SetRuntime
  <2>1. TypeOK'
    BY <1>1, <1>7 DEF SetRuntime, TypeOK, results, history
  <2> QED BY <1>0, <1>2, <1>7, <2>1 DEF SetRuntime, Inv
<1>8. CASE SetDevices
  <2>1. TypeOK'
    BY <1>1, <1>8 DEF SetDevices, TypeOK, results, history
  <2> QED BY <1>0, <1>2, <1>8, <2>1 DEF SetDevices, Inv
<1>9. CASE UNCHANGED vars
  <2>1. TypeOK'
    BY <1>1, <1>9 DEF vars, settings, TypeOK, results, history
  <2> QED BY <1>0, <1>2, <1>9, <2>1 DEF vars, Inv
<1> QED
  BY <1>3, <1>4, <1>5, <1>6, <1>7, <1>8, <1>9 DEF Next

\* The invariant holds in every reachable state.
LEMMA Invariance == Spec => []Inv
  BY InitInv, StepInv, PTL DEF Spec

\* Every variable keeps its type through every cycle and every settings change.
THEOREM TypeCorrect == Spec => []TypeOK
<1>1. Inv => TypeOK
  BY DEF Inv
<1> QED BY <1>1, Invariance, PTL

\* As long as reuse stays on, a sensor is exported with its latest content, and
\* as stale exactly from the threshold's miss on (apply_stale_fallback).
THEOREM LatestReadingIsKept == Spec => []ReuseKeepsLatest
<1>1. Inv => ReuseKeepsLatest
  BY DEF Inv
<1> QED BY <1>1, Invariance, PTL

\* However reuse and the threshold are switched between cycles, no reading is
\* marked stale before it was missing as often as the threshold asks.
THEOREM NeverStaleEarly == Spec => []StaleOnlyAfterMisses
<1>1. Inv => StaleOnlyAfterMisses
  BY DEF Inv
<1> QED BY <1>1, Invariance, PTL

\* A step leaves the stale_since of a reading that stays stale alone: of all
\* steps only Export writes readings, and there it was reused.
LEMMA SinceStep ==
    ASSUME Inv, [Next]_vars, NEW s \in DOMAIN exported \cap DOMAIN exported',
           exported[s].stale, exported'[s].stale
    PROVE  exported'[s].since = exported[s].since
<1>1. CASE Export
  <2>1. TypeOK /\ MaxMisses \in Nat
    BY CycleAssumption DEF Inv
  <2>2. s \in Reused
    <3> SUFFICES ASSUME s \notin Reused PROVE FALSE
      OBVIOUS
    <3>1. s \in DOMAIN Current /\ exported'[s] = Fresh(Current[s])
      BY <1>1, ExportedAfter
    <3>2. exported'[s].stale = FALSE
      BY <2>1, <3>1, CurrentType, FreshType
    <3> QED BY <3>2
  <2> QED BY <1>1, <2>2, ExportedAfter, RetainedType
<1>2. CASE UNCHANGED exported
  BY <1>2
<1> QED
  BY <1>1, <1>2 DEF Next, vars, StartCycle, Window, FailCycle, SetRuntime, SetDevices, results

\* stale_since is the moment the reading became stale, kept while it is, and
\* only stale readings have one.
THEOREM StaleSinceKept == Spec => StaleSinceIsStable
<1>1. Inv /\ [Next]_vars =>
        [ \A s \in DOMAIN exported \cap DOMAIN exported' :
            exported[s].stale /\ exported'[s].stale
              => exported'[s].since = exported[s].since ]_vars
  BY SinceStep
<1>2. Inv => \A s \in DOMAIN exported : exported[s].stale <=> exported[s].since # 0
  BY DEF Inv, OnlyStaleHasSince
<1> QED
  BY <1>1, <1>2, Invariance, PTL DEF Spec, StaleSinceIsStable

-----------------------------------------------------------------------------
(* What a window returns.                                                   *)

Jobs == [device : Devices, plugin : Nat, state : {"queued", "running"}]

\* A decode is awaited only while decoding, of a device with frames left.
WindowTypes ==
    /\ stage \in {"scan", "decode", "cloud", "done", "failed"}
    /\ frames \in [Devices -> Seq(Nat)] /\ heard \in [Devices -> SUBSET Nat]
    /\ job \in Jobs \cup {NoJob}
    /\ job # NoJob => stage = "decode" /\ frames[job.device] # <<>>

\* Frames are numbered as they come, and the buffers keep them in this order.
HeardInOrder == \E n \in Nat : UNION {heard[d] : d \in Devices} = 1 .. n
Ascending(s) == \A i, j \in 1 .. Len(s) : i < j => s[i] < s[j]
BuffersInOrder == \A d \in Devices : Ascending(frames[d]) /\ ToSet(frames[d]) \subseteq heard[d]

Newer(d, f) == {g \in heard[d] : g > f}

\* The newest frames are in the buffer until they have been offered to every decoder.
NewestKept ==
    \A d \in Devices : \A f \in heard[d] :
        Cardinality(Newer(d, f)) < Limit => f \in ToSet(frames[d]) \/ <<d, f>> \in tried

\* A device's reading is of no older frame than any that was read; those left are newer.
ReadingIsNewest ==
    \A d \in Devices : \A f \in heard[d] : <<d, f>> \in read =>
        /\ d \in DOMAIN readings
        /\ readings[d].by = "scan" /\ readings[d].frame \in Nat /\ readings[d].frame >= f
        /\ \A i \in 1 .. Len(frames[d]) : f <= frames[d][i]

StagesInOrder ==
    /\ stage = "scan" => read = {}
    /\ stage = "cloud" => /\ \A d \in Devices : frames[d] = <<>>
                          /\ DOMAIN polls = ToSet(providers)

WindowInv ==
    /\ WindowTypes /\ HeardInOrder /\ BuffersInOrder /\ NewestKept /\ ReadingIsNewest
    /\ StagesInOrder /\ NewestReadingWins /\ AnswersAreKept

LEMMA NoJobIsNone == \A j \in Jobs : j # NoJob /\ j.state # "none"
<1> SUFFICES ASSUME NEW j \in Jobs PROVE j # NoJob /\ j.state # "none"
  OBVIOUS
<1>1. j.state \in {"queued", "running"}
  BY DEF Jobs
<1>2. NoJob.state = "none"
  BY DEF NoJob
<1> QED BY <1>1, <1>2

\* A job is awaited in a state that only a Jobs record has.
LEMMA JobAtWork ==
  ASSUME WindowTypes, job.state \in {"queued", "running"}
  PROVE  /\ job \in Jobs /\ job # NoJob /\ job.device \in Devices
         /\ stage = "decode" /\ frames[job.device] # <<>>
<1>1. job # NoJob
  <2>1. NoJob.state = "none"
    BY DEF NoJob
  <2> QED BY <2>1
<1>2. job \in Jobs
  BY <1>1 DEF WindowTypes
<1>3. job.device \in Devices
  BY <1>2 DEF Jobs
<1> QED BY <1>1, <1>2, <1>3 DEF WindowTypes

LEMMA ElementsOf ==
  ASSUME NEW s \in Seq(Nat)
  PROVE  /\ DOMAIN s = 1 .. Len(s) /\ Len(s) \in Nat
         /\ ToSet(s) = {s[i] : i \in 1 .. Len(s)}
         /\ \A i \in 1 .. Len(s) : s[i] \in Nat
  BY DEF ToSet

LEMMA TailOfBuffer ==
  ASSUME NEW s \in Seq(Nat), s # <<>>, Ascending(s)
  PROVE  /\ Tail(s) \in Seq(Nat) /\ Ascending(Tail(s)) /\ Head(s) \in Nat
         /\ ToSet(s) = {Head(s)} \cup ToSet(Tail(s))
         /\ \A i \in 1 .. Len(Tail(s)) : Tail(s)[i] \in ToSet(s) /\ Tail(s)[i] = s[i + 1]
         /\ \A i \in 1 .. Len(s) : Head(s) <= s[i]
         /\ Len(s) = 1 => Tail(s) = <<>>
         /\ Len(s) # 1 => Tail(s) # <<>>
         /\ Head(s) = s[1] /\ 1 \in 1 .. Len(s)
<1>1. /\ Tail(s) \in Seq(Nat) /\ Len(Tail(s)) = Len(s) - 1 /\ Len(s) \in Nat \ {0}
      /\ \A i \in 1 .. Len(s) - 1 : Tail(s)[i] = s[i + 1]
      /\ Head(s) = s[1]
  BY HeadTailProperties
<1>2. \A i \in 1 .. Len(s) : s[i] \in Nat
  OBVIOUS
<1>3. Ascending(Tail(s))
  <2> SUFFICES ASSUME NEW i \in 1 .. Len(s) - 1, NEW j \in 1 .. Len(s) - 1, i < j
               PROVE  Tail(s)[i] < Tail(s)[j]
    BY <1>1 DEF Ascending
  <2>1. i + 1 \in 1 .. Len(s) /\ j + 1 \in 1 .. Len(s) /\ i + 1 < j + 1
    BY <1>1
  <2> QED BY <2>1, <1>1 DEF Ascending
<1>4. \A i \in 1 .. Len(s) : Head(s) <= s[i]
  <2> SUFFICES ASSUME NEW i \in 1 .. Len(s) PROVE s[1] <= s[i]
    BY <1>1
  <2>1. 1 \in 1 .. Len(s) /\ s[1] \in Nat /\ s[i] \in Nat
    BY <1>1, <1>2
  <2>2. CASE i = 1
    BY <2>1, <2>2
  <2>3. CASE i # 1
    <3>1. 1 < i
      BY <2>3
    <3> QED BY <2>1, <3>1 DEF Ascending
  <2> QED BY <2>2, <2>3
<1>5. ToSet(s) = {Head(s)} \cup ToSet(Tail(s))
  <2>1. ToSet(s) = {s[i] : i \in 1 .. Len(s)}
    BY ElementsOf
  <2>2. ToSet(Tail(s)) = {Tail(s)[i] : i \in 1 .. Len(s) - 1}
    BY ElementsOf, <1>1
  <2>3. 1 .. Len(s) = {1} \cup {i + 1 : i \in 1 .. Len(s) - 1}
    <3>1. \A k \in 1 .. Len(s) : k = 1 \/ (k - 1 \in 1 .. Len(s) - 1 /\ k = (k - 1) + 1)
      BY <1>1
    <3>2. \A i \in 1 .. Len(s) - 1 : i + 1 \in 1 .. Len(s)
      BY <1>1
    <3>3. 1 \in 1 .. Len(s)
      BY <1>1
    <3> QED BY <3>1, <3>2, <3>3
  <2>4. ToSet(Tail(s)) = {s[i + 1] : i \in 1 .. Len(s) - 1}
    BY <2>2, <1>1
  <2> QED BY <2>1, <2>3, <2>4, <1>1
<1>6. \A i \in 1 .. Len(Tail(s)) : Tail(s)[i] \in ToSet(Tail(s))
  BY <1>1, ElementsOf
<1>7. Len(s) = 1 => Tail(s) = <<>>
  <2> SUFFICES ASSUME Len(s) = 1 PROVE Tail(s) = <<>>
    OBVIOUS
  <2>1. Len(Tail(s)) = 0
    BY <1>1
  <2> QED BY <2>1, <1>1, EmptySeq
<1>8. Len(s) # 1 => Tail(s) # <<>>
  BY <1>1, EmptySeq
<1>9. Head(s) \in Nat /\ 1 \in 1 .. Len(s)
  BY <1>1, <1>2
<1>10. \A i \in 1 .. Len(Tail(s)) : Tail(s)[i] \in ToSet(s) /\ Tail(s)[i] = s[i + 1]
  BY <1>1, <1>5, <1>6
<1> QED BY <1>1, <1>3, <1>4, <1>5, <1>7, <1>8, <1>9, <1>10

\* Of a buffer in order, as many later entries than the i-th are newer than it.
LEMMA CountNewer ==
  ASSUME NEW H, IsFiniteSet(H), NEW s \in Seq(Nat), Ascending(s), ToSet(s) \subseteq H,
         NEW i \in 1 .. Len(s), NEW n \in Nat, i + n <= Len(s)
  PROVE  Cardinality({g \in H : g > s[i]}) >= n
<1> DEFINE later == {g \in H : g > s[i]}
           pick == [k \in 1 .. n |-> s[i + k]]
<1>1. Len(s) \in Nat /\ \A j \in 1 .. Len(s) : s[j] \in Nat /\ s[j] \in H
  BY ElementsOf
<1>2. \A k \in 1 .. n : i + k \in 1 .. Len(s) /\ i < i + k
  BY <1>1
<1>3. \A k \in 1 .. n : pick[k] \in later
  <2> SUFFICES ASSUME NEW k \in 1 .. n PROVE s[i + k] \in H /\ s[i + k] > s[i]
    OBVIOUS
  <2>1. s[i] < s[i + k]
    BY <1>2 DEF Ascending
  <2> QED BY <2>1, <1>1, <1>2
<1>4. ASSUME NEW k \in 1 .. n, NEW l \in 1 .. n, pick[k] = pick[l] PROVE k = l
  <2>1. \A a, b \in 1 .. n : a < b => s[i + a] < s[i + b]
    BY <1>2 DEF Ascending
  <2>2. s[i + k] \in Nat /\ s[i + l] \in Nat /\ s[i + k] = s[i + l]
    BY <1>1, <1>2, <1>4
  <2>3. ~(k < l) /\ ~(l < k)
    BY <2>1, <2>2
  <2> QED BY <2>3
<1>5. pick \in [1 .. n -> later]
  BY <1>3
<1>6. pick \in Injection(1 .. n, later)
  <2> HIDE DEF pick, later
  <2> QED BY <1>4, <1>5 DEF Injection, IsInjective
<1>7. IsFiniteSet(later) /\ Cardinality(later) \in Nat
  BY FS_Subset, FS_CardinalityType
<1>8. Cardinality(1 .. n) = n
  BY FS_Interval
<1>9. Cardinality(1 .. n) <= Cardinality(later)
  <2> HIDE DEF pick, later
  <2> QED BY <1>6, <1>7, FS_Injection
<1> QED BY <1>7, <1>8, <1>9

\* detected() drops entries only that have n newer ones behind them.
LEMMA TrimmedBuffer ==
  ASSUME NEW s \in Seq(Nat), Ascending(s), NEW n \in Nat \ {0}
  PROVE  /\ Trimmed(s, n) \in Seq(Nat) /\ Ascending(Trimmed(s, n))
         /\ ToSet(Trimmed(s, n)) \subseteq ToSet(s)
         /\ \A i \in 1 .. Len(s) : s[i] \notin ToSet(Trimmed(s, n)) => i + n <= Len(s)
<1>1. CASE Len(s) <= n
  <2>1. \A i \in 1 .. Len(s) : s[i] \in ToSet(s)
    BY ElementsOf
  <2> QED BY <1>1, <2>1 DEF Trimmed
<1>2. CASE ~(Len(s) <= n)
  <2> DEFINE m == Len(s) - n
             t == SubSeq(s, m + 1, Len(s))
  <2>1. m \in Nat \ {0} /\ Len(s) \in Nat /\ Len(s) - (m + 1) + 1 = n
    BY <1>2, ElementsOf
  <2>2. t \in Seq(Nat) /\ Len(t) = n /\ \A i \in 1 .. n : t[i] = s[m + i]
    <3>1. \A i \in m + 1 .. Len(s) : s[i] \in Nat
      BY <2>1, ElementsOf
    <3>2. /\ t \in Seq(Nat)
          /\ Len(t) = (IF m + 1 <= Len(s) THEN Len(s) - (m + 1) + 1 ELSE 0)
          /\ \A i \in 1 .. Len(s) - (m + 1) + 1 : t[i] = s[(m + 1) + i - 1]
      <4> HIDE DEF m
      <4>1. m + 1 \in Int /\ Len(s) \in Int
        BY <2>1
      <4> QED BY <4>1, <3>1, SubSeqProperties DEF t
    <3> QED BY <3>2, <2>1
  <2>3. Trimmed(s, n) = t
    BY <1>2 DEF Trimmed
  <2> HIDE DEF m, t
  <2>4. \A i \in 1 .. n : m + i \in 1 .. Len(s)
    BY <2>1 DEF m
  <2>5. Ascending(t)
    BY <2>1, <2>2, <2>4 DEF Ascending
  <2>6. ToSet(t) \subseteq ToSet(s)
    <3>1. ToSet(t) = {t[i] : i \in 1 .. n} /\ ToSet(s) = {s[i] : i \in 1 .. Len(s)}
      BY <2>2, ElementsOf
    <3> QED BY <3>1, <2>2, <2>4
  <2>7. ASSUME NEW i \in 1 .. Len(s), s[i] \notin ToSet(t) PROVE i + n <= Len(s)
    <3>1. SUFFICES ASSUME i > m PROVE FALSE
      BY <2>1 DEF m
    <3>2. i - m \in 1 .. n /\ m + (i - m) = i
      BY <2>1, <3>1 DEF m
    <3>3. t[i - m] = s[i]
      BY <2>2, <3>2
    <3> QED BY <2>2, <3>2, <3>3, <2>7, ElementsOf
  <2> QED BY <2>2, <2>3, <2>5, <2>6, <2>7
<1> QED BY <1>1, <1>2

-----------------------------------------------------------------------------
(* The steps of a window.                                                   *)

LEMMA WindowInitInv == WindowInit => WindowInv
<1> SUFFICES ASSUME WindowInit PROVE WindowInv
  OBVIOUS
<1> USE DEF WindowInit
<1>1. WindowTypes
  BY DEF WindowTypes
<1>2. HeardInOrder
  <2>1. UNION {heard[d] : d \in Devices} = 1 .. 0
    OBVIOUS
  <2> QED BY <2>1 DEF HeardInOrder
<1>3. BuffersInOrder
  BY DEF BuffersInOrder, Ascending, ToSet
<1> QED BY <1>1, <1>2, <1>3 DEF WindowInv, NewestKept, ReadingIsNewest, StagesInOrder,
           NewestReadingWins, AnswersAreKept

LEMMA StartWindowInv == ASSUME StartWindow PROVE WindowInv'
<1> USE DEF StartWindow
<1>1. WindowTypes'
  BY DEF WindowTypes
<1>2. HeardInOrder'
  <2>1. UNION {heard'[d] : d \in Devices} = 1 .. 0
    OBVIOUS
  <2> QED BY <2>1 DEF HeardInOrder
<1>3. BuffersInOrder'
  BY DEF BuffersInOrder, Ascending, ToSet
<1> QED BY <1>1, <1>2, <1>3 DEF WindowInv, NewestKept, ReadingIsNewest, StagesInOrder,
           NewestReadingWins, AnswersAreKept

LEMMA DetectInv == ASSUME WindowInv, NEW d \in Devices, Detect(d) PROVE WindowInv'
<1> DEFINE all == UNION {heard[e] : e \in Devices}
           n == Cardinality(all) + 1
           more == Append(frames[d], n)
<1>1. PICK k \in Nat : all = 1 .. k
  BY DEF WindowInv, HeardInOrder
<1>2. n = k + 1 /\ n \in Nat
  <2> HIDE DEF all
  <2>1. Cardinality(1 .. k) = k
    BY FS_Interval
  <2> QED BY <1>1, <2>1
<1>3. /\ stage = "scan" /\ heard' = [heard EXCEPT ![d] = @ \cup {n}]
      /\ frames' = [frames EXCEPT ![d] = Trimmed(more, Limit)]
      /\ UNCHANGED <<stage, plugins, providers, decodeVars, stuck, polls, found, windows>>
  BY DEF Detect
<1> HIDE DEF n, all
<1>4. \A e \in Devices : heard[e] \subseteq 1 .. k /\ IsFiniteSet(heard[e])
  <2>1. \A e \in Devices : heard[e] \subseteq 1 .. k
    BY <1>1 DEF all
  <2>2. IsFiniteSet(1 .. k)
    BY FS_Interval
  <2> QED BY <2>1, <2>2, FS_Subset
<1>5. /\ frames[d] \in Seq(Nat) /\ Ascending(frames[d]) /\ ToSet(frames[d]) \subseteq heard[d]
      /\ DOMAIN frames = Devices /\ DOMAIN heard = Devices
  BY DEF WindowInv, WindowTypes, BuffersInOrder
<1>6. /\ more \in Seq(Nat) /\ Len(more) = Len(frames[d]) + 1 /\ Len(frames[d]) \in Nat
      /\ \A i \in 1 .. Len(frames[d]) : more[i] = frames[d][i] /\ frames[d][i] \in heard[d]
      /\ more[Len(frames[d]) + 1] = n
  BY <1>2, <1>5, AppendProperties, ElementsOf
<1> HIDE DEF more
<1>7. Ascending(more)
  <2> SUFFICES ASSUME NEW i \in 1 .. Len(more), NEW j \in 1 .. Len(more), i < j
               PROVE  more[i] < more[j]
    BY DEF Ascending
  <2>0. i \in 1 .. Len(frames[d])
    BY <1>6
  <2>1. i \in 1 .. Len(frames[d]) /\ more[i] \in 1 .. k
    <3>1. more[i] = frames[d][i] /\ frames[d][i] \in heard[d]
      BY <1>6, <2>0
    <3> QED BY <1>4, <2>0, <3>1
  <2>2. CASE j = Len(frames[d]) + 1
    BY <2>1, <2>2, <1>2, <1>6
  <2>3. CASE j \in 1 .. Len(frames[d])
    BY <2>1, <2>3, <1>5, <1>6 DEF Ascending
  <2> QED BY <2>2, <2>3, <1>6
<1>8. ToSet(more) = ToSet(frames[d]) \cup {n}
  <2>1. /\ ToSet(more) = {more[i] : i \in 1 .. Len(more)}
        /\ ToSet(frames[d]) = {frames[d][i] : i \in 1 .. Len(frames[d])}
    BY <1>5, <1>6, ElementsOf
  <2>2. 1 .. Len(more) = (1 .. Len(frames[d])) \cup {Len(frames[d]) + 1}
    BY <1>6
  <2>3. \A i \in 1 .. Len(frames[d]) : more[i] = frames[d][i]
    BY <1>6
  <2>4. ToSet(more) = {more[i] : i \in 1 .. Len(frames[d])} \cup {more[Len(frames[d]) + 1]}
    BY <2>1, <2>2
  <2>5. {more[i] : i \in 1 .. Len(frames[d])} = {frames[d][i] : i \in 1 .. Len(frames[d])}
    BY <2>3
  <2> QED BY <2>1, <2>4, <2>5, <1>6
<1> DEFINE left == Trimmed(more, Limit)
<1>9. Limit \in Nat \ {0}
  BY WindowAssumption
<1>10. /\ left \in Seq(Nat) /\ Ascending(left) /\ ToSet(left) \subseteq ToSet(more)
       /\ \A i \in 1 .. Len(more) : more[i] \notin ToSet(left) => i + Limit <= Len(more)
  BY <1>6, <1>7, <1>9, TrimmedBuffer
<1>11. /\ frames'[d] = left /\ heard'[d] = heard[d] \cup {n}
       /\ \A e \in Devices \ {d} : frames'[e] = frames[e] /\ heard'[e] = heard[e]
  BY <1>3, <1>5
<1> HIDE DEF left
<1>12. WindowTypes'
  <2>1. frames' \in [Devices -> Seq(Nat)]
    BY <1>3, <1>10 DEF left, WindowInv, WindowTypes
  <2>2. heard' \in [Devices -> SUBSET Nat]
    BY <1>3, <1>2 DEF WindowInv, WindowTypes
  <2>3. job = NoJob
    BY <1>3 DEF WindowInv, WindowTypes
  <2> QED BY <2>1, <2>2, <2>3, <1>3 DEF WindowInv, WindowTypes, decodeVars
<1>13. HeardInOrder'
  <2>1. UNION {heard'[e] : e \in Devices} = all \cup {n}
    BY <1>11 DEF all
  <2>2. all \cup {n} = 1 .. n
    BY <1>1, <1>2
  <2> QED BY <2>1, <2>2, <1>2 DEF HeardInOrder
<1>14. BuffersInOrder'
  <2> SUFFICES ASSUME NEW e \in Devices
               PROVE  Ascending(frames'[e]) /\ ToSet(frames'[e]) \subseteq heard'[e]
    BY DEF BuffersInOrder
  <2>1. CASE e = d
    BY <2>1, <1>5, <1>8, <1>10, <1>11
  <2>2. CASE e # d
    BY <2>2, <1>11 DEF WindowInv, BuffersInOrder
  <2> QED BY <2>1, <2>2
<1>15. NewestKept'
  <2> SUFFICES ASSUME NEW e \in Devices, NEW f \in heard'[e],
                      Cardinality({g \in heard'[e] : g > f}) < Limit
               PROVE  f \in ToSet(frames'[e]) \/ <<e, f>> \in tried'
    BY DEF NewestKept, Newer
  <2>1. CASE e # d
    <3>1. {g \in heard'[e] : g > f} = Newer(e, f)
      BY <2>1, <1>11 DEF Newer
    <3> QED BY <2>1, <3>1, <1>3, <1>11 DEF WindowInv, NewestKept, decodeVars
  <2>2. CASE e = d
    <3>1. IsFiniteSet(heard'[d])
      BY <1>4, <1>11, FS_AddElement
    <3>2. f \in ToSet(more) \/ <<d, f>> \in tried
      <4>1. CASE f = n
        BY <4>1, <1>8
      <4>2. CASE f \in heard[d]
        <5>1. Newer(d, f) \subseteq {g \in heard'[d] : g > f}
          BY <1>11 DEF Newer
        <5>2. IsFiniteSet({g \in heard'[d] : g > f})
          BY <3>1, FS_Subset
        <5>3. Cardinality(Newer(d, f)) <= Cardinality({g \in heard'[d] : g > f})
          BY <5>1, <5>2, FS_Subset
        <5>4. IsFiniteSet(Newer(d, f))
          BY <5>1, <5>2, FS_Subset
        <5>5. Cardinality(Newer(d, f)) < Limit
          BY <5>2, <5>3, <5>4, <2>2, <1>9, FS_CardinalityType
        <5> QED BY <4>2, <5>5, <1>8 DEF WindowInv, NewestKept
      <4> QED BY <4>1, <4>2, <2>2, <1>11
    <3>3. ASSUME f \in ToSet(more), f \notin ToSet(left) PROVE FALSE
      <4>1. PICK i \in 1 .. Len(more) : f = more[i]
        BY <3>3, <1>6, ElementsOf
      <4>2. i + Limit <= Len(more)
        BY <4>1, <3>3, <1>10
      <4>3. ToSet(more) \subseteq heard'[d]
        BY <1>5, <1>8, <1>11
      <4>4. Cardinality({g \in heard'[d] : g > more[i]}) >= Limit
        BY <4>2, <4>3, <3>1, <1>6, <1>7, <1>9, CountNewer
      <4>5. Cardinality({g \in heard'[d] : g > f}) \in Nat
        BY <3>1, FS_Subset, FS_CardinalityType
      <4> QED BY <4>1, <4>4, <4>5, <2>2, <1>9
    <3> QED BY <2>2, <3>2, <3>3, <1>3, <1>11 DEF decodeVars
  <2> QED BY <2>1, <2>2
<1>16. read = {} /\ read' = {}
  BY <1>3 DEF WindowInv, StagesInOrder, decodeVars
<1>17. ReadingIsNewest' /\ StagesInOrder'
  BY <1>3, <1>16 DEF ReadingIsNewest, StagesInOrder
<1>18. NewestReadingWins' /\ AnswersAreKept'
  BY <1>3 DEF NewestReadingWins, AnswersAreKept
<1> QED BY <1>12, <1>13, <1>14, <1>15, <1>17, <1>18 DEF WindowInv

\* The await of a decode has ended: the frame goes once every decoder has had it.
LEMMA AdvanceInv ==
  ASSUME WindowInv, job.state \in {"queued", "running"}, NEW STATE now, Advance(now),
         \A d \in Devices : \A f \in heard[d] : <<d, f>> \in read' =>
             /\ d \in DOMAIN now
             /\ now[d].by = "scan" /\ now[d].frame \in Nat /\ now[d].frame >= f
             /\ \A i \in 1 .. Len(frames[d]) : f <= frames[d][i]
  PROVE  WindowInv'
<1> DEFINE s == frames[job.device]
<1>1. /\ job \in Jobs /\ job # NoJob /\ job.device \in Devices
      /\ stage = "decode" /\ s # <<>>
  BY JobAtWork DEF WindowInv
<1>2. /\ frames \in [Devices -> Seq(Nat)] /\ s \in Seq(Nat) /\ Ascending(s)
      /\ heard \in [Devices -> SUBSET Nat] /\ ToSet(s) \subseteq heard[job.device]
  BY <1>1 DEF WindowInv, WindowTypes, BuffersInOrder
<1> HIDE DEF s
<1>3. /\ Tail(s) \in Seq(Nat) /\ Ascending(Tail(s))
      /\ ToSet(s) = {Head(s)} \cup ToSet(Tail(s))
      /\ \A i \in 1 .. Len(Tail(s)) : Tail(s)[i] = s[i + 1]
      /\ Len(s) # 1 => Tail(s) # <<>>
      /\ Len(Tail(s)) = Len(s) - 1 /\ Len(s) \in Nat \ {0}
  <2>1. Len(Tail(s)) = Len(s) - 1 /\ Len(s) \in Nat \ {0}
    BY <1>1, <1>2, HeadTailProperties, EmptySeq
  <2> QED BY <2>1, <1>1, <1>2, TailOfBuffer
<1>4. /\ readings' = now
      /\ UNCHANGED <<stage, plugins, providers, heard, polls, found, windows>>
  BY DEF Advance
<1>5. /\ job.plugin \in Nat
      /\ \A p \in Nat : [job EXCEPT !.plugin = p, !.state = "queued"] \in Jobs
      /\ \A p \in Nat : [job EXCEPT !.plugin = p, !.state = "queued"].device = job.device
      /\ \A p \in Nat : [job EXCEPT !.plugin = p, !.state = "queued"] # NoJob
  <2>1. \A p \in Nat : /\ [job EXCEPT !.plugin = p, !.state = "queued"] \in Jobs
                       /\ [job EXCEPT !.plugin = p, !.state = "queued"].device = job.device
    BY <1>1 DEF Jobs
  <2> QED BY <2>1, <1>1, NoJobIsNone DEF Jobs
\* What becomes of the buffers, whichever decoder it was.
<1>6. /\ frames' \in [Devices -> Seq(Nat)]
      /\ \A e \in Devices \ {job.device} : frames'[e] = frames[e]
      /\ \/ frames'[job.device] = s /\ tried' = tried
         \/ frames'[job.device] = Tail(s) /\ tried' = tried \cup {<<job.device, Head(s)>>}
      /\ job' \in Jobs \cup {NoJob}
      /\ job' # NoJob => job'.device = job.device /\ frames'[job.device] # <<>>
  <2>1. CASE job.plugin < Len(plugins)
    <3>1. job' = [job EXCEPT !.plugin = job.plugin + 1, !.state = "queued"]
          /\ UNCHANGED <<frames, tried>>
      BY <2>1 DEF Advance
    <3>2. job' \in Jobs /\ job'.device = job.device
      <4>1. job.plugin + 1 \in Nat
        <5>1. job.plugin \in Nat
          BY <1>1 DEF Jobs
        <5> QED BY <5>1
      <4> QED BY <3>1, <4>1, <1>5, Zenon
    <3> QED BY <3>1, <3>2, <1>1, <1>2 DEF s
  <2>2. CASE ~(job.plugin < Len(plugins))
    <3>1. /\ frames' = [frames EXCEPT ![job.device] = Tail(s)]
          /\ job' = IF Len(s) = 1 THEN NoJob
                    ELSE [job EXCEPT !.plugin = 1, !.state = "queued"]
          /\ tried' = tried \cup {<<job.device, Head(s)>>}
      BY <2>2, <1>1, <1>2 DEF Advance, Frame, s
    <3>2. frames'[job.device] = Tail(s) /\ frames' \in [Devices -> Seq(Nat)]
          /\ \A e \in Devices \ {job.device} : frames'[e] = frames[e]
      BY <3>1, <1>1, <1>2, <1>3
    <3>3. /\ job' \in Jobs \cup {NoJob}
          /\ job' # NoJob => job'.device = job.device /\ Len(s) # 1
      BY <3>1, <1>5
    <3> QED BY <3>1, <3>2, <3>3, <1>3
  <2> QED BY <2>1, <2>2
<1>7. WindowTypes'
  BY <1>1, <1>2, <1>4, <1>6 DEF WindowInv, WindowTypes
<1>8. HeardInOrder'
  BY <1>4 DEF WindowInv, HeardInOrder
<1>9. BuffersInOrder'
  <2> SUFFICES ASSUME NEW e \in Devices
               PROVE  Ascending(frames'[e]) /\ ToSet(frames'[e]) \subseteq heard[e]
    BY <1>4 DEF BuffersInOrder
  <2>1. CASE e = job.device
    BY <2>1, <1>2, <1>3, <1>6
  <2>2. CASE e # job.device
    BY <2>2, <1>6 DEF WindowInv, BuffersInOrder
  <2> QED BY <2>1, <2>2
<1>10. NewestKept'
  <2> SUFFICES ASSUME NEW e \in Devices, NEW f \in heard[e], Cardinality(Newer(e, f)) < Limit
               PROVE  f \in ToSet(frames'[e]) \/ <<e, f>> \in tried'
    BY <1>4 DEF NewestKept, Newer
  <2>1. f \in ToSet(frames[e]) \/ <<e, f>> \in tried
    BY DEF WindowInv, NewestKept
  <2>2. CASE e = job.device
    BY <2>1, <2>2, <1>3, <1>6 DEF s
  <2>3. CASE e # job.device
    BY <2>1, <2>3, <1>6
  <2> QED BY <2>2, <2>3
<1>11. ReadingIsNewest'
  <2> SUFFICES ASSUME NEW d \in Devices, NEW f \in heard[d], <<d, f>> \in read'
               PROVE  /\ d \in DOMAIN now
                      /\ now[d].by = "scan" /\ now[d].frame \in Nat /\ now[d].frame >= f
                      /\ \A i \in 1 .. Len(frames'[d]) : f <= frames'[d][i]
    BY <1>4 DEF ReadingIsNewest
  <2>1. /\ d \in DOMAIN now
        /\ now[d].by = "scan" /\ now[d].frame \in Nat /\ now[d].frame >= f
        /\ \A i \in 1 .. Len(frames[d]) : f <= frames[d][i]
    OBVIOUS
  <2>2. CASE d = job.device /\ frames'[job.device] = Tail(s)
    <3>1. \A i \in 1 .. Len(Tail(s)) : i + 1 \in 1 .. Len(s) /\ Tail(s)[i] = s[i + 1]
      BY <1>3
    <3> QED BY <2>1, <2>2, <3>1 DEF s
  <2>3. CASE ~(d = job.device /\ frames'[job.device] = Tail(s))
    <3>1. frames'[d] = frames[d]
      BY <2>3, <1>6 DEF s
    <3> QED BY <2>1, <3>1
  <2> QED BY <2>2, <2>3
<1>12. StagesInOrder' /\ NewestReadingWins' /\ AnswersAreKept'
  BY <1>1, <1>4 DEF StagesInOrder, NewestReadingWins, AnswersAreKept
<1> QED BY <1>7, <1>8, <1>9, <1>10, <1>11, <1>12 DEF WindowInv

LEMMA DecodedInv == ASSUME WindowInv, Decoded PROVE WindowInv'
<1> DEFINE s == frames[job.device]
           now == Latest
<1>1. job.state = "running" /\ Advance(now) /\ read' = read \cup {<<job.device, Frame>>}
  BY DEF Decoded
<1>2. job.device \in Devices /\ s # <<>> /\ Frame = Head(s)
  BY <1>1, JobAtWork DEF WindowInv, Frame
<1>3. s \in Seq(Nat) /\ Ascending(s)
  BY <1>2 DEF WindowInv, WindowTypes, BuffersInOrder
<1>4. /\ Frame \in Nat /\ Frame = s[1] /\ 1 \in 1 .. Len(s)
      /\ \A i \in 1 .. Len(s) : Frame <= s[i]
  <2> HIDE DEF s
  <2> QED BY <1>2, <1>3, TailOfBuffer
<1>5. /\ DOMAIN now = DOMAIN readings \cup {job.device}
      /\ now[job.device] = Scanned(Frame)
      /\ \A d \in DOMAIN readings \ {job.device} : now[d] = readings[d]
  BY DEF Latest
<1>6. Scanned(Frame).by = "scan" /\ Scanned(Frame).frame = Frame
  BY DEF Scanned
<1> HIDE DEF now
<1>7. ASSUME NEW d \in Devices, NEW f \in heard[d], <<d, f>> \in read'
      PROVE  /\ d \in DOMAIN now
             /\ now[d].by = "scan" /\ now[d].frame \in Nat /\ now[d].frame >= f
             /\ \A i \in 1 .. Len(frames[d]) : f <= frames[d][i]
  <2>1. f \in Nat
    BY DEF WindowInv, WindowTypes
  <2>2. CASE <<d, f>> \in read
    <3>1. /\ d \in DOMAIN readings
          /\ readings[d].by = "scan" /\ readings[d].frame \in Nat /\ readings[d].frame >= f
          /\ \A i \in 1 .. Len(frames[d]) : f <= frames[d][i]
      BY <2>2 DEF WindowInv, ReadingIsNewest
    <3>2. CASE d = job.device
      <4>1. f <= Frame
        BY <3>1, <3>2, <1>4
      <4> QED BY <3>1, <3>2, <4>1, <2>1, <1>4, <1>5, <1>6
    <3>3. CASE d # job.device
      BY <3>1, <3>3, <1>5
    <3> QED BY <3>2, <3>3
  <2>3. CASE d = job.device /\ f = Frame
    BY <2>1, <2>3, <1>4, <1>5, <1>6
  <2> QED BY <2>2, <2>3, <1>1, <1>7
<1> QED BY <1>1, <1>7, AdvanceInv

\* A decode without a reading.
LEMMA NothingDecodedInv ==
  ASSUME WindowInv, job.state \in {"queued", "running"}, Advance(readings), UNCHANGED read
  PROVE  WindowInv'
<1>1. \A d \in Devices : \A f \in heard[d] : <<d, f>> \in read' =>
          /\ d \in DOMAIN readings
          /\ readings[d].by = "scan" /\ readings[d].frame \in Nat /\ readings[d].frame >= f
          /\ \A i \in 1 .. Len(frames[d]) : f <= frames[d][i]
  BY DEF WindowInv, ReadingIsNewest
<1> QED BY <1>1, AdvanceInv

\* A merge returns every reading of the scan as it is, and every answer.
LEMMA MergedKeeps ==
  /\ \A d \in DOMAIN readings : d \in DOMAIN Merged /\ Merged[d] = readings[d]
  /\ \A p \in ToSet(providers) : polls[p] = "answered" => Reads[p] \subseteq DOMAIN Merged
<1>1. DOMAIN Merged = DOMAIN readings \cup UNION {Reads[providers[i]] : i \in Answers}
  BY DEF Merged
<1>2. \A d \in DOMAIN readings : Merged[d] = readings[d]
  BY DEF Merged
<1>3. ASSUME NEW p \in ToSet(providers), polls[p] = "answered"
      PROVE  \E i \in Answers : Reads[p] = Reads[providers[i]]
  BY <1>3 DEF ToSet, Answers
<1> QED BY <1>1, <1>2, <1>3

LEMMA MergeInv == ASSUME WindowInv, Merge PROVE WindowInv'
<1>1. /\ stage = "cloud"
      /\ UNCHANGED <<plugins, providers, frames, heard, job, readings, tried, read, polls>>
      /\ \/ stage' = "failed"
         \/ stage' = "done" /\ found' = Merged
  BY DEF Merge, scanVars, decodeVars
<1>2. job = NoJob /\ \A d \in Devices : frames[d] = <<>>
  BY <1>1 DEF WindowInv, WindowTypes, StagesInOrder
<1>3. WindowTypes'
  BY <1>1, <1>2 DEF WindowInv, WindowTypes
<1>4. HeardInOrder' /\ BuffersInOrder' /\ NewestKept' /\ ReadingIsNewest' /\ StagesInOrder'
  BY <1>1 DEF WindowInv, HeardInOrder, BuffersInOrder, NewestKept, Newer, ReadingIsNewest,
              StagesInOrder
<1>5. NewestReadingWins'
  <2> SUFFICES ASSUME stage' = "done", NEW d \in Devices, NEW f \in heard[d],
                      Cardinality(Newer(d, f)) < Limit
               PROVE  /\ <<d, f>> \in tried
                      /\ <<d, f>> \in read => /\ d \in DOMAIN found'
                                             /\ found'[d].by = "scan" /\ found'[d].frame >= f
    BY <1>1 DEF NewestReadingWins, Newer
  <2>1. <<d, f>> \in tried
    <3>1. f \notin ToSet(frames[d])
      BY <1>2 DEF ToSet
    <3> QED BY <3>1 DEF WindowInv, NewestKept
  <2>2. ASSUME <<d, f>> \in read
        PROVE  d \in DOMAIN found' /\ found'[d].by = "scan" /\ found'[d].frame >= f
    <3>1. d \in DOMAIN readings /\ readings[d].by = "scan" /\ readings[d].frame >= f
      BY <2>2 DEF WindowInv, ReadingIsNewest
    <3>2. found' = Merged
      BY <1>1
    <3> QED BY <3>1, <3>2, MergedKeeps
  <2> QED BY <2>1, <2>2
<1>6. AnswersAreKept'
  <2>1. DOMAIN polls = ToSet(providers)
    BY <1>1 DEF WindowInv, StagesInOrder
  <2> QED BY <1>1, <2>1, MergedKeeps DEF AnswersAreKept
<1> QED BY <1>3, <1>4, <1>5, <1>6 DEF WindowInv

\* Steps that leave the frames, the readings and the providers alone.
LEMMA StageInv ==
  ASSUME WindowInv,
         UNCHANGED <<frames, heard, readings, tried, read, providers, found>>,
         stage' \in {"scan", "decode", "cloud", "done", "failed"},
         job' \in Jobs \cup {NoJob},
         job' # NoJob => stage' = "decode" /\ frames[job'.device] # <<>>,
         stage' = "scan" => stage = "scan",
         stage' = "cloud" => /\ \A d \in Devices : frames[d] = <<>>
                             /\ DOMAIN polls' = ToSet(providers),
         stage' = "done" => stage = "done" /\ polls' = polls
  PROVE  WindowInv'
<1>1. WindowTypes'
  BY DEF WindowInv, WindowTypes
<1>2. HeardInOrder' /\ BuffersInOrder' /\ NewestKept' /\ ReadingIsNewest'
  BY DEF WindowInv, HeardInOrder, BuffersInOrder, NewestKept, Newer, ReadingIsNewest
<1>3. StagesInOrder'
  BY DEF WindowInv, StagesInOrder
<1>4. NewestReadingWins' /\ AnswersAreKept'
  BY DEF WindowInv, NewestReadingWins, AnswersAreKept
<1> QED BY <1>1, <1>2, <1>3, <1>4 DEF WindowInv

LEMMA WindowStep == WindowInv /\ [WindowNext]_windowVars => WindowInv'
<1> SUFFICES ASSUME WindowInv, [WindowNext]_windowVars PROVE WindowInv'
  OBVIOUS
<1> USE DEF scanVars, decodeVars
<1>1. /\ stage \in {"scan", "decode", "cloud", "done", "failed"}
      /\ job \in Jobs \cup {NoJob}
      /\ job # NoJob => stage = "decode" /\ frames[job.device] # <<>>
      /\ stage = "cloud" => /\ \A d \in Devices : frames[d] = <<>>
                            /\ DOMAIN polls = ToSet(providers)
  BY DEF WindowInv, WindowTypes, StagesInOrder
<1>2. CASE StartWindow
  BY <1>2, StartWindowInv
<1>3. CASE FailWindow
  <2>1. job = NoJob
    BY <1>1, <1>3 DEF FailWindow
  <2> QED BY <1>1, <1>3, <2>1, StageInv DEF FailWindow
<1>4. CASE \E d \in Devices : Detect(d)
  BY <1>4, DetectInv
<1>5. CASE StopScan
  <2>1. job = NoJob
    BY <1>1, <1>5 DEF StopScan
  <2> QED BY <1>1, <1>5, <2>1, StageInv DEF StopScan
<1>6. CASE NextDevice
  <2>1. PICK d \in Devices : /\ frames[d] # <<>>
                             /\ job' = [device |-> d, plugin |-> 1, state |-> "queued"]
    BY <1>6 DEF NextDevice
  <2>2. job' \in Jobs /\ job'.device = d
    BY <2>1 DEF Jobs
  <2> QED BY <1>1, <1>6, <2>1, <2>2, StageInv DEF NextDevice
<1>7. CASE RunDecode
  <2>1. job \in Jobs /\ stage = "decode" /\ frames[job.device] # <<>>
    BY <1>7, JobAtWork DEF RunDecode, WindowInv
  <2>2. job' = [job EXCEPT !.state = "running"]
    BY <1>7 DEF RunDecode
  <2>3. job' \in Jobs /\ job'.device = job.device
    BY <2>1, <2>2 DEF Jobs
  <2> QED BY <1>1, <1>7, <2>1, <2>3, StageInv DEF RunDecode
<1>8. CASE Decoded
  BY <1>8, DecodedInv
<1>9. CASE DecodedNothing
  BY <1>9, NothingDecodedInv DEF DecodedNothing
<1>10. CASE DecodeTimeout
  BY <1>10, NothingDecodedInv DEF DecodeTimeout
<1>11. CASE LateReturn
  BY <1>1, <1>11, StageInv DEF LateReturn
<1>12. CASE DecodeDone
  BY <1>1, <1>12, StageInv DEF DecodeDone
<1>13. CASE \E p \in DOMAIN polls : RunPoll(p) \/ PollEnds(p) \/ PollTimeout(p)
  <2>1. /\ stage = "cloud" /\ DOMAIN polls' = DOMAIN polls
        /\ UNCHANGED <<stage, providers, frames, heard, job, readings, tried, read, found>>
    BY <1>13 DEF RunPoll, PollEnds, PollTimeout, PollStep
  <2> QED BY <1>1, <2>1, StageInv
<1>14. CASE Merge
  BY <1>14, MergeInv
<1>15. CASE UNCHANGED windowVars
  BY <1>1, <1>15, StageInv DEF windowVars
<1> QED
  BY <1>2, <1>3, <1>4, <1>5, <1>6, <1>7, <1>8, <1>9, <1>10, <1>11, <1>12, <1>13, <1>14,
     <1>15 DEF WindowNext, Loop

LEMMA WindowInvariance == WindowSpec => []WindowInv
  BY WindowInitInv, WindowStep, PTL DEF WindowSpec

\* For any frames, decoders and timeouts: when a window ends, each of the newest Limit
\* frames of a device was offered to the decoders, and the reading returned is not older
\* than any of them that one could read (scan's buffers, its loop over them and the
\* setdefault of the cloud merge).
THEOREM NewestWins == WindowSpec => []NewestReadingWins
<1>1. WindowInv => NewestReadingWins
  BY DEF WindowInv
<1> QED BY <1>1, WindowInvariance, PTL

\* Whatever other providers did, the addresses a provider answered with in time are in
\* the window's result (poll_cloud's error handling and the merge of discover_with_plugins).
THEOREM AnswersKept == WindowSpec => []AnswersAreKept
<1>1. WindowInv => AnswersAreKept
  BY DEF WindowInv
<1> QED BY <1>1, WindowInvariance, PTL

-----------------------------------------------------------------------------
(* Loading: what the recursive definitions of names compute, by induction   *)
(* over the entries, from the least-number principle.                       *)

\* A nonempty set of naturals has a minimum.
LEMMA LeastNat ==
  ASSUME NEW T, T \subseteq Nat, T # {}
  PROVE  \E m \in T : \A k \in T : m <= k
<1> DEFINE Segments == {0 .. n : n \in T}
<1>1. Segments \subseteq FiniteSubsetsOf(Nat)
  <2> SUFFICES ASSUME NEW n \in T PROVE 0 .. n \in FiniteSubsetsOf(Nat)
    OBVIOUS
  <2>1. n \in Nat
    OBVIOUS
  <2>2. IsFiniteSet(0 .. n)
    BY <2>1, FS_Interval
  <2>3. 0 .. n \subseteq Nat
    BY <2>1
  <2> QED BY <2>2, <2>3 DEF FiniteSubsetsOf
<1>2. Segments # {}
  OBVIOUS
<1>3. PICK x \in Segments :
          \A y \in Segments : ~ (<<y, x>> \in StrictSubsetOrdering(Nat))
  <2> HIDE DEF Segments
  <2> QED BY <1>1, <1>2, FS_StrictSubsetOrderingWellFounded, WFMin
<1>4. PICK m \in T : x = 0 .. m
  BY <1>3
<1>5. SUFFICES ASSUME NEW k \in T, k < m PROVE FALSE
  OBVIOUS
<1>6. k \in Nat /\ m \in Nat
  OBVIOUS
<1>7. 0 .. k \subseteq 0 .. m /\ 0 .. k # 0 .. m
  <2>1. m \in 0 .. m /\ m \notin 0 .. k
    BY <1>5, <1>6
  <2> QED BY <2>1, <1>5, <1>6
<1>8. <<0 .. k, 0 .. m>> \in StrictSubsetOrdering(Nat)
  <2>1. 0 .. k \in SUBSET Nat /\ 0 .. m \in SUBSET Nat
    BY <1>6
  <2> QED BY <2>1, <1>7 DEF StrictSubsetOrdering
<1> QED BY <1>3, <1>4, <1>8

\* Induction over 0 .. n, with the predicate given as the set where it holds.
LEMMA IntervalInduction ==
  ASSUME NEW n \in Nat, NEW P,
         0 \in P,
         \A i \in 1 .. n : i - 1 \in P => i \in P
  PROVE  \A i \in 0 .. n : i \in P
<1> DEFINE Bad == {i \in 0 .. n : i \notin P}
<1>1. SUFFICES ASSUME Bad # {} PROVE FALSE
  OBVIOUS
<1>2. Bad \subseteq Nat
  OBVIOUS
<1>3. PICK m \in Bad : \A k \in Bad : m <= k
  <2> HIDE DEF Bad
  <2> QED BY <1>1, <1>2, LeastNat
<1>4. m # 0 /\ m \in 1 .. n
  OBVIOUS
<1>5. m - 1 \notin Bad /\ m - 1 \in 0 .. n
  BY <1>3, <1>4
<1> QED BY <1>4, <1>5

\* What a recursion computes step by step, over 1 .. n.
IsStep(step, S, n) == step \in [S \X (1 .. n) -> S]
Computes(f, S, c, step, n) ==
    /\ f \in [0 .. n -> S]
    /\ f[0] = c /\ \A i \in 1 .. n : f[i] = step[<<f[i - 1], i>>]

LEMMA RecursionExists ==
  ASSUME NEW S, NEW c \in S, NEW n \in Nat, NEW step, IsStep(step, S, n)
  PROVE  \E f : Computes(f, S, c, step, n)
<1> USE DEF IsStep
<1> DEFINE Is(f, k) == f[0] = c /\ \A i \in 1 .. k : f[i] = step[<<f[i - 1], i>>]
           P == {k \in 0 .. n : \E f \in [0 .. k -> S] : Is(f, k)}
<1>1. 0 \in P
  <2> DEFINE f == [i \in 0 .. 0 |-> c]
  <2>1. f[0] = c /\ f \in [0 .. 0 -> S] /\ 1 .. 0 = {}
    OBVIOUS
  <2>2. Is(f, 0)
    <3> HIDE DEF f
    <3> QED BY <2>1
  <2>3. 0 \in 0 .. n
    OBVIOUS
  <2> QED BY <2>1, <2>2, <2>3
<1>2. ASSUME NEW k \in 1 .. n, k - 1 \in P PROVE k \in P
  <2>1. PICK g \in [0 .. k - 1 -> S] : Is(g, k - 1)
    BY <1>2
  <2> DEFINE f == [i \in 0 .. k |-> IF i = k THEN step[<<g[k - 1], k>>] ELSE g[i]]
  <2>2. k - 1 \in 0 .. k - 1 /\ k \in 0 .. n /\ 0 \in 0 .. k /\ k # 0
    OBVIOUS
  <2>3. step[<<g[k - 1], k>>] \in S
    BY <2>2
  <2>4. f \in [0 .. k -> S]
    BY <2>3
  <2>5. f[0] = c
    BY <2>1, <2>2
  <2>6. ASSUME NEW i \in 1 .. k PROVE f[i] = step[<<f[i - 1], i>>]
    <3>1. i \in 0 .. k /\ i - 1 \in 0 .. k /\ i - 1 # k
      OBVIOUS
    <3>2. f[i - 1] = g[i - 1]
      BY <3>1
    <3>3. CASE i = k
      BY <3>1, <3>2, <3>3
    <3>4. CASE i # k
      <4>1. i \in 1 .. k - 1
        BY <3>4
      <4> QED BY <2>1, <3>1, <3>2, <3>4, <4>1
    <3> QED BY <3>3, <3>4
  <2> HIDE DEF f
  <2> QED BY <2>2, <2>4, <2>5, <2>6
<1>3. n \in P
  <2> HIDE DEF P
  <2>1. \A i \in 0 .. n : i \in P
    BY <1>1, <1>2, IntervalInduction
  <2> QED BY <2>1
<1> QED BY <1>3 DEF Computes

Text == STRING
Entries == [name : Text, plugin : Text, loads : BOOLEAN]
Names == Seq(Text)

\* A name that is appended is new.
LEMMA CandidateIsNew ==
  ASSUME NEW known \in Names, NEW entry \in Entries
  PROVE  /\ Candidate(known, entry) \in Names
         /\ \/ Candidate(known, entry) = known
            \/ \E name \in Text \ ToSet(known) : Candidate(known, entry) = Append(known, name)
<1>1. entry.plugin \in Text
  BY DEF Entries
<1>2. CASE {entry.name, entry.plugin} \cap ToSet(known) # {} \/ ~entry.loads
  BY <1>2 DEF Candidate
<1>3. CASE ~({entry.name, entry.plugin} \cap ToSet(known) # {} \/ ~entry.loads)
  <2>1. entry.plugin \notin ToSet(known) /\ Candidate(known, entry) = Append(known, entry.plugin)
    BY <1>3 DEF Candidate
  <2>2. Append(known, entry.plugin) \in Names
    BY <1>1, AppendProperties DEF Names
  <2> QED BY <1>1, <2>1, <2>2
<1> QED BY <1>2, <1>3

LEMMA AppendNew ==
  ASSUME NEW S, NEW s \in Seq(S), IsInjective(s), NEW name \in S \ ToSet(s)
  PROVE  /\ Append(s, name) \in Seq(S) /\ IsInjective(Append(s, name))
         /\ Len(Append(s, name)) = Len(s) + 1 /\ Append(s, name)[Len(s) + 1] = name
         /\ \A i \in 1 .. Len(s) : Append(s, name)[i] = s[i]
         /\ ToSet(Append(s, name)) = ToSet(s) \cup {name}
<1> DEFINE t == Append(s, name)
<1>1. /\ t \in Seq(S) /\ Len(t) = Len(s) + 1 /\ Len(s) \in Nat /\ t[Len(s) + 1] = name
      /\ \A i \in 1 .. Len(s) : t[i] = s[i]
      /\ DOMAIN t = 1 .. Len(t) /\ DOMAIN s = 1 .. Len(s)
  BY AppendProperties, LenProperties
<1> HIDE DEF t
<1>2. 1 .. Len(t) = (1 .. Len(s)) \cup {Len(s) + 1}
  BY <1>1
<1>3. \A i \in 1 .. Len(s) : t[i] # name
  BY <1>1 DEF ToSet
<1>4. IsInjective(t)
  <2> SUFFICES ASSUME NEW a \in 1 .. Len(t), NEW b \in 1 .. Len(t), t[a] = t[b] PROVE a = b
    BY <1>1 DEF IsInjective
  <2>1. CASE a \in 1 .. Len(s) /\ b \in 1 .. Len(s)
    BY <2>1, <1>1 DEF IsInjective
  <2>2. CASE a = Len(s) + 1 \/ b = Len(s) + 1
    BY <2>2, <1>1, <1>2, <1>3
  <2> QED BY <2>1, <2>2, <1>2
<1>5. ToSet(t) = ToSet(s) \cup {name}
  <2>1. ToSet(t) = {t[i] : i \in 1 .. Len(s)} \cup {t[Len(s) + 1]}
    BY <1>1, <1>2 DEF ToSet
  <2>2. {t[i] : i \in 1 .. Len(s)} = {s[i] : i \in 1 .. Len(s)}
    BY <1>1
  <2> QED BY <2>1, <2>2, <1>1 DEF ToSet
<1> QED BY <1>1, <1>4, <1>5 DEF t

\* The built-in names stay where they are, and no name comes twice.
Extends(s, builtin) ==
    /\ s \in Names /\ IsInjective(s)
    /\ Len(builtin) <= Len(s) /\ \A i \in 1 .. Len(builtin) : s[i] = builtin[i]

LEMMA CandidatesExtend ==
  ASSUME NEW builtin \in Names, IsInjective(builtin), NEW entries \in Seq(Entries)
  PROVE  Extends(Candidates(builtin, entries), builtin)
<1> DEFINE n == Len(entries)
           Is(f) == f = [i \in 0 .. n |->
                            IF i = 0 THEN builtin ELSE Candidate(f[i - 1], entries[i])]
           known == CHOOSE f : Is(f)
           step == [x \in Names \X (1 .. n) |-> Candidate(x[1], entries[x[2]])]
           P == {i \in 0 .. n : Extends(known[i], builtin)}
<1>1. n \in Nat /\ \A i \in 1 .. n : entries[i] \in Entries
  BY ElementOfSeq, LenProperties
<1>2. Candidates(builtin, entries) = known[n]
  BY DEF Candidates
<1> HIDE DEF n
<1>3. IsStep(step, Names, n)
  <2>1. ASSUME NEW x \in Names \X (1 .. n) PROVE Candidate(x[1], entries[x[2]]) \in Names
    BY <1>1, CandidateIsNew
  <2> QED BY <2>1 DEF IsStep
<1>4. \E f : Is(f)
  <2> HIDE DEF step
  <2>1. PICK f : Computes(f, Names, builtin, step, n)
    BY <1>1, <1>3, RecursionExists
  <2>2. ASSUME NEW i \in 1 .. n PROVE f[i] = Candidate(f[i - 1], entries[i])
    <3>1. f[i - 1] \in Names
      <4>1. i - 1 \in 0 .. n /\ f \in [0 .. n -> Names]
        BY <1>1, <2>1 DEF Computes
      <4> QED BY <4>1
    <3>2. <<f[i - 1], i>> \in Names \X (1 .. n)
      BY <3>1
    <3>3. step[<<f[i - 1], i>>] = Candidate(f[i - 1], entries[i])
      BY <3>2 DEF step
    <3> QED BY <2>1, <3>3 DEF Computes
  <2>3. \A i \in 0 .. n : f[i] = IF i = 0 THEN builtin ELSE Candidate(f[i - 1], entries[i])
    <3>1. \A i \in 0 .. n : i = 0 \/ i \in 1 .. n
      BY <1>1
    <3> QED BY <2>1, <2>2, <3>1 DEF Computes
  <2>4. Is(f)
    <3>1. f = [i \in 0 .. n |-> f[i]]
      BY <2>1 DEF Computes
    <3> QED BY <2>3, <3>1
  <2> QED BY <2>4
<1>5. known = [i \in 0 .. n |->
                 IF i = 0 THEN builtin ELSE Candidate(known[i - 1], entries[i])]
  BY <1>4
<1> HIDE DEF known
<1>6. 0 \in P
  <2>1. 0 \in 0 .. n /\ known[0] = builtin /\ Len(builtin) \in Nat
    BY <1>1, <1>5, LenProperties DEF Names
  <2> QED BY <2>1 DEF Extends
<1>7. ASSUME NEW i \in 1 .. n, i - 1 \in P PROVE i \in P
  <2>1. i \in 0 .. n /\ i # 0
    BY <1>1
  <2>2. known[i] = Candidate(known[i - 1], entries[i])
    BY <1>5, <2>1
  <2>3. Extends(known[i - 1], builtin)
    BY <1>7
  <2> DEFINE k == known[i - 1]
  <2> HIDE DEF k
  <2>4. CASE known[i] = k
    BY <2>1, <2>3, <2>4 DEF k
  <2>5. CASE \E name \in Text \ ToSet(k) : known[i] = Append(k, name)
    <3>1. PICK name \in Text \ ToSet(k) : known[i] = Append(k, name)
      BY <2>5
    <3>2. /\ k \in Seq(Text) /\ IsInjective(k)
          /\ Len(builtin) <= Len(k) /\ \A j \in 1 .. Len(builtin) : k[j] = builtin[j]
      BY <2>3 DEF k, Extends, Names
    <3>3. /\ known[i] \in Seq(Text) /\ IsInjective(known[i])
          /\ Len(known[i]) = Len(k) + 1
          /\ \A j \in 1 .. Len(k) : known[i][j] = k[j]
      <4>1. k \in Seq(Text) /\ IsInjective(k)
        BY <3>2
      <4>2. Append(k, name) \in Seq(Text) /\ IsInjective(Append(k, name))
          /\ Len(Append(k, name)) = Len(k) + 1
          /\ \A j \in 1 .. Len(k) : Append(k, name)[j] = k[j]
        <5>1. name \in Text \ ToSet(k)
          BY <3>1
        <5> QED BY <4>1, <5>1, AppendNew
      <4> QED BY <3>1, <4>2
    <3>4. Len(k) \in Nat /\ Len(builtin) \in Nat
      BY <3>2, LenProperties DEF Names
    <3>5. /\ Len(builtin) <= Len(known[i])
          /\ \A j \in 1 .. Len(builtin) : known[i][j] = builtin[j]
      BY <3>2, <3>3, <3>4
    <3> QED BY <2>1, <3>3, <3>5 DEF Extends, Names
  <2>6. k \in Names
    BY <2>3 DEF k, Extends
  <2> QED BY <2>2, <2>4, <2>5, <2>6, <1>1, CandidateIsNew DEF k
<1>8. n \in P
  <2> HIDE DEF P
  <2>1. \A i \in 0 .. n : i \in P
    BY <1>1, <1>6, <1>7, IntervalInduction
  <2> QED BY <1>1, <2>1
<1> QED BY <1>2, <1>8

\* The first names are those of B.
Leads(s, B) == \A i, j \in 1 .. Len(s) : i < j /\ s[j] \in B => s[i] \in B

\* The part of a list that is loaded, of its first n names.
ChosenOf(s, names, n, B) ==
    /\ s \in Names /\ IsInjective(s) /\ Leads(s, B)
    /\ ToSet(s) \subseteq {names[j] : j \in 1 .. n}

LEMMA ChosenKeeps ==
  ASSUME NEW names \in Names, IsInjective(names), NEW wanted, NEW B, Leads(names, B)
  PROVE  IsInjective(Chosen(names, wanted)) /\ Leads(Chosen(names, wanted), B)
         /\ Chosen(names, wanted) \in Names
<1> DEFINE n == Len(names)
           With(s, i) == IF names[i] \in wanted THEN Append(s, names[i]) ELSE s
           Is(f) == f = [i \in 0 .. n |->
                            IF i = 0 THEN <<>>
                            ELSE IF names[i] \in wanted THEN Append(f[i - 1], names[i])
                                 ELSE f[i - 1]]
           loaded == CHOOSE f : Is(f)
           step == [x \in Names \X (1 .. n) |-> With(x[1], x[2])]
           P == {i \in 0 .. n : ChosenOf(loaded[i], names, i, B)}
<1>1. n \in Nat /\ DOMAIN names = 1 .. n /\ \A i \in 1 .. n : names[i] \in Text
  BY ElementOfSeq, LenProperties DEF Names
<1>2. Chosen(names, wanted) = loaded[n]
  BY DEF Chosen
<1> HIDE DEF n
<1>3. \A s \in Names, i \in 1 .. n : With(s, i) \in Names
  BY <1>1, AppendProperties DEF Names
<1>4. IsStep(step, Names, n)
  <2> HIDE DEF With
  <2> QED BY <1>3 DEF IsStep
<1>5. <<>> \in Names
  BY EmptySeq DEF Names
<1>6. \E f : Is(f)
  <2> HIDE DEF step, With
  <2>1. PICK f : Computes(f, Names, <<>>, step, n)
    BY <1>1, <1>4, <1>5, RecursionExists
  <2>2. ASSUME NEW i \in 1 .. n PROVE f[i] = With(f[i - 1], i)
    <3>1. f[i - 1] \in Names
      <4>1. i - 1 \in 0 .. n /\ f \in [0 .. n -> Names]
        BY <1>1, <2>1 DEF Computes
      <4> QED BY <4>1
    <3>2. <<f[i - 1], i>> \in Names \X (1 .. n)
      BY <3>1
    <3>3. step[<<f[i - 1], i>>] = With(f[i - 1], i)
      BY <3>2 DEF step
    <3> QED BY <2>1, <3>3 DEF Computes
  <2>3. \A i \in 0 .. n : f[i] = IF i = 0 THEN <<>> ELSE With(f[i - 1], i)
    <3>1. \A i \in 0 .. n : i = 0 \/ i \in 1 .. n
      BY <1>1
    <3> QED BY <2>1, <2>2, <3>1 DEF Computes
  <2>4. f = [i \in 0 .. n |-> IF i = 0 THEN <<>> ELSE With(f[i - 1], i)]
    <3>1. f = [i \in 0 .. n |-> f[i]]
      BY <2>1 DEF Computes
    <3> QED BY <2>3, <3>1
  <2>5. Is(f)
    BY <2>4 DEF With
  <2> QED BY <2>5
<1>7. Is(loaded)
  BY <1>6
<1>8. loaded[0] = <<>> /\ \A i \in 1 .. n : loaded[i] = With(loaded[i - 1], i)
  <2> HIDE DEF loaded
  <2>1. 0 \in 0 .. n /\ \A i \in 1 .. n : i \in 0 .. n /\ i # 0
    BY <1>1
  <2>2. loaded = [i \in 0 .. n |-> IF i = 0 THEN <<>> ELSE With(loaded[i - 1], i)]
    BY <1>7
  <2> HIDE DEF With
  <2> QED BY <2>1, <2>2
<1> HIDE DEF loaded, With
<1>9. 0 \in P
  <2>1. 0 \in 0 .. n
    BY <1>1
  <2>2. ChosenOf(<<>>, names, 0, B)
    BY <1>5 DEF ChosenOf, IsInjective, Leads, ToSet
  <2> QED BY <1>8, <2>1, <2>2
<1>10. ASSUME NEW i \in 1 .. n, i - 1 \in P PROVE i \in P
  <2> DEFINE s == loaded[i - 1]
  <2>1. /\ i \in 0 .. n /\ 1 .. i = (1 .. i - 1) \cup {i}
        /\ \A j \in 1 .. i - 1 : j \in 1 .. n /\ j < i
    BY <1>1
  <2>2. ChosenOf(s, names, i - 1, B) /\ loaded[i] = With(s, i)
    BY <1>8, <1>10
  <2> HIDE DEF s
  <2>3. CASE loaded[i] = s
    <3>1. {names[j] : j \in 1 .. i - 1} \subseteq {names[j] : j \in 1 .. i}
      BY <2>1
    <3>2. ChosenOf(s, names, i, B)
      BY <2>2, <3>1 DEF ChosenOf
    <3> QED BY <2>1, <2>3, <3>2
  <2>4. CASE loaded[i] = Append(s, names[i])
    <3> DEFINE t == Append(s, names[i])
    <3>1. /\ s \in Seq(Text) /\ IsInjective(s) /\ Leads(s, B)
          /\ ToSet(s) \subseteq {names[j] : j \in 1 .. i - 1}
      BY <2>2 DEF ChosenOf, Names
    <3>2. names[i] \in Text \ ToSet(s)
      <4>1. \A j \in 1 .. i - 1 : names[j] # names[i]
        BY <1>1, <2>1 DEF IsInjective
      <4> QED BY <1>1, <3>1, <4>1
    <3>3. /\ t \in Seq(Text) /\ IsInjective(t) /\ Len(t) = Len(s) + 1
          /\ t[Len(s) + 1] = names[i] /\ \A a \in 1 .. Len(s) : t[a] = s[a]
          /\ ToSet(t) = ToSet(s) \cup {names[i]}
      BY <3>1, <3>2, AppendNew
    <3> HIDE DEF t
    <3>4. Len(s) \in Nat /\ \A a \in 1 .. Len(s) : s[a] \in ToSet(s)
      BY <3>1, LenProperties DEF ToSet
    <3>5. ToSet(t) \subseteq {names[j] : j \in 1 .. i}
      BY <3>1, <3>3, <2>1
    <3>6. Leads(t, B)
      <4> SUFFICES ASSUME NEW a \in 1 .. Len(t), NEW b \in 1 .. Len(t), a < b, t[b] \in B
                   PROVE  t[a] \in B
        BY DEF Leads
      <4>1. a \in 1 .. Len(s) /\ t[a] = s[a]
        BY <3>3, <3>4
      <4>2. CASE b \in 1 .. Len(s)
        BY <4>1, <4>2, <3>1, <3>3 DEF Leads
      <4>3. CASE b = Len(s) + 1
        <5>1. names[i] \in B
          BY <4>3, <3>3
        <5>2. \A j \in 1 .. i - 1 : names[j] \in B
          BY <5>1, <1>1, <2>1 DEF Leads, n
        <5>3. PICK j \in 1 .. i - 1 : s[a] = names[j]
          BY <4>1, <3>1, <3>4
        <5> QED BY <4>1, <5>2, <5>3
      <4> QED BY <4>2, <4>3, <3>3, <3>4
    <3>7. ChosenOf(t, names, i, B)
      BY <3>3, <3>5, <3>6 DEF ChosenOf, Names
    <3> QED BY <2>1, <2>4, <3>7 DEF t
  <2> QED BY <2>2, <2>3, <2>4 DEF With
<1>11. n \in P
  <2> HIDE DEF P
  <2>1. \A i \in 0 .. n : i \in P
    BY <1>1, <1>9, <1>10, IntervalInduction
  <2> QED BY <1>1, <2>1
<1> QED BY <1>2, <1>11 DEF ChosenOf

\* What is loaded of the built-in and third-party names.
LEMMA LoadedKeeps ==
  ASSUME NEW builtin \in Names, IsInjective(builtin), NEW entries \in Seq(Entries), NEW enabled
  PROVE  /\ Loaded(builtin, entries, enabled) \in Names
         /\ IsInjective(Loaded(builtin, entries, enabled))
         /\ Leads(Loaded(builtin, entries, enabled), ToSet(builtin))
<1> DEFINE names == Candidates(builtin, entries)
           wanted == IF enabled = {} THEN Importable ELSE enabled \cap Importable
<1>1. Extends(names, builtin)
  BY CandidatesExtend
<1> HIDE DEF names, wanted
<1>2. /\ names \in Names /\ IsInjective(names) /\ DOMAIN names = 1 .. Len(names)
      /\ DOMAIN builtin = 1 .. Len(builtin) /\ Len(builtin) \in Nat /\ Len(names) \in Nat
      /\ Len(builtin) <= Len(names) /\ \A i \in 1 .. Len(builtin) : names[i] = builtin[i]
  BY <1>1, LenProperties DEF Extends, Names
<1>3. Leads(names, ToSet(builtin))
  <2> SUFFICES ASSUME NEW i \in 1 .. Len(names), NEW j \in 1 .. Len(names), i < j,
                      names[j] \in ToSet(builtin)
               PROVE  names[i] \in ToSet(builtin)
    BY DEF Leads
  <2>1. PICK m \in 1 .. Len(builtin) : names[j] = builtin[m]
    BY <1>2 DEF ToSet
  <2>2. m \in 1 .. Len(names) /\ names[m] = names[j]
    BY <1>2, <2>1
  <2>3. m = j
    BY <1>2, <2>2 DEF IsInjective
  <2>4. i \in 1 .. Len(builtin)
    BY <2>3, <1>2
  <2> QED BY <2>4, <1>2 DEF ToSet
<1>4. /\ Chosen(names, wanted) \in Names /\ IsInjective(Chosen(names, wanted))
      /\ Leads(Chosen(names, wanted), ToSet(builtin))
  BY <1>2, <1>3, ChosenKeeps
<1> QED BY <1>4 DEF Loaded, names, wanted

LEMMA LeadsWithin ==
  ASSUME NEW s \in Names, Leads(s, ToSet(BuiltIn))
  PROVE  \A i, j \in DOMAIN s : i < j /\ s[j] \in ToSet(BuiltIn) => s[i] \in ToSet(BuiltIn)
  BY LenProperties DEF Leads, Names

\* Whatever is installed and selected, load_plugins and load_cloud_plugins load no name
\* twice, and what bears a built-in decoder's name stands before every other plugin.
THEOREM BuiltinsLead == WindowSpec => []BuiltinsPrevail
<1>1. WindowInit => BuiltinsPrevail
  BY DEF WindowInit, BuiltinsPrevail, IsInjective
<1>2. BuiltinsPrevail /\ [WindowNext]_windowVars => BuiltinsPrevail'
  <2> SUFFICES ASSUME BuiltinsPrevail, [WindowNext]_windowVars PROVE BuiltinsPrevail'
    OBVIOUS
  <2>1. CASE StartWindow
    <3>1. PICK entries \in EntryPoints, cloudEntries \in CloudEntryPoints, enabled \in Enabled :
              /\ plugins' = Loaded(BuiltIn, entries, enabled)
              /\ providers' = Loaded(BuiltInCloud, cloudEntries, enabled)
      BY <2>1 DEF StartWindow
    <3>2. /\ BuiltIn \in Names /\ BuiltInCloud \in Names
          /\ IsInjective(BuiltIn) /\ IsInjective(BuiltInCloud)
          /\ entries \in Seq(Entries) /\ cloudEntries \in Seq(Entries)
      BY WindowAssumption DEF Names, Entries, Text
    <3>3. /\ plugins' \in Names /\ IsInjective(plugins') /\ Leads(plugins', ToSet(BuiltIn))
          /\ IsInjective(providers')
      BY <3>1, <3>2, LoadedKeeps
    <3> QED BY <3>3, LeadsWithin DEF BuiltinsPrevail
  <2>2. CASE ~StartWindow
    <3>1. UNCHANGED <<plugins, providers>>
      BY <2>2 DEF WindowNext, windowVars, FailWindow, Detect, StopScan, NextDevice, RunDecode,
                  Decoded, DecodedNothing, DecodeTimeout, Advance, LateReturn, DecodeDone,
                  PollStep, RunPoll, PollEnds, PollTimeout, Merge, Loop
    <3> QED BY <3>1 DEF BuiltinsPrevail
  <2> QED BY <2>1, <2>2
<1> QED BY <1>1, <1>2, PTL DEF WindowSpec
=============================================================================
