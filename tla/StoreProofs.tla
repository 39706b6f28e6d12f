----------------------------- MODULE StoreProofs -----------------------------
(***************************************************************************)
(* Theorems about the gateway's two databases, MQTTCache for every set of  *)
(* messages, sizes and limits and HistoryStore for every number of sensors,*)
(* any contents, retentions and backups.                                   *)
(*                                                                         *)
(* Much of both is computed by recursive functions (the byte count of a    *)
(* table, the rows of a query), so the proofs need induction.  It is       *)
(* obtained here, without an induction rule over operators, from the       *)
(* least-number principle: the finite initial segments of Nat are          *)
(* well-founded under strict inclusion.                                    *)
(***************************************************************************)
EXTENDS MQTTCache, HistoryStore, FiniteSetTheorems, SequenceTheorems,
        WellFoundedInduction, TLAPS

(***************************************************************************)
(* The least-number principle: a nonempty set of naturals has a minimum.   *)
(***************************************************************************)
LEMMA LeastNat ==
  ASSUME NEW T, T \subseteq Nat, T # {}
  PROVE  \E m \in T : \A k \in T : m <= k
<1> DEFINE Segments == {0 .. n : n \in T}
<1>1. Segments \subseteq FiniteSubsetsOf(Nat)
  <2> SUFFICES ASSUME NEW n \in T PROVE 0 .. n \in FiniteSubsetsOf(Nat)
    OBVIOUS
  <2>1. n \in Nat
    OBVIOUS
  <2>2. IsFiniteSet(0 .. n)
    BY <2>1, FS_Interval
  <2>3. 0 .. n \subseteq Nat
    BY <2>1
  <2> QED BY <2>2, <2>3 DEF FiniteSubsetsOf
<1>2. Segments # {}
  OBVIOUS
<1>3. PICK x \in Segments :
          \A y \in Segments : ~ (<<y, x>> \in StrictSubsetOrdering(Nat))
  <2> HIDE DEF Segments
  <2> QED BY <1>1, <1>2, FS_StrictSubsetOrderingWellFounded, WFMin
<1>4. PICK m \in T : x = 0 .. m
  BY <1>3
<1>5. SUFFICES ASSUME NEW k \in T, k < m PROVE FALSE
  OBVIOUS
<1>6. k \in Nat /\ m \in Nat
  OBVIOUS
<1>7. 0 .. k \subseteq 0 .. m /\ 0 .. k # 0 .. m
  <2>1. m \in 0 .. m /\ m \notin 0 .. k
    BY <1>5, <1>6
  <2> QED BY <2>1, <1>5, <1>6
<1>8. <<0 .. k, 0 .. m>> \in StrictSubsetOrdering(Nat)
  <2>1. 0 .. k \in SUBSET Nat /\ 0 .. m \in SUBSET Nat
    BY <1>6
  <2> QED BY <2>1, <1>7 DEF StrictSubsetOrdering
<1> QED BY <1>3, <1>4, <1>8

(***************************************************************************)
(* Induction over 0 .. n, with the predicate given as the set where it     *)
(* holds.                                                                  *)
(***************************************************************************)
LEMMA IntervalInduction ==
  ASSUME NEW n \in Nat, NEW P,
         0 \in P,
         \A i \in 1 .. n : i - 1 \in P => i \in P
  PROVE  \A i \in 0 .. n : i \in P
<1> DEFINE Bad == {i \in 0 .. n : i \notin P}
<1>1. SUFFICES ASSUME Bad # {} PROVE FALSE
  OBVIOUS
<1>2. Bad \subseteq Nat
  OBVIOUS
<1>3. PICK m \in Bad : \A k \in Bad : m <= k
  <2> HIDE DEF Bad
  <2> QED BY <1>1, <1>2, LeastNat
<1>4. m # 0 /\ m \in 1 .. n
  OBVIOUS
<1>5. m - 1 \notin Bad /\ m - 1 \in 0 .. n
  BY <1>3, <1>4
<1> QED BY <1>4, <1>5

-----------------------------------------------------------------------------
\* A row of a table and its fields have their types.
LEMMA RowFields ==
  ASSUME NEW s \in Seq(Row), NEW i \in 1 .. Len(s)
  PROVE  s[i] \in Row /\ s[i].id \in Nat /\ s[i].msg \in Messages
<1>1. s[i] \in Row
  OBVIOUS
<1> QED BY <1>1 DEF Row

(***************************************************************************)
(* The running totals of a table, and the byte count they define.          *)
(***************************************************************************)
IsTotal(f, s, n) ==
    f = [i \in 0 .. n |-> IF i = 0 THEN 0 ELSE f[i - 1] + Size[s[i].msg]]

Totals(s) == CHOOSE f : IsTotal(f, s, Len(s))

\* The recursion for the running total of the sizes defines a function.
LEMMA TotalExists ==
  ASSUME NEW s, NEW n \in Nat
  PROVE  \E f : IsTotal(f, s, n)
<1> DEFINE P == {k \in Nat : \E f : IsTotal(f, s, k)}
<1>1. 0 \in P
  <2> DEFINE f == [i \in 0 .. 0 |-> 0]
  <2>1. f = [i \in 0 .. 0 |-> IF i = 0 THEN 0 ELSE f[i - 1] + Size[s[i].msg]]
    OBVIOUS
  <2> QED BY <2>1 DEF IsTotal
<1>2. ASSUME NEW k \in 1 .. n, k - 1 \in P PROVE k \in P
  <2>1. PICK g : IsTotal(g, s, k - 1)
    BY <1>2
  <2> DEFINE f == [i \in 0 .. k |-> IF i = k THEN g[k - 1] + Size[s[k].msg]
                                            ELSE g[i]]
  <2>2. ASSUME NEW i \in 0 .. k
        PROVE  f[i] = IF i = 0 THEN 0 ELSE f[i - 1] + Size[s[i].msg]
    <3>1. CASE i = k
      BY <3>1
    <3>2. CASE i # k
      <4>1. i \in 0 .. k - 1 /\ (i # 0 => i - 1 \in 0 .. k - 1)
        BY <3>2
      <4>2. g[i] = IF i = 0 THEN 0 ELSE g[i - 1] + Size[s[i].msg]
        BY <2>1, <4>1 DEF IsTotal
      <4>3. f[i] = g[i] /\ (i # 0 => f[i - 1] = g[i - 1])
        BY <3>2, <4>1
      <4> QED BY <4>2, <4>3
    <3> QED BY <3>1, <3>2
  <2>3. IsTotal(f, s, k)
    <3>1. f = [i \in 0 .. k |-> f[i]]
      OBVIOUS
    <3> HIDE DEF f
    <3>2. [i \in 0 .. k |-> f[i]]
            = [i \in 0 .. k |-> IF i = 0 THEN 0 ELSE f[i - 1] + Size[s[i].msg]]
      BY <2>2
    <3> QED BY <3>1, <3>2 DEF IsTotal
  <2> QED BY <2>3
<1>3. n \in P
  <2> HIDE DEF P
  <2> QED BY <1>1, <1>2, IntervalInduction
<1> QED BY <1>3

\* That function starts at zero, adds one row's size at each row, ends in Used
\* and has natural numbers as values.
LEMMA TotalsProperties ==
  ASSUME NEW s \in Seq(Row)
  PROVE  /\ Used(s) = Totals(s)[Len(s)]
         /\ Totals(s)[0] = 0
         /\ \A i \in 1 .. Len(s) :
               Totals(s)[i] = Totals(s)[i - 1] + Size[s[i].msg]
         /\ \A i \in 0 .. Len(s) : Totals(s)[i] \in Nat
<1>1. Len(s) \in Nat
  OBVIOUS
<1>2. IsTotal(Totals(s), s, Len(s))
  BY <1>1, TotalExists DEF Totals
<1>3. Used(s) = Totals(s)[Len(s)]
  BY DEF Used, Totals, IsTotal
<1>4. Totals(s)[0] = 0
  BY <1>1, <1>2 DEF IsTotal
<1>5. ASSUME NEW i \in 1 .. Len(s)
      PROVE  Totals(s)[i] = Totals(s)[i - 1] + Size[s[i].msg]
  BY <1>1, <1>2 DEF IsTotal
<1>6. \A i \in 0 .. Len(s) : Totals(s)[i] \in Nat
  <2> DEFINE P == {i \in Nat : Totals(s)[i] \in Nat}
  <2>1. 0 \in P
    BY <1>4
  <2>2. ASSUME NEW i \in 1 .. Len(s), i - 1 \in P PROVE i \in P
    <3>1. s[i] \in Row
      OBVIOUS
    <3>2. Size[s[i].msg] \in Nat
      BY <3>1, CacheAssumption DEF Row
    <3> QED BY <1>5, <2>2, <3>2
  <2>3. \A i \in 0 .. Len(s) : i \in P
    <3> HIDE DEF P
    <3> QED BY <1>1, <2>1, <2>2, IntervalInduction
  <2> QED BY <2>3
<1> QED BY <1>3, <1>4, <1>5, <1>6

\* An empty table uses no bytes.
LEMMA UsedEmpty == Used(<<>>) = 0
<1>1. <<>> \in Seq(Row) /\ Len(<<>>) = 0
  OBVIOUS
<1> QED BY <1>1, TotalsProperties

\* Appending a row adds its size to the sum (the `used` of enqueue).
LEMMA UsedAppend ==
  ASSUME NEW s \in Seq(Row), NEW r \in Row
  PROVE  /\ Used(s) \in Nat
         /\ Used(Append(s, r)) = Used(s) + Size[r.msg]
<1> DEFINE t == Append(s, r)
           P == {i \in Nat : Totals(t)[i] = Totals(s)[i]}
<1>1. t \in Seq(Row) /\ Len(t) = Len(s) + 1 /\ Len(s) \in Nat
  OBVIOUS
<1>2. t[Len(t)] = r /\ \A i \in 1 .. Len(s) : t[i] = s[i]
  OBVIOUS
<1> HIDE DEF t
<1>3. 0 \in P
  BY <1>1, TotalsProperties
<1>4. ASSUME NEW i \in 1 .. Len(s), i - 1 \in P PROVE i \in P
  <2>1. Totals(s)[i] = Totals(s)[i - 1] + Size[s[i].msg]
    BY TotalsProperties
  <2>2. i \in 1 .. Len(t)
    BY <1>1
  <2>3. Totals(t)[i] = Totals(t)[i - 1] + Size[t[i].msg]
    BY <1>1, <2>2, TotalsProperties
  <2> QED BY <1>2, <1>4, <2>1, <2>3
<1>5. \A i \in 0 .. Len(s) : i \in P
  <2> HIDE DEF P
  <2> QED BY <1>1, <1>3, <1>4, IntervalInduction
<1>6. Totals(t)[Len(s)] = Totals(s)[Len(s)]
  BY <1>1, <1>5
<1>7. Used(s) = Totals(s)[Len(s)] /\ Used(s) \in Nat
  BY <1>1, TotalsProperties
<1>8. Totals(t)[Len(t)] = Totals(t)[Len(t) - 1] + Size[t[Len(t)].msg]
  <2>1. Len(t) \in 1 .. Len(t)
    BY <1>1
  <2> QED BY <1>1, <2>1, TotalsProperties
<1>9. Used(t) = Totals(t)[Len(t)]
  BY <1>1, TotalsProperties
<1> QED BY <1>1, <1>2, <1>6, <1>7, <1>8, <1>9 DEF t

-----------------------------------------------------------------------------
(***************************************************************************)
(* The operators of the operations.                                        *)
(***************************************************************************)
LEMMA WithoutOldestProperties ==
  ASSUME NEW s \in Seq(Row), NEW k \in 0 .. Len(s)
  PROVE  /\ WithoutOldest(s, k) \in Seq(Row)
         /\ Len(WithoutOldest(s, k)) = Len(s) - k
         /\ \A i \in 1 .. Len(s) - k : WithoutOldest(s, k)[i] = s[i + k]
<1>1. Len(s) \in Nat /\ k + 1 \in Int /\ \A i \in k + 1 .. Len(s) : s[i] \in Row
  OBVIOUS
<1>2. k + 1 <= Len(s) \/ k = Len(s)
  BY <1>1
<1> QED BY <1>1, <1>2, SubSeqProperties DEF WithoutOldest

\* Without its oldest Len(s) rows a table is empty.
LEMMA AllEvicted ==
  ASSUME NEW s \in Seq(Row)
  PROVE  WithoutOldest(s, Len(s)) = <<>>
<1>1. Len(s) \in 0 .. Len(s)
  OBVIOUS
<1>2. Len(WithoutOldest(s, Len(s))) = 0 /\ WithoutOldest(s, Len(s)) \in Seq(Row)
  BY <1>1, WithoutOldestProperties
<1> QED BY <1>2, EmptySeq

(***************************************************************************)
(* The eviction loop ends with room for what is to be inserted.            *)
(***************************************************************************)
LEMMA EvictionsMakeRoom ==
  ASSUME NEW s \in Seq(Row), NEW need \in Nat, NEW max \in Nat, need <= max,
         NEW k \in Evictions(s, need, max)
  PROVE  Used(WithoutOldest(s, k)) + need <= max
<1>1. CASE Fits(s, k, need, max)
  BY <1>1 DEF Fits
<1>2. CASE k = Len(s)
  BY <1>2, AllEvicted, UsedEmpty
<1> QED BY <1>1, <1>2 DEF Evictions

(***************************************************************************)
(* What restore_from keeps of a backup is again a sequence of messages.    *)
(***************************************************************************)
IsKept(f, source, max, n) ==
    f = [i \in 0 .. n |->
            IF i = 0 THEN <<>>
            ELSE IF Size[source[i]] <= max THEN Append(f[i - 1], source[i])
                                           ELSE f[i - 1]]

\* The recursion for the messages restore_from keeps defines a function.
LEMMA KeptExists ==
  ASSUME NEW source, NEW max, NEW n \in Nat
  PROVE  \E f : IsKept(f, source, max, n)
<1> DEFINE P == {k \in Nat : \E f : IsKept(f, source, max, k)}
<1>1. 0 \in P
  <2> DEFINE f == [i \in 0 .. 0 |-> <<>>]
  <2>1. IsKept(f, source, max, 0)
    BY DEF IsKept
  <2> QED BY <2>1
<1>2. ASSUME NEW k \in 1 .. n, k - 1 \in P PROVE k \in P
  <2>1. PICK g : IsKept(g, source, max, k - 1)
    BY <1>2
  <2> DEFINE step(h, i) == IF Size[source[i]] <= max
                           THEN Append(h[i - 1], source[i]) ELSE h[i - 1]
             f == [i \in 0 .. k |-> IF i = k THEN step(g, k) ELSE g[i]]
  <2>2. ASSUME NEW i \in 0 .. k
        PROVE  f[i] = IF i = 0 THEN <<>> ELSE step(f, i)
    <3>1. CASE i = k
      <4>1. k - 1 \in 0 .. k /\ k - 1 # k /\ k # 0
        OBVIOUS
      <4>2. f[k - 1] = g[k - 1]
        BY <4>1
      <4> QED BY <3>1, <4>1, <4>2
    <3>2. CASE i # k
      <4>1. i \in 0 .. k - 1 /\ (i # 0 => i - 1 \in 0 .. k /\ i - 1 # k)
        BY <3>2
      <4>2. g[i] = IF i = 0 THEN <<>> ELSE step(g, i)
        BY <2>1, <4>1 DEF IsKept
      <4>3. f[i] = g[i] /\ (i # 0 => f[i - 1] = g[i - 1])
        BY <3>2, <4>1
      <4> QED BY <4>2, <4>3
    <3> QED BY <3>1, <3>2
  <2>3. IsKept(f, source, max, k)
    <3>1. f = [i \in 0 .. k |-> f[i]]
      OBVIOUS
    <3> HIDE DEF f
    <3>2. [i \in 0 .. k |-> f[i]]
            = [i \in 0 .. k |-> IF i = 0 THEN <<>> ELSE step(f, i)]
      BY <2>2
    <3> QED BY <3>1, <3>2 DEF IsKept
  <2> QED BY <2>3
<1>3. n \in P
  <2> HIDE DEF P
  <2> QED BY <1>1, <1>2, IntervalInduction
<1> QED BY <1>3

\* What restore_from keeps of a backup is a sequence of messages.
LEMMA FittingType ==
  ASSUME NEW source \in Seq(Messages), NEW max
  PROVE  Fitting(source, max) \in Seq(Messages)
<1> DEFINE n == Len(source)
           kept == CHOOSE f : IsKept(f, source, max, n)
           P == {i \in Nat : kept[i] \in Seq(Messages)}
<1>1. n \in Nat
  OBVIOUS
<1>2. IsKept(kept, source, max, n)
  <2> HIDE DEF n
  <2> QED BY <1>1, KeptExists
<1>3. Fitting(source, max) = kept[n]
  BY DEF Fitting, IsKept
<1> HIDE DEF kept
<1>4. 0 \in P
  BY <1>1, <1>2 DEF IsKept
<1>5. ASSUME NEW i \in 1 .. n, i - 1 \in P PROVE i \in P
  <2>1. kept[i] = IF Size[source[i]] <= max THEN Append(kept[i - 1], source[i])
                                            ELSE kept[i - 1]
    <3>1. i \in 0 .. n /\ i # 0
      BY <1>1
    <3> QED BY <3>1, <1>2, Zenon DEF IsKept
  <2>2. source[i] \in Messages /\ kept[i - 1] \in Seq(Messages)
    BY <1>5
  <2>3. Append(kept[i - 1], source[i]) \in Seq(Messages)
    BY <2>2, AppendProperties
  <2>4. kept[i] \in Seq(Messages)
    BY <2>1, <2>2, <2>3, Zenon
  <2>5. i \in Nat
    BY <1>1
  <2> QED BY <2>4, <2>5
<1>6. n \in P
  <2> HIDE DEF P, n
  <2>1. \A i \in 0 .. n : i \in P
    BY <1>1, <1>4, <1>5, IntervalInduction
  <2> QED BY <1>1, <2>1
<1> QED BY <1>3, <1>6

\* Inserted rows have ids from `first` on, in the order of their messages.
LEMMA NumberedProperties ==
  ASSUME NEW msgs \in Seq(Messages), NEW first \in Nat
  PROVE  /\ Numbered(msgs, first) \in Seq(Row)
         /\ Len(Numbered(msgs, first)) = Len(msgs)
         /\ \A i \in 1 .. Len(msgs) : Numbered(msgs, first)[i].id = first + i - 1
<1>1. Len(msgs) \in Nat
  OBVIOUS
<1>2. ASSUME NEW i \in 1 .. Len(msgs)
      PROVE  [id |-> first + i - 1, msg |-> msgs[i]] \in Row
  <2>1. msgs[i] \in Messages /\ first + i - 1 \in Nat
    OBVIOUS
  <2> QED BY <2>1 DEF Row
<1> QED BY <1>1, <1>2 DEF Numbered

-----------------------------------------------------------------------------
(***************************************************************************)
(* A table whose rows are some of another's, in the same order, inherits   *)
(* its order and its row identities.                                       *)
(***************************************************************************)
IsSubTable(t, s) ==
    \E h \in [1 .. Len(t) -> 1 .. Len(s)] :
        /\ \A i, j \in 1 .. Len(t) : i < j => h[i] < h[j]
        /\ \A i \in 1 .. Len(t) : t[i] = s[h[i]]

Ordered(s, n) ==
    /\ \A i, j \in 1 .. Len(s) : i < j => s[i].id < s[j].id
    /\ \A i \in 1 .. Len(s) : s[i].id < n

\* Rows of an ordered table, in its order, are ordered.
LEMMA SubTableOrdered ==
  ASSUME NEW s, NEW t, NEW n, IsSubTable(t, s), Ordered(s, n)
  PROVE  Ordered(t, n)
<1>1. PICK h \in [1 .. Len(t) -> 1 .. Len(s)] :
         /\ \A i, j \in 1 .. Len(t) : i < j => h[i] < h[j]
         /\ \A i \in 1 .. Len(t) : t[i] = s[h[i]]
  BY DEF IsSubTable
<1>2. \A i \in 1 .. Len(t) : h[i] \in 1 .. Len(s)
  BY <1>1
<1> QED BY <1>1, <1>2 DEF Ordered

\* Every row that eviction leaves is a row of the table, in the same order.
LEMMA WithoutOldestIsSubTable ==
  ASSUME NEW s \in Seq(Row), NEW k \in 0 .. Len(s)
  PROVE  IsSubTable(WithoutOldest(s, k), s)
<1> DEFINE t == WithoutOldest(s, k)
           h == [i \in 1 .. Len(t) |-> i + k]
<1>1. Len(t) = Len(s) - k /\ Len(s) \in Nat /\ \A i \in 1 .. Len(t) : t[i] = s[i + k]
  BY WithoutOldestProperties
<1> HIDE DEF t
<1>2. h \in [1 .. Len(t) -> 1 .. Len(s)]
  BY <1>1
<1>3. /\ \A i, j \in 1 .. Len(t) : i < j => h[i] < h[j]
      /\ \A i \in 1 .. Len(t) : t[i] = s[h[i]]
  BY <1>1
<1> HIDE DEF h
<1>4. IsSubTable(t, s)
  BY <1>2, <1>3 DEF IsSubTable
<1> QED BY <1>4 DEF t

\* Removing one row leaves rows of the table, in the same order.
LEMMA RemovedProperties ==
  ASSUME NEW s \in Seq(Row), NEW k \in 1 .. Len(s)
  PROVE  LET t == SubSeq(s, 1, k - 1) \o SubSeq(s, k + 1, Len(s))
         IN  t \in Seq(Row) /\ IsSubTable(t, s)
<1> DEFINE a == SubSeq(s, 1, k - 1)
           b == SubSeq(s, k + 1, Len(s))
           t == a \o b
           h == [i \in 1 .. Len(t) |-> IF i < k THEN i ELSE i + 1]
<1>1. Len(s) \in Nat /\ k \in Nat /\ k >= 1 /\ k <= Len(s)
  OBVIOUS
<1>2. /\ a \in Seq(Row)
      /\ Len(a) = k - 1
      /\ \A i \in 1 .. k - 1 : a[i] = s[i]
  <2>1. \A i \in 1 .. k - 1 : s[i] \in Row
    BY <1>1
  <2>2. /\ a \in Seq(Row)
        /\ Len(a) = IF 1 <= k - 1 THEN k - 1 - 1 + 1 ELSE 0
        /\ \A i \in 1 .. k - 1 - 1 + 1 : a[i] = s[1 + i - 1]
    BY <1>1, <2>1, SubSeqProperties
  <2> QED BY <1>1, <2>2
<1>3. /\ b \in Seq(Row)
      /\ Len(b) = Len(s) - k
      /\ \A i \in 1 .. Len(s) - k : b[i] = s[k + i]
  <2>1. \A i \in k + 1 .. Len(s) : s[i] \in Row
    BY <1>1
  <2>2. /\ b \in Seq(Row)
        /\ Len(b) = IF k + 1 <= Len(s) THEN Len(s) - (k + 1) + 1 ELSE 0
        /\ \A i \in 1 .. Len(s) - (k + 1) + 1 : b[i] = s[k + 1 + i - 1]
    BY <1>1, <2>1, SubSeqProperties
  <2> QED BY <1>1, <2>2
<1> HIDE DEF a, b
<1>4. /\ t \in Seq(Row)
      /\ Len(t) = Len(a) + Len(b)
      /\ \A i \in 1 .. Len(a) + Len(b) :
            t[i] = IF i <= Len(a) THEN a[i] ELSE b[i - Len(a)]
  BY <1>2, <1>3, ConcatProperties
<1> HIDE DEF t
<1>5. Len(t) = Len(s) - 1
  BY <1>1, <1>2, <1>3, <1>4
<1>6. h \in [1 .. Len(t) -> 1 .. Len(s)]
  BY <1>1, <1>5
<1>7. \A i, j \in 1 .. Len(t) : i < j => h[i] < h[j]
  BY <1>1, <1>5
<1>8. ASSUME NEW i \in 1 .. Len(t) PROVE t[i] = s[h[i]]
  <2>1. CASE i < k
    BY <1>1, <1>2, <1>3, <1>4, <2>1
  <2>2. CASE i >= k
    <3>1. i - (k - 1) \in 1 .. Len(s) - k
      BY <1>1, <1>5, <2>2
    <3>2. t[i] = b[i - (k - 1)]
      BY <1>1, <1>2, <1>3, <1>4, <2>2
    <3>3. k + (i - (k - 1)) = i + 1
      BY <1>1
    <3> QED BY <1>1, <1>3, <2>2, <3>1, <3>2, <3>3
  <2> QED BY <1>1, <2>1, <2>2
<1> HIDE DEF h
<1>9. IsSubTable(t, s)
  BY <1>6, <1>7, <1>8 DEF IsSubTable
<1> QED BY <1>4, <1>9 DEF t, a, b
-----------------------------------------------------------------------------
(***************************************************************************)
(* The inductive invariant: a batch entry can only be trusted to name its  *)
(* row because the ids of the table and of the batch stay below a counter  *)
(* that never goes back.                                                   *)
(***************************************************************************)
\* A batch entry names its row or nothing: an id read with oldest() never comes
\* to mean another message, so flush_cache's delete(message.id) cannot remove a
\* message that was not sent, whatever was enqueued, evicted or restored since
\* (AUTOINCREMENT, mqtt_cache.py:39, 120-122).
BatchNamesItsRows ==
    \A i \in 1 .. Len(batch), j \in 1 .. Len(rows) :
        batch[i].id = rows[j].id => batch[i] = rows[j]

Inv == TypeOK /\ IdsOrdered /\ BatchNamesItsRows

\* The empty table satisfies the invariant.
LEMMA InitInv == Init => Inv
<1> SUFFICES ASSUME Init PROVE Inv
  OBVIOUS
<1>1. rows = <<>> /\ batch = <<>> /\ archive = <<>> /\ nextId = 1 /\ limit \in Limits
  BY DEF Init
<1>2. Len(rows) = 0 /\ Len(batch) = 0 /\ rows \in Seq(Row) /\ archive \in Seq(Messages)
  BY <1>1
<1> QED BY <1>1, <1>2 DEF Inv, TypeOK, IdsOrdered, BatchNamesItsRows

(***************************************************************************)
(* A step that only takes rows away keeps the invariant.                   *)
(***************************************************************************)
LEMMA FewerRows ==
  ASSUME Inv, rows' \in Seq(Row), IsSubTable(rows', rows),
         nextId' = nextId, limit' \in Limits, archive' \in Seq(Messages),
         batch' \in Seq(Row),
         \A i \in 1 .. Len(batch') : \E j \in 1 .. Len(batch) : batch'[i] = batch[j]
  PROVE  Inv'
<1>1. Ordered(rows', nextId')
  <2>1. Ordered(rows, nextId)
    BY DEF Inv, IdsOrdered, Ordered
  <2> QED BY <2>1, SubTableOrdered
<1>2. PICK h \in [1 .. Len(rows') -> 1 .. Len(rows)] :
         \A i \in 1 .. Len(rows') : rows'[i] = rows[h[i]]
  BY DEF IsSubTable
<1>3. \A i \in 1 .. Len(rows') : h[i] \in 1 .. Len(rows)
  BY <1>2
<1>4. BatchNamesItsRows'
  <2> SUFFICES ASSUME NEW i \in 1 .. Len(batch'), NEW j \in 1 .. Len(rows'),
                      batch'[i].id = rows'[j].id
               PROVE  batch'[i] = rows'[j]
    BY DEF BatchNamesItsRows
  <2>1. PICK b \in 1 .. Len(batch) : batch'[i] = batch[b]
    OBVIOUS
  <2>2. rows'[j] = rows[h[j]] /\ h[j] \in 1 .. Len(rows)
    BY <1>2, <1>3
  <2>3. batch[b].id = rows[h[j]].id
    BY <2>1, <2>2
  <2>4. batch[b] = rows[h[j]]
    BY <2>2, <2>3 DEF Inv, BatchNamesItsRows
  <2> QED BY <2>1, <2>2, <2>4
<1>5. \A i \in 1 .. Len(batch') : batch'[i].id < nextId'
  BY DEF Inv, IdsOrdered
<1>6. IdsOrdered'
  BY <1>1, <1>5 DEF IdsOrdered, Ordered
<1>7. TypeOK'
  BY DEF Inv, TypeOK
<1> QED BY <1>4, <1>6, <1>7 DEF Inv

(***************************************************************************)
(* A table of rows the batch knows by name or not at all, with all ids     *)
(* below the new counter, keeps the invariant.                             *)
(***************************************************************************)
LEMMA NewRows ==
  ASSUME Inv, rows' \in Seq(Row), nextId' \in Nat, nextId <= nextId',
         Ordered(rows', nextId'), UNCHANGED <<limit, batch, archive>>,
         \A i \in 1 .. Len(rows') :
            \/ rows'[i].id >= nextId
            \/ \E j \in 1 .. Len(rows) : rows'[i] = rows[j]
  PROVE  Inv'
<1>1. TypeOK'
  BY DEF Inv, TypeOK
<1>2. \A i \in 1 .. Len(batch) : batch[i] \in Row /\ batch[i].id \in Nat
  BY RowFields DEF Inv, TypeOK
<1>3. nextId \in Nat
  BY DEF Inv, TypeOK
<1>4. IdsOrdered'
  <2>1. \A i \in 1 .. Len(batch) : batch[i].id < nextId'
    BY <1>2, <1>3 DEF Inv, IdsOrdered
  <2> QED BY <2>1 DEF IdsOrdered, Ordered
<1>5. BatchNamesItsRows'
  <2> SUFFICES ASSUME NEW i \in 1 .. Len(batch), NEW j \in 1 .. Len(rows'),
                      batch[i].id = rows'[j].id
               PROVE  batch[i] = rows'[j]
    BY DEF BatchNamesItsRows
  <2>1. batch[i].id < nextId
    BY DEF Inv, IdsOrdered
  <2>2. ~ (rows'[j].id >= nextId)
    BY <1>2, <1>3, <2>1
  <2>3. PICK r \in 1 .. Len(rows) : rows'[j] = rows[r]
    BY <2>2
  <2> QED BY <2>3 DEF Inv, BatchNamesItsRows
<1> QED BY <1>1, <1>4, <1>5 DEF Inv

\* enqueue() preserves the invariant: the new id is above all others.
LEMMA EnqueueInv == ASSUME Inv, NEW m \in Messages, EnqueueStep(m) PROVE Inv'
<1>1. PICK k \in Evictions(rows, Size[m], limit) :
         rows' = Append(WithoutOldest(rows, k), [id |-> nextId, msg |-> m])
  BY DEF EnqueueStep, Enqueue
<1> DEFINE kept == WithoutOldest(rows, k)
           row == [id |-> nextId, msg |-> m]
<1>2. k \in 0 .. Len(rows) /\ rows \in Seq(Row) /\ nextId \in Nat
  BY DEF Evictions, Inv, TypeOK
<1>3. kept \in Seq(Row) /\ IsSubTable(kept, rows)
  BY <1>2, WithoutOldestProperties, WithoutOldestIsSubTable
<1>4. row \in Row /\ row.id = nextId
  BY <1>2 DEF Row
<1>5. nextId' = nextId + 1 /\ UNCHANGED <<limit, batch, archive>>
  BY DEF EnqueueStep, Enqueue
<1>6. Ordered(kept, nextId)
  <2>1. Ordered(rows, nextId)
    BY DEF Inv, IdsOrdered, Ordered
  <2> QED BY <1>3, <2>1, SubTableOrdered
<1>7. PICK h \in [1 .. Len(kept) -> 1 .. Len(rows)] :
         \A i \in 1 .. Len(kept) : kept[i] = rows[h[i]]
  BY <1>3 DEF IsSubTable
<1> HIDE DEF kept, row
<1>8. /\ rows' \in Seq(Row)
      /\ Len(rows') = Len(kept) + 1
      /\ \A i \in 1 .. Len(kept) : rows'[i] = kept[i]
      /\ rows'[Len(kept) + 1] = row
  BY <1>1, <1>3, <1>4, AppendProperties DEF kept, row
<1>9. Len(kept) \in Nat /\ \A i \in 1 .. Len(kept) : kept[i].id \in Nat
  BY <1>3, RowFields
<1>10. Ordered(rows', nextId')
  <2>1. ASSUME NEW i \in 1 .. Len(rows')
        PROVE  \/ i \in 1 .. Len(kept) /\ rows'[i] = kept[i]
               \/ i = Len(kept) + 1 /\ rows'[i] = row
    BY <1>8, <1>9
  <2>2. ASSUME NEW i \in 1 .. Len(rows') PROVE rows'[i].id < nextId'
    BY <1>2, <1>4, <1>5, <1>6, <1>9, <2>1 DEF Ordered
  <2>3. ASSUME NEW i \in 1 .. Len(rows'), NEW j \in 1 .. Len(rows'), i < j
        PROVE  rows'[i].id < rows'[j].id
    <3>1. i \in 1 .. Len(kept) /\ rows'[i] = kept[i]
      BY <1>8, <1>9, <2>1, <2>3
    <3>2. CASE j \in 1 .. Len(kept) /\ rows'[j] = kept[j]
      BY <1>6, <2>3, <3>1, <3>2 DEF Ordered
    <3>3. CASE j = Len(kept) + 1 /\ rows'[j] = row
      BY <1>4, <1>6, <3>1, <3>3 DEF Ordered
    <3> QED BY <2>1, <3>2, <3>3
  <2> QED BY <2>2, <2>3 DEF Ordered
<1>11. ASSUME NEW i \in 1 .. Len(rows')
       PROVE  rows'[i].id >= nextId \/ \E j \in 1 .. Len(rows) : rows'[i] = rows[j]
  <2>1. CASE i \in 1 .. Len(kept)
    BY <1>7, <1>8, <2>1
  <2>2. CASE i = Len(kept) + 1
    BY <1>2, <1>4, <1>8, <2>2
  <2> QED BY <1>8, <1>9, <2>1, <2>2
<1> QED BY <1>2, <1>5, <1>8, <1>10, <1>11, NewRows

\* restore_from() preserves the invariant: the ids go on where they were.
LEMMA RestoreInv ==
  ASSUME Inv, NEW source \in Archives \cup {archive}, RestoreFrom(source)
  PROVE  Inv'
<1> DEFINE kept == Fitting(source, limit)
           loaded == Numbered(kept, nextId)
<1>1. rows \in Seq(Row) /\ nextId \in Nat /\ limit \in Nat /\ source \in Seq(Messages)
  BY CacheAssumption DEF Inv, TypeOK
<1>2. kept \in Seq(Messages) /\ Len(kept) \in Nat
  BY <1>1, FittingType
<1>3. PICK k \in Evictions(loaded, 0, limit) : rows' = WithoutOldest(loaded, k)
  BY DEF RestoreFrom, Restore
<1>4. nextId' = nextId + Len(kept) /\ UNCHANGED <<limit, batch, archive>>
  BY DEF RestoreFrom, Restore
<1> HIDE DEF kept
<1>5. /\ loaded \in Seq(Row)
      /\ Len(loaded) = Len(kept)
      /\ \A i \in 1 .. Len(kept) : loaded[i].id = nextId + i - 1
  BY <1>1, <1>2, NumberedProperties
<1> HIDE DEF loaded
<1>6. k \in 0 .. Len(loaded)
  BY <1>3 DEF Evictions
<1>7. Ordered(loaded, nextId')
  BY <1>1, <1>2, <1>4, <1>5 DEF Ordered
<1>8. /\ rows' \in Seq(Row)
      /\ Len(rows') = Len(loaded) - k
      /\ \A i \in 1 .. Len(loaded) - k : rows'[i] = loaded[i + k]
  BY <1>3, <1>5, <1>6, WithoutOldestProperties
<1>9. Ordered(rows', nextId')
  <2>1. IsSubTable(rows', loaded)
    BY <1>3, <1>5, <1>6, WithoutOldestIsSubTable
  <2> QED BY <1>7, <2>1, SubTableOrdered
<1>10. ASSUME NEW i \in 1 .. Len(rows') PROVE rows'[i].id >= nextId
  <2>1. i + k \in 1 .. Len(kept) /\ i \in 1 .. Len(loaded) - k
    BY <1>2, <1>5, <1>6, <1>8
  <2>2. rows'[i].id = nextId + (i + k) - 1
    BY <1>5, <1>8, <2>1
  <2>3. (i + k) - 1 \in Nat
    BY <2>1
  <2> QED BY <1>1, <2>2, <2>3
<1>11. nextId' \in Nat /\ nextId <= nextId'
  BY <1>1, <1>2, <1>4
<1> QED BY <1>4, <1>8, <1>9, <1>10, <1>11, NewRows

\* delete() preserves the invariant.
LEMMA DeleteInv == ASSUME Inv, DeleteStep PROVE Inv'
<1>1. rows \in Seq(Row) /\ batch \in Seq(Row) /\ batch # <<>>
  BY DEF Inv, TypeOK, DeleteStep
<1>2. batch' = Tail(batch) /\ nextId' = nextId /\ limit' = limit /\ archive' = archive
  BY DEF DeleteStep, Delete
<1>3. /\ batch' \in Seq(Row)
      /\ Len(batch') = Len(batch) - 1
      /\ \A i \in 1 .. Len(batch') : batch'[i] = batch[i + 1]
  BY <1>1, <1>2, HeadTailProperties
<1>4. \A i \in 1 .. Len(batch') : \E j \in 1 .. Len(batch) : batch'[i] = batch[j]
  <2> SUFFICES ASSUME NEW i \in 1 .. Len(batch')
               PROVE  \E j \in 1 .. Len(batch) : batch'[i] = batch[j]
    OBVIOUS
  <2>1. Len(batch) \in Nat /\ i + 1 \in 1 .. Len(batch)
    BY <1>1, <1>3
  <2> QED BY <1>3, <2>1
<1>5. rows' \in Seq(Row) /\ IsSubTable(rows', rows)
  <2>1. CASE rows' = rows
    <3>1. Len(rows) \in 0 .. Len(rows) /\ 0 \in 0 .. Len(rows)
      BY <1>1
    <3>2. WithoutOldest(rows, 0) = rows
      BY <1>1, SubSeqFull DEF WithoutOldest
    <3> QED BY <1>1, <2>1, <3>1, <3>2, WithoutOldestIsSubTable
  <2>2. CASE \E i \in 1 .. Len(rows) :
                rows' = SubSeq(rows, 1, i - 1) \o SubSeq(rows, i + 1, Len(rows))
    BY <1>1, <2>2, RemovedProperties
  <2> QED BY <2>1, <2>2 DEF DeleteStep, Delete
<1>6. limit' \in Limits /\ archive' \in Seq(Messages)
  BY <1>2 DEF Inv, TypeOK
<1> QED BY <1>2, <1>3, <1>4, <1>5, <1>6, FewerRows

\* oldest() preserves the invariant: its rows are rows of the table.
LEMMA OldestInv == ASSUME Inv, OldestStep PROVE Inv'
<1> DEFINE n == IF BatchLimit < Len(rows) THEN BatchLimit ELSE Len(rows)
<1>1. rows \in Seq(Row) /\ Len(rows) \in Nat /\ n \in Nat /\ n <= Len(rows)
  BY CacheAssumption DEF Inv, TypeOK
<1>2. batch' = SubSeq(rows, 1, n) /\ UNCHANGED <<rows, nextId, limit, archive>>
  BY DEF OldestStep, Oldest
<1> HIDE DEF n
<1>3. /\ batch' \in Seq(Row)
      /\ Len(batch') = n
      /\ \A i \in 1 .. n : batch'[i] = rows[i]
  <2>1. \A i \in 1 .. n : rows[i] \in Row
    BY <1>1
  <2>2. /\ batch' \in Seq(Row)
        /\ Len(batch') = IF 1 <= n THEN n - 1 + 1 ELSE 0
        /\ \A i \in 1 .. n - 1 + 1 : batch'[i] = rows[1 + i - 1]
    BY <1>1, <1>2, <2>1, SubSeqProperties
  <2> QED BY <1>1, <2>2
<1>4. \A i \in 1 .. Len(batch') : i \in 1 .. Len(rows) /\ batch'[i] = rows[i]
  BY <1>1, <1>3
<1>5. IdsOrdered'
  BY <1>2, <1>4 DEF Inv, IdsOrdered
<1>6. BatchNamesItsRows'
  <2> SUFFICES ASSUME NEW i \in 1 .. Len(batch'), NEW j \in 1 .. Len(rows),
                      batch'[i].id = rows[j].id
               PROVE  batch'[i] = rows[j]
    BY <1>2 DEF BatchNamesItsRows
  <2>1. i \in 1 .. Len(rows) /\ batch'[i] = rows[i] /\ rows[i].id = rows[j].id
    BY <1>4
  <2>2. rows[i].id \in Nat /\ rows[j].id \in Nat
    BY <1>1, <2>1, RowFields
  <2>3. ~ (i < j) /\ ~ (j < i)
    BY <2>1, <2>2 DEF Inv, IdsOrdered
  <2>4. i = j
    BY <2>3
  <2> QED BY <2>1, <2>4
<1>7. TypeOK'
  BY <1>2, <1>3 DEF Inv, TypeOK
<1> QED BY <1>5, <1>6, <1>7 DEF Inv

\* A snapshot, a reopening and a stuttering step preserve the invariant.
LEMMA OtherInv ==
  ASSUME Inv, SnapshotTo \/ Reopen \/ UNCHANGED cacheVars
  PROVE  Inv'
<1>1. rows \in Seq(Row) /\ Len(rows) \in Nat
  BY DEF Inv, TypeOK
<1>2. IsSubTable(rows, rows)
  <2>1. 0 \in 0 .. Len(rows)
    BY <1>1
  <2>2. WithoutOldest(rows, 0) = rows
    BY <1>1, SubSeqFull DEF WithoutOldest
  <2> QED BY <1>1, <2>1, <2>2, WithoutOldestIsSubTable
<1>3. CASE SnapshotTo
  <2>1. Payloads(rows) \in Seq(Messages)
    <3>1. \A i \in 1 .. Len(rows) : rows[i].msg \in Messages
      BY <1>1, RowFields
    <3> QED BY <1>1, <3>1 DEF Payloads
  <2>2. /\ UNCHANGED <<rows, nextId, limit, batch>>
        /\ archive' \in Seq(Messages) /\ batch' \in Seq(Row) /\ limit' \in Limits
    BY <1>3, <2>1 DEF SnapshotTo, Inv, TypeOK
  <2> QED BY <1>1, <1>2, <2>2, FewerRows
<1>4. CASE Reopen
  <2>1. /\ UNCHANGED <<rows, nextId, archive>>
        /\ archive \in Seq(Messages) /\ batch' = <<>> /\ limit' \in Limits
    BY <1>4 DEF Reopen, Inv, TypeOK
  <2>2. batch' \in Seq(Row) /\ Len(batch') = 0
    BY <2>1
  <2> QED BY <1>1, <1>2, <2>1, <2>2, FewerRows
<1>5. CASE UNCHANGED cacheVars
  BY <1>5 DEF cacheVars, Inv, TypeOK, IdsOrdered, BatchNamesItsRows
<1> QED BY <1>3, <1>4, <1>5

\* Every step preserves the invariant.
LEMMA NextInv == Inv /\ [Next]_cacheVars => Inv'
<1> SUFFICES ASSUME Inv, [Next]_cacheVars PROVE Inv'
  OBVIOUS
<1>1. CASE \E m \in Messages : EnqueueStep(m)
  BY <1>1, EnqueueInv
<1>2. CASE OldestStep
  BY <1>2, OldestInv
<1>3. CASE DeleteStep
  BY <1>3, DeleteInv
<1>4. CASE \E source \in Archives \cup {archive} : RestoreFrom(source)
  BY <1>4, RestoreInv
<1>5. CASE SnapshotTo \/ Reopen \/ UNCHANGED cacheVars
  BY <1>5, OtherInv
<1> QED BY <1>1, <1>2, <1>3, <1>4, <1>5 DEF Next

(***************************************************************************)
(* The table and every batch are well-typed in every reachable state.      *)
(***************************************************************************)
THEOREM TypeCorrect == Spec => []TypeOK
<1>1. Inv => TypeOK
  BY DEF Inv
<1> QED BY <1>1, InitInv, NextInv, PTL DEF Spec

(***************************************************************************)
(* The spool is a FIFO by id, and an id held by a caller never names       *)
(* another message.                                                        *)
(***************************************************************************)
THEOREM FifoIdentity == Spec => [](IdsOrdered /\ BatchNamesItsRows)
<1>1. Inv => IdsOrdered /\ BatchNamesItsRows
  BY DEF Inv
<1> QED BY <1>1, InitInv, NextInv, PTL DEF Spec

(***************************************************************************)
(* No insertion leaves more bytes in the table than the running limit.     *)
(***************************************************************************)
LEMMA WithinLimitStep ==
  ASSUME Inv, Next, nextId' # nextId
  PROVE  Used(rows') <= limit
<1>1. rows \in Seq(Row) /\ nextId \in Nat /\ limit \in Nat
  BY CacheAssumption DEF Inv, TypeOK
<1>2. ASSUME NEW m \in Messages, EnqueueStep(m) PROVE Used(rows') <= limit
  <2>1. PICK k \in Evictions(rows, Size[m], limit) :
           rows' = Append(WithoutOldest(rows, k), [id |-> nextId, msg |-> m])
    BY <1>2 DEF EnqueueStep, Enqueue
  <2>2. k \in 0 .. Len(rows)
    BY DEF Evictions
  <2>3. Size[m] \in Nat /\ Size[m] <= limit
    BY <1>2, CacheAssumption DEF EnqueueStep, Enqueue
  <2>4. Used(WithoutOldest(rows, k)) + Size[m] <= limit
    BY <1>1, <2>1, <2>3, EvictionsMakeRoom
  <2>5. WithoutOldest(rows, k) \in Seq(Row)
    BY <1>1, <2>2, WithoutOldestProperties
  <2>6. [id |-> nextId, msg |-> m] \in Row
    BY <1>1 DEF Row
  <2>7. Used(rows') = Used(WithoutOldest(rows, k)) + Size[m]
    BY <2>1, <2>5, <2>6, UsedAppend
  <2> QED BY <2>4, <2>7
<1>3. ASSUME NEW source \in Archives \cup {archive}, RestoreFrom(source)
      PROVE  Used(rows') <= limit
  <2> DEFINE kept == Fitting(source, limit)
             loaded == Numbered(kept, nextId)
  <2>1. source \in Seq(Messages)
    BY CacheAssumption DEF Inv, TypeOK
  <2>2. loaded \in Seq(Row)
    BY <1>1, <2>1, FittingType, NumberedProperties
  <2>3. PICK k \in Evictions(loaded, 0, limit) : rows' = WithoutOldest(loaded, k)
    BY <1>3 DEF RestoreFrom, Restore
  <2> HIDE DEF loaded
  <2>4. k \in 0 .. Len(loaded)
    BY <2>3 DEF Evictions
  <2>5. Used(rows') + 0 <= limit
    BY <1>1, <2>2, <2>3, EvictionsMakeRoom
  <2>6. rows' \in Seq(Row)
    BY <2>2, <2>3, <2>4, WithoutOldestProperties
  <2>7. Used(rows') \in Nat
    <3>1. Len(rows') \in 0 .. Len(rows')
      BY <2>6
    <3> QED BY <2>6, <3>1, TotalsProperties
  <2> QED BY <2>5, <2>7
<1>4. ~ (OldestStep \/ DeleteStep \/ SnapshotTo \/ Reopen)
  BY DEF OldestStep, DeleteStep, Delete, SnapshotTo, Reopen
<1> QED BY <1>2, <1>3, <1>4 DEF Next

\* Every transaction that inserts, by enqueue() or restore_from(), leaves the
\* table within max_bytes (mqtt_cache.py:75-85, 153-160).
THEOREM WithinLimit == Spec => InsertsStayWithinLimit
<1>1. Inv /\ [Next]_cacheVars => [nextId' # nextId => Used(rows') <= limit]_cacheVars
  BY WithinLimitStep
<1> QED BY <1>1, InitInv, NextInv, PTL DEF Spec, InsertsStayWithinLimit

-----------------------------------------------------------------------------
\* The oldest row that is left counts with its size: the sum may be taken from the
\* front of the table as well, which is how the eviction loop takes it apart.
LEMMA UsedFront ==
  ASSUME NEW s \in Seq(Row), NEW k \in 1 .. Len(s)
  PROVE  Used(WithoutOldest(s, k - 1)) = Size[s[k].msg] + Used(WithoutOldest(s, k))
<1> DEFINE long == WithoutOldest(s, k - 1)
           short == WithoutOldest(s, k)
           P == {i \in Nat : Totals(long)[i + 1] = Size[s[k].msg] + Totals(short)[i]}
<1>1. Len(s) \in Nat /\ k - 1 \in 0 .. Len(s) /\ k \in 0 .. Len(s)
  OBVIOUS
<1>2. /\ long \in Seq(Row) /\ Len(long) = Len(s) - k + 1
      /\ \A i \in 1 .. Len(s) - k + 1 : long[i] = s[i + k - 1]
      /\ short \in Seq(Row) /\ Len(short) = Len(s) - k
      /\ \A i \in 1 .. Len(s) - k : short[i] = s[i + k]
  <2>1. /\ long \in Seq(Row) /\ Len(long) = Len(s) - (k - 1)
        /\ \A i \in 1 .. Len(s) - (k - 1) : long[i] = s[i + (k - 1)]
    BY <1>1, WithoutOldestProperties
  <2>2. /\ short \in Seq(Row) /\ Len(short) = Len(s) - k
        /\ \A i \in 1 .. Len(s) - k : short[i] = s[i + k]
    BY <1>1, WithoutOldestProperties
  <2> HIDE DEF long, short
  <2>3. /\ Len(s) - (k - 1) = Len(s) - k + 1
        /\ \A i \in Nat : i + (k - 1) = i + k - 1
    BY <1>1
  <2> QED BY <1>1, <2>1, <2>2, <2>3
<1> HIDE DEF long, short
<1>3. \A i \in 1 .. Len(s) - k : short[i] = long[i + 1]
  <2> SUFFICES ASSUME NEW i \in 1 .. Len(s) - k PROVE short[i] = long[i + 1]
    OBVIOUS
  <2>1. i + 1 \in 1 .. Len(s) - k + 1 /\ (i + 1) + k - 1 = i + k
    BY <1>1
  <2> QED BY <1>2, <2>1
<1>4. /\ Totals(long)[0] = 0 /\ Used(long) = Totals(long)[Len(long)]
      /\ \A i \in 1 .. Len(long) : Totals(long)[i] = Totals(long)[i - 1] + Size[long[i].msg]
      /\ Totals(short)[0] = 0 /\ Used(short) = Totals(short)[Len(short)]
      /\ \A i \in 1 .. Len(short) : Totals(short)[i] = Totals(short)[i - 1] + Size[short[i].msg]
      /\ \A i \in 0 .. Len(short) : Totals(short)[i] \in Nat
  BY <1>2, TotalsProperties
<1>5. \A i \in 1 .. Len(s) : s[i] \in Row /\ Size[s[i].msg] \in Nat
  <2> SUFFICES ASSUME NEW i \in 1 .. Len(s) PROVE s[i] \in Row /\ Size[s[i].msg] \in Nat
    OBVIOUS
  <2>1. s[i] \in Row /\ s[i].msg \in Messages
    BY RowFields
  <2> QED BY <2>1, CacheAssumption
<1>6. 0 \in P
  <2>1. 1 \in 1 .. Len(long) /\ long[1] = s[k]
    BY <1>1, <1>2
  <2>2. Totals(long)[1] = Totals(long)[1 - 1] + Size[s[k].msg]
    BY <1>4, <2>1
  <2> QED BY <1>1, <1>4, <1>5, <2>2
<1>7. ASSUME NEW i \in 1 .. Len(s) - k, i - 1 \in P PROVE i \in P
  <2>1. i \in 1 .. Len(short) /\ i + 1 \in 1 .. Len(long) /\ (i + 1) - 1 = i /\ (i - 1) + 1 = i
        /\ i - 1 \in 0 .. Len(short)
    <3>1. Len(s) \in Nat /\ k \in 1 .. Len(s) /\ Len(short) = Len(s) - k
          /\ Len(long) = Len(s) - k + 1
      BY <1>1, <1>2
    <3> QED BY <3>1
  <2>2. Totals(long)[i + 1] = Totals(long)[i] + Size[long[i + 1].msg]
    BY <1>4, <2>1
  <2>3. Totals(short)[i] = Totals(short)[i - 1] + Size[long[i + 1].msg]
    BY <1>3, <1>4, <2>1
  <2>4. Totals(long)[i] = Size[s[k].msg] + Totals(short)[i - 1]
    BY <1>7, <2>1
  <2>5. Size[long[i + 1].msg] \in Nat /\ Size[s[k].msg] \in Nat /\ Totals(short)[i - 1] \in Nat
    <3>1. i + k \in 1 .. Len(s) /\ short[i] = s[i + k]
      BY <1>1, <1>2
    <3> QED BY <1>3, <1>4, <1>5, <2>1, <3>1
  <2> QED BY <2>2, <2>3, <2>4, <2>5
<1>8. Len(s) - k \in P
  <2> HIDE DEF P
  <2>1. Len(s) - k \in Nat
    BY <1>1
  <2>2. \A i \in 0 .. Len(s) - k : i \in P
    BY <1>6, <1>7, <2>1, IntervalInduction
  <2> QED BY <2>1, <2>2
<1> QED BY <1>2, <1>4, <1>8 DEF long, short

\* enqueue() displaces from the front, and the youngest row it displaces did not fit.
LEMMA DisplacesStep ==
  ASSUME Inv, NEW m \in Messages, EnqueueStep(m)
  PROVE  \E k \in 0 .. Len(rows) :
            /\ SubSeq(rows', 1, Len(rows') - 1) = WithoutOldest(rows, k)
            /\ k > 0 => Used(rows') + Size[rows[k].msg] > limit
<1>1. PICK k \in Evictions(rows, Size[m], limit) :
         rows' = Append(WithoutOldest(rows, k), [id |-> nextId, msg |-> m])
  BY DEF EnqueueStep, Enqueue
<1>2. /\ rows \in Seq(Row) /\ nextId \in Nat /\ limit \in Nat /\ Size[m] \in Nat
      /\ k \in 0 .. Len(rows)
  BY CacheAssumption DEF Inv, TypeOK, Evictions
<1> DEFINE kept == WithoutOldest(rows, k)
           row == [id |-> nextId, msg |-> m]
<1>3. kept \in Seq(Row) /\ row \in Row
  BY <1>2, WithoutOldestProperties DEF Row
<1>4. rows' = Append(kept, row)
  BY <1>1
<1> HIDE DEF kept, row
<1>5. SubSeq(rows', 1, Len(rows') - 1) = kept
  <2>1. Len(rows') = Len(kept) + 1 /\ Len(kept) \in Nat
    BY <1>3, <1>4
  <2>2. SubSeq(Append(kept, row), 1, Len(kept)) = kept
    BY <1>3, AppendProperties
  <2> QED BY <1>4, <2>1, <2>2
<1>6. ASSUME k > 0 PROVE Used(rows') + Size[rows[k].msg] > limit
  <2>1. k \in 1 .. Len(rows) /\ k - 1 \in 0 .. k - 1
    BY <1>2, <1>6
  <2>2. ~(Used(WithoutOldest(rows, k - 1)) + Size[m] <= limit)
    BY <1>1, <2>1 DEF Evictions, Fits
  <2>3. Used(WithoutOldest(rows, k - 1)) = Size[rows[k].msg] + Used(kept)
    BY <1>2, <2>1, UsedFront DEF kept
  <2>4. Used(rows') = Used(kept) + Size[m] /\ Used(kept) \in Nat
    BY <1>3, <1>4, UsedAppend DEF row
  <2>5. Size[rows[k].msg] \in Nat
    <3>1. rows[k].msg \in Messages
      BY <1>2, <2>1, RowFields
    <3> QED BY <3>1, CacheAssumption
  <2> QED BY <1>2, <2>2, <2>3, <2>4, <2>5
<1> QED BY <1>2, <1>5, <1>6 DEF kept

\* A spool that is full gives up its oldest messages and no more of them than the new
\* one needs, whatever was deleted or restored before and whatever limit the rows were
\* written under (the eviction loop of enqueue, mqtt_cache.py:77-85).
THEOREM EvictsOldest == Spec => DisplacesOldestOnly
<1> DEFINE Displaced ==
        \A m \in Messages : EnqueueStep(m) =>
          \E k \in 0 .. Len(rows) :
             /\ SubSeq(rows', 1, Len(rows') - 1) = WithoutOldest(rows, k)
             /\ k > 0 => Used(rows') + Size[rows[k].msg] > limit
<1>1. Inv => Displaced
  BY DisplacesStep
<1>2. Inv /\ [Next]_cacheVars => [Displaced]_cacheVars
  BY <1>1
<1> QED BY <1>2, InitInv, NextInv, PTL DEF Spec, DisplacesOldestOnly

-----------------------------------------------------------------------------
(***************************************************************************)
(* The sample history: what its recursive functions compute.               *)
(***************************************************************************)

\* What a recursion computes step by step, over 1 .. n.
IsStep(step, S, n) == step \in [S \X (1 .. n) -> S]
Computes(f, S, c, step, n) ==
    /\ f \in [0 .. n -> S]
    /\ f[0] = c /\ \A i \in 1 .. n : f[i] = step[<<f[i - 1], i>>]

LEMMA RecursionExists ==
  ASSUME NEW S, NEW c \in S, NEW n \in Nat, NEW step, IsStep(step, S, n)
  PROVE  \E f : Computes(f, S, c, step, n)
<1> USE DEF IsStep
<1> DEFINE Is(f, k) == f[0] = c /\ \A i \in 1 .. k : f[i] = step[<<f[i - 1], i>>]
           P == {k \in 0 .. n : \E f \in [0 .. k -> S] : Is(f, k)}
<1>1. 0 \in P
  <2> DEFINE f == [i \in 0 .. 0 |-> c]
  <2>1. f[0] = c /\ f \in [0 .. 0 -> S] /\ 1 .. 0 = {}
    OBVIOUS
  <2>2. Is(f, 0)
    <3> HIDE DEF f
    <3> QED BY <2>1
  <2>3. 0 \in 0 .. n
    OBVIOUS
  <2> QED BY <2>1, <2>2, <2>3
<1>2. ASSUME NEW k \in 1 .. n, k - 1 \in P PROVE k \in P
  <2>1. PICK g \in [0 .. k - 1 -> S] : Is(g, k - 1)
    BY <1>2
  <2> DEFINE f == [i \in 0 .. k |-> IF i = k THEN step[<<g[k - 1], k>>] ELSE g[i]]
  <2>2. k - 1 \in 0 .. k - 1 /\ k \in 0 .. n /\ 0 \in 0 .. k /\ k # 0
    OBVIOUS
  <2>3. step[<<g[k - 1], k>>] \in S
    BY <2>2
  <2>4. f \in [0 .. k -> S]
    BY <2>3
  <2>5. f[0] = c
    BY <2>1, <2>2
  <2>6. ASSUME NEW i \in 1 .. k PROVE f[i] = step[<<f[i - 1], i>>]
    <3>1. i \in 0 .. k /\ i - 1 \in 0 .. k /\ i - 1 # k
      OBVIOUS
    <3>2. f[i - 1] = g[i - 1]
      BY <3>1
    <3>3. CASE i = k
      BY <3>1, <3>2, <3>3
    <3>4. CASE i # k
      <4>1. i \in 1 .. k - 1
        BY <3>4
      <4> QED BY <2>1, <3>1, <3>2, <3>4, <4>1
    <3> QED BY <3>3, <3>4
  <2> HIDE DEF f
  <2> QED BY <2>2, <2>4, <2>5, <2>6
<1>3. n \in P
  <2> HIDE DEF P
  <2>1. \A i \in 0 .. n : i \in P
    BY <1>1, <1>2, IntervalInduction
  <2> QED BY <2>1
<1> QED BY <1>3 DEF Computes

Tables == Seq(Sample)

LEMMA AppendRow ==
  ASSUME NEW table \in Tables, NEW r \in Sample
  PROVE  /\ Append(table, r) \in Tables /\ Append(table, r) # <<>>
         /\ Len(table) \in Nat /\ Len(Append(table, r)) = Len(table) + 1
         /\ Append(table, r)[Len(table) + 1] = r
         /\ \A i \in 1 .. Len(table) : Append(table, r)[i] = table[i]
         /\ Range(Append(table, r)) = Range(table) \cup {r}
<1> DEFINE t == Append(table, r)
<1>1. /\ t \in Tables /\ Len(t) = Len(table) + 1 /\ Len(table) \in Nat /\ t[Len(table) + 1] = r
      /\ \A i \in 1 .. Len(table) : t[i] = table[i]
      /\ DOMAIN t = 1 .. Len(t) /\ DOMAIN table = 1 .. Len(table) /\ t # <<>>
  BY AppendProperties, LenProperties DEF Tables
<1> HIDE DEF t
<1>2. 1 .. Len(t) = (1 .. Len(table)) \cup {Len(table) + 1}
  BY <1>1
<1>3. Range(t) = Range(table) \cup {r}
  <2>1. Range(t) = {t[i] : i \in 1 .. Len(table)} \cup {t[Len(table) + 1]}
    BY <1>1, <1>2 DEF Range
  <2>2. {t[i] : i \in 1 .. Len(table)} = {table[i] : i \in 1 .. Len(table)}
    BY <1>1
  <2> QED BY <2>1, <2>2, <1>1 DEF Range
<1> QED BY <1>1, <1>3 DEF t

\* A selection consists of the rows that are wanted.
LEMMA OnlyRows ==
  ASSUME NEW table \in Tables, NEW wanted
  PROVE  /\ Only(table, wanted) \in Tables
         /\ Range(Only(table, wanted)) = Range(table) \cap wanted
<1> DEFINE n == Len(table)
           With(s, i) == IF table[i] \in wanted THEN Append(s, table[i]) ELSE s
           Is(f) == f = [i \in 0 .. n |->
                            IF i = 0 THEN <<>>
                            ELSE IF table[i] \in wanted THEN Append(f[i - 1], table[i])
                                 ELSE f[i - 1]]
           kept == CHOOSE f : Is(f)
           step == [x \in Tables \X (1 .. n) |-> With(x[1], x[2])]
           First(k) == {table[j] : j \in 1 .. k}
           P == {i \in 0 .. n : kept[i] \in Tables /\ Range(kept[i]) = First(i) \cap wanted}
<1>1. n \in Nat /\ DOMAIN table = 1 .. n /\ \A i \in 1 .. n : table[i] \in Sample
  BY ElementOfSeq, LenProperties DEF Tables
<1>2. Only(table, wanted) = kept[n]
  BY DEF Only
<1> HIDE DEF n
<1>3. \A s \in Tables, i \in 1 .. n : With(s, i) \in Tables
  BY <1>1, AppendRow
<1>4. IsStep(step, Tables, n)
  <2> HIDE DEF With
  <2> QED BY <1>3 DEF IsStep
<1>5. <<>> \in Tables /\ Range(<<>>) = {}
  BY EmptySeq DEF Tables, Range
<1>6. \E f : Is(f)
  <2> HIDE DEF step, With
  <2>1. PICK f : Computes(f, Tables, <<>>, step, n)
    BY <1>1, <1>4, <1>5, RecursionExists
  <2>2. ASSUME NEW i \in 1 .. n PROVE f[i] = With(f[i - 1], i)
    <3>1. f[i - 1] \in Tables
      <4>1. i - 1 \in 0 .. n /\ f \in [0 .. n -> Tables]
        BY <1>1, <2>1 DEF Computes
      <4> QED BY <4>1
    <3>2. <<f[i - 1], i>> \in Tables \X (1 .. n)
      BY <3>1
    <3>3. step[<<f[i - 1], i>>] = With(f[i - 1], i)
      BY <3>2 DEF step
    <3> QED BY <2>1, <3>3 DEF Computes
  <2>3. \A i \in 0 .. n : f[i] = IF i = 0 THEN <<>> ELSE With(f[i - 1], i)
    <3>1. \A i \in 0 .. n : i = 0 \/ i \in 1 .. n
      BY <1>1
    <3> QED BY <2>1, <2>2, <3>1 DEF Computes
  <2>4. f = [i \in 0 .. n |-> IF i = 0 THEN <<>> ELSE With(f[i - 1], i)]
    <3>1. f = [i \in 0 .. n |-> f[i]]
      BY <2>1 DEF Computes
    <3> QED BY <2>3, <3>1
  <2>5. Is(f)
    BY <2>4 DEF With
  <2> QED BY <2>5
<1>7. Is(kept)
  BY <1>6
<1>8. kept[0] = <<>> /\ \A i \in 1 .. n : kept[i] = With(kept[i - 1], i)
  <2> HIDE DEF kept
  <2>1. 0 \in 0 .. n /\ \A i \in 1 .. n : i \in 0 .. n /\ i # 0
    BY <1>1
  <2>2. kept = [i \in 0 .. n |-> IF i = 0 THEN <<>> ELSE With(kept[i - 1], i)]
    BY <1>7
  <2> HIDE DEF With
  <2> QED BY <2>1, <2>2
<1> HIDE DEF kept
<1>9. 0 \in P
  <2>1. 0 \in 0 .. n /\ 1 .. 0 = {}
    BY <1>1
  <2> QED BY <1>5, <1>8, <2>1
<1>10. ASSUME NEW i \in 1 .. n, i - 1 \in P PROVE i \in P
  <2>1. /\ kept[i - 1] \in Tables /\ Range(kept[i - 1]) = First(i - 1) \cap wanted
        /\ i \in 0 .. n /\ table[i] \in Sample
    BY <1>1, <1>10
  <2>2. First(i) = First(i - 1) \cup {table[i]}
    <3>1. 1 .. i = (1 .. i - 1) \cup {i}
      BY <1>1
    <3> QED BY <3>1
  <2> HIDE DEF First
  <2>3. CASE table[i] \in wanted
    <3>1. kept[i] = Append(kept[i - 1], table[i])
      BY <1>8, <2>3
    <3>2. kept[i] \in Tables /\ Range(kept[i]) = Range(kept[i - 1]) \cup {table[i]}
      BY <2>1, <3>1, AppendRow
    <3> QED BY <2>1, <2>2, <2>3, <3>2
  <2>4. CASE table[i] \notin wanted
    <3>1. kept[i] = kept[i - 1]
      BY <1>8, <2>4
    <3> QED BY <2>1, <2>2, <2>4, <3>1
  <2> QED BY <2>3, <2>4
<1>11. n \in P
  <2> HIDE DEF P
  <2>1. \A i \in 0 .. n : i \in P
    BY <1>1, <1>9, <1>10, IntervalInduction
  <2> QED BY <1>1, <2>1
<1>12. First(n) = Range(table)
  BY <1>1 DEF Range
<1> QED BY <1>2, <1>11, <1>12

\* What a cycle inserts are samples.
LEMMA NewSamplesAreSamples ==
  ASSUME NEW devices \in Snapshots
  PROVE  NewSamples(devices) \in Tables
<1> DEFINE n == SensorCount
           Fresh(k) == [sensor |-> k, content |-> devices[k], age |-> 0]
           With(t, k) == IF k \in DOMAIN devices THEN Append(t, Fresh(k)) ELSE t
           Is(f) == f = [k \in 0 .. n |->
                            IF k = 0 THEN <<>>
                            ELSE IF k \in DOMAIN devices
                                 THEN Append(f[k - 1], [sensor |-> k, content |-> devices[k],
                                                        age |-> 0])
                                 ELSE f[k - 1]]
           inserted == CHOOSE f : Is(f)
           step == [x \in Tables \X (1 .. n) |-> With(x[1], x[2])]
<1>1. n \in Nat
  BY HistoryAssumption
<1>2. NewSamples(devices) = inserted[n]
  BY DEF NewSamples
<1>3. ASSUME NEW k \in 1 .. n, k \in DOMAIN devices PROVE Fresh(k) \in Sample
  <2>1. PICK sensors \in SUBSET Sensors : devices \in [sensors -> Contents]
    BY HistoryAssumption
  <2>2. devices[k] \in Contents /\ 0 \in 0 .. MaxAge /\ k \in Sensors
    BY <1>3, <2>1, HistoryAssumption DEF Sensors
  <2> QED BY <2>2 DEF Sample
<1> HIDE DEF n, Fresh
<1>4. \A t \in Tables, k \in 1 .. n : With(t, k) \in Tables
  BY <1>3, AppendRow
<1>5. IsStep(step, Tables, n)
  <2> HIDE DEF With
  <2> QED BY <1>4 DEF IsStep
<1>6. <<>> \in Tables
  BY EmptySeq DEF Tables
<1>7. PICK f : Computes(f, Tables, <<>>, step, n)
  <2> HIDE DEF step
  <2> QED BY <1>1, <1>5, <1>6, RecursionExists
<1>8. Is(f)
  <2> HIDE DEF step, With
  <2>1. \A k \in 0 .. n : k = 0 \/ (k \in 1 .. n /\ k - 1 \in 0 .. n)
    BY <1>1
  <2>2. ASSUME NEW k \in 1 .. n PROVE f[k] = With(f[k - 1], k)
    <3>1. <<f[k - 1], k>> \in Tables \X (1 .. n)
      <4>1. k - 1 \in 0 .. n /\ f \in [0 .. n -> Tables]
        BY <1>1, <1>7 DEF Computes
      <4> QED BY <4>1
    <3>2. step[<<f[k - 1], k>>] = With(f[k - 1], k)
      BY <3>1 DEF step
    <3> QED BY <1>7, <3>2 DEF Computes
  <2>3. f = [k \in 0 .. n |-> IF k = 0 THEN <<>> ELSE With(f[k - 1], k)]
    <3>1. f = [k \in 0 .. n |-> f[k]] /\ f[0] = <<>>
      BY <1>7 DEF Computes
    <3>2. \A k \in 0 .. n : f[k] = IF k = 0 THEN <<>> ELSE With(f[k - 1], k)
      BY <2>1, <2>2, <3>1
    <3> QED BY <3>1, <3>2
  <2> QED BY <2>3 DEF With, Fresh
<1>9. Is(inserted)
  BY <1>8
<1> DEFINE P == {k \in 0 .. n : inserted[k] \in Tables}
<1>10. 0 \in P
  <2>1. 0 \in 0 .. n
    BY <1>1
  <2> QED BY <1>6, <1>9, <2>1
<1>11. ASSUME NEW k \in 1 .. n, k - 1 \in P PROVE k \in P
  <2>1. k \in 0 .. n /\ k # 0
    BY <1>1
  <2>2. inserted[k] = With(inserted[k - 1], k)
    BY <1>9, <2>1 DEF Fresh
  <2> HIDE DEF With, inserted
  <2> QED BY <1>4, <1>11, <2>1, <2>2
<1>12. n \in P
  <2> HIDE DEF P
  <2>1. \A k \in 0 .. n : k \in P
    BY <1>1, <1>10, <1>11, IntervalInduction
  <2> QED BY <1>1, <2>1
<1> QED BY <1>2, <1>12

\* The table holds samples, whatever is inserted, purged, deleted or restored.
SamplesAreTyped == samples \in Tables

LEMMA OlderSamples ==
  ASSUME SamplesAreTyped, Tick
  PROVE  SamplesAreTyped'
<1> DEFINE Older(r) == [r EXCEPT !.age = IF @ < MaxAge THEN @ + 1 ELSE @]
<1>1. ASSUME NEW r \in Sample PROVE Older(r) \in Sample
  <2>1. /\ r.sensor \in Sensors /\ r.content \in Contents /\ r.age \in 0 .. MaxAge
        /\ r = [sensor |-> r.sensor, content |-> r.content, age |-> r.age]
    BY DEF Sample
  <2>2. (IF r.age < MaxAge THEN r.age + 1 ELSE r.age) \in 0 .. MaxAge
    BY <2>1, HistoryAssumption
  <2>3. Older(r) = [sensor |-> r.sensor, content |-> r.content,
                    age |-> IF r.age < MaxAge THEN r.age + 1 ELSE r.age]
    BY <2>1
  <2> QED BY <2>1, <2>2, <2>3 DEF Sample
<1>2. samples' = [i \in DOMAIN samples |-> Older(samples[i])]
  BY DEF Tick
<1>3. /\ DOMAIN samples = 1 .. Len(samples) /\ Len(samples) \in Nat
      /\ \A i \in 1 .. Len(samples) : samples[i] \in Sample
  BY ElementOfSeq, LenProperties DEF SamplesAreTyped, Tables
<1> HIDE DEF Older
<1>4. samples' \in [1 .. Len(samples) -> Sample]
  BY <1>1, <1>2, <1>3
<1> QED BY <1>3, <1>4, SeqDef DEF SamplesAreTyped, Tables

LEMMA SamplesStayTyped == HistorySpec => []SamplesAreTyped
<1>1. HistoryInit => SamplesAreTyped
  BY HistoryAssumption DEF HistoryInit, SamplesAreTyped, Tables
<1>2. SamplesAreTyped /\ [HistoryNext]_historyVars => SamplesAreTyped'
  <2> SUFFICES ASSUME SamplesAreTyped, [HistoryNext]_historyVars PROVE SamplesAreTyped'
    OBVIOUS
  <2>1. ASSUME NEW devices \in Snapshots, AppendSnapshot(devices) PROVE SamplesAreTyped'
    <3>1. samples' = samples \o NewSamples(devices)
      BY <2>1 DEF AppendSnapshot
    <3> QED BY <3>1, NewSamplesAreSamples, ConcatProperties DEF SamplesAreTyped, Tables
  <2>2. ASSUME NEW t, PurgeDelete(t) PROVE SamplesAreTyped'
    BY <2>2, OnlyRows DEF PurgeDelete, SamplesAreTyped
  <2>3. ASSUME NEW sensors, NEW start, NEW end, DeleteSamples(sensors, start, end)
        PROVE  SamplesAreTyped'
    BY <2>3, OnlyRows DEF DeleteSamples, Remaining, SamplesAreTyped
  <2>4. ASSUME NEW table \in Databases, RestoreSamples(table) PROVE SamplesAreTyped'
    BY <2>4, HistoryAssumption DEF RestoreSamples, SamplesAreTyped, Tables
  <2>5. ASSUME samples' = samples PROVE SamplesAreTyped'
    BY <2>5 DEF SamplesAreTyped
  <2>6. CASE Bridge
    <3>1. ASSUME PurgeExpired("bridge") PROVE samples' = samples
      BY <3>1 DEF PurgeExpired
    <3> QED BY <2>1, <2>2, <2>5, <2>6, <3>1, OlderSamples DEF Bridge
  <2>7. CASE Settings
    <3>1. ASSUME PurgeExpired("settings") PROVE samples' = samples
      BY <3>1 DEF PurgeExpired
    <3> QED BY <2>2, <2>5, <2>7, <3>1 DEF Settings
  <2>8. CASE SetRetentionDays \/ Restart \/ UNCHANGED historyVars
    BY <2>5, <2>8 DEF SetRetentionDays, Restart, historyVars
  <2> QED BY <2>3, <2>4, <2>6, <2>7, <2>8 DEF HistoryNext
<1> QED BY <1>1, <1>2, PTL DEF HistorySpec

\* Whatever is in the table, a deletion removes all that a query with its bounds shows and
\* nothing that a query of other sensors, or of the time before or after, shows (the WHERE
\* clauses of query and delete, history.py:158-206, 241-261).
THEOREM DeletionFitsQuery == HistorySpec => []DeleteMatchesQuery
<1>1. SamplesAreTyped => DeleteMatchesQuery
  <2> SUFFICES ASSUME SamplesAreTyped, NEW sensors \in SUBSET Sensors, NEW range \in Ranges
               PROVE  LET query(ids, start, end) == Range(Only(samples, Selected(ids, start, end)))
                          remaining == Range(Remaining(sensors, range[1], range[2]))
                      IN  /\ remaining \cap query(sensors, range[1], range[2]) = {}
                          /\ query(Sensors \ sensors, MaxAge, 0) \subseteq remaining
                          /\ query(Sensors, MaxAge, range[1] + 1) \subseteq remaining
                          /\ query(Sensors, range[2] - 1, 0) \subseteq remaining
    BY DEF DeleteMatchesQuery
  <2> DEFINE all == Range(samples)
             gone == Deleted(sensors, range[1], range[2])
  <2>1. \A wanted : Range(Only(samples, wanted)) = all \cap wanted
    BY OnlyRows DEF SamplesAreTyped
  <2>2. Range(Remaining(sensors, range[1], range[2])) = all \cap (Sample \ gone)
    BY <2>1 DEF Remaining
  <2>3. range[1] \in Int /\ range[2] \in Int /\ MaxAge \in Nat
    BY HistoryAssumption DEF Ranges
  <2>4. \A r \in Sample : r.sensor \in Sensors /\ r.age \in 0 .. MaxAge
    BY DEF Sample
  <2>5. Selected(sensors, range[1], range[2]) = gone
    BY DEF Selected, Deleted
  <2>6. Selected(Sensors \ sensors, MaxAge, 0) \subseteq Sample \ gone
    BY DEF Selected, Deleted
  <2>7. Selected(Sensors, MaxAge, range[1] + 1) \subseteq Sample \ gone
    BY <2>3, <2>4 DEF Selected, Deleted
  <2>8. Selected(Sensors, range[2] - 1, 0) \subseteq Sample \ gone
    BY <2>3, <2>4 DEF Selected, Deleted
  <2> HIDE DEF all, gone
  <2> QED BY <2>1, <2>2, <2>5, <2>6, <2>7, <2>8
<1> QED BY <1>1, SamplesStayTyped, PTL

-----------------------------------------------------------------------------
(***************************************************************************)
(* A page is sorted by sensor.                                             *)
(***************************************************************************)
Sorted(t) == \A i, j \in 1 .. Len(t) : i <= j => t[i].sensor <= t[j].sensor
Below(t, k) == \A i \in 1 .. Len(t) : t[i].sensor <= k

LEMMA SensorIsNat ==
  ASSUME NEW t \in Tables, NEW i \in 1 .. Len(t)
  PROVE  t[i] \in Sample /\ t[i].sensor \in Sensors /\ t[i].sensor \in Nat /\ t[i].content \in Contents
<1>1. t[i] \in Sample
  BY DEF Tables
<1> QED BY <1>1, HistoryAssumption DEF Sample, Sensors

\* The first rows of a table.
LEMMA TakeFirst ==
  ASSUME NEW t \in Tables, NEW n \in Nat
  PROVE  /\ Take(t, n) \in Tables /\ Len(Take(t, n)) <= Len(t)
         /\ \A i \in 1 .. Len(Take(t, n)) : Take(t, n)[i] = t[i]
<1>1. Len(t) \in Nat
  BY LenProperties DEF Tables
<1>2. CASE Len(t) <= n
  BY <1>1, <1>2 DEF Take
<1>3. CASE ~(Len(t) <= n)
  <2>1. /\ SubSeq(t, 1, n) \in Tables /\ Len(SubSeq(t, 1, n)) = n
        /\ \A i \in 1 .. n : SubSeq(t, 1, n)[i] = t[i]
    BY <1>1, <1>3 DEF Tables
  <2> QED BY <1>1, <1>3, <2>1 DEF Take
<1> QED BY <1>2, <1>3

LEMMA JoinedSorted ==
  ASSUME NEW a \in Tables, NEW b \in Tables, NEW k \in Nat,
         Sorted(a), Below(a, k), \A i \in 1 .. Len(b) : b[i].sensor = k + 1
  PROVE  a \o b \in Tables /\ Sorted(a \o b) /\ Below(a \o b, k + 1)
<1> DEFINE c == a \o b
<1>1. /\ c \in Tables /\ Len(c) = Len(a) + Len(b) /\ Len(a) \in Nat /\ Len(b) \in Nat
      /\ \A i \in 1 .. Len(a) + Len(b) : c[i] = IF i <= Len(a) THEN a[i] ELSE b[i - Len(a)]
  BY ConcatProperties, LenProperties DEF Tables
<1> HIDE DEF c
<1>2. \A i \in 1 .. Len(a) : c[i] = a[i] /\ c[i].sensor \in Nat /\ c[i].sensor <= k
  <2> SUFFICES ASSUME NEW i \in 1 .. Len(a)
               PROVE  c[i] = a[i] /\ c[i].sensor \in Nat /\ c[i].sensor <= k
    OBVIOUS
  <2>1. c[i] = a[i]
    BY <1>1
  <2> QED BY <2>1, SensorIsNat DEF Below
<1>3. \A i \in 1 .. Len(c) : i \notin 1 .. Len(a) => c[i].sensor = k + 1
  BY <1>1
<1>4. Below(c, k + 1)
  <2> SUFFICES ASSUME NEW i \in 1 .. Len(c) PROVE c[i].sensor <= k + 1
    BY DEF Below
  <2> QED BY <1>2, <1>3
<1>5. Sorted(c)
  <2> SUFFICES ASSUME NEW i \in 1 .. Len(c), NEW j \in 1 .. Len(c), i <= j
               PROVE  c[i].sensor <= c[j].sensor
    BY DEF Sorted
  <2>1. CASE j \in 1 .. Len(a)
    <3>1. i \in 1 .. Len(a)
      BY <1>1, <2>1
    <3> QED BY <1>2, <2>1, <3>1 DEF Sorted
  <2>2. CASE j \notin 1 .. Len(a)
    <3>1. c[j].sensor = k + 1
      BY <1>3, <2>2
    <3>2. CASE i \in 1 .. Len(a)
      BY <1>2, <3>1, <3>2
    <3>3. CASE i \notin 1 .. Len(a)
      BY <1>3, <3>1, <3>3
    <3> QED BY <3>2, <3>3
  <2> QED BY <2>1, <2>2
<1> QED BY <1>1, <1>4, <1>5 DEF c

LEMMA PageIsSorted ==
  ASSUME SamplesAreTyped, NEW sensors, NEW start, NEW end
  PROVE  Page(sensors, start, end) \in Tables /\ Sorted(Page(sensors, start, end))
<1> DEFINE n == SensorCount
           Of(k) == Take(Only(samples, Selected({k}, start, end)), QueryLimit)
           With(t, k) == IF k \in sensors THEN t \o Of(k) ELSE t
           Is(f) == f = [k \in 0 .. n |->
                            IF k = 0 THEN <<>>
                            ELSE IF k \in sensors
                                 THEN f[k - 1] \o Take(Only(samples, Selected({k}, start, end)),
                                                       QueryLimit)
                                 ELSE f[k - 1]]
           joined == CHOOSE f : Is(f)
           step == [x \in Tables \X (1 .. n) |-> With(x[1], x[2])]
           P == {k \in 0 .. n : joined[k] \in Tables /\ Sorted(joined[k]) /\ Below(joined[k], k)}
<1>1. n \in Nat
  BY HistoryAssumption
<1>2. Page(sensors, start, end) = Take(joined[n], QueryLimit)
  BY DEF Page
<1>3. ASSUME NEW k PROVE Of(k) \in Tables /\ \A i \in 1 .. Len(Of(k)) : Of(k)[i].sensor = k
  <2> DEFINE t == Only(samples, Selected({k}, start, end))
  <2>1. t \in Tables /\ Range(t) \subseteq Selected({k}, start, end)
    BY OnlyRows DEF SamplesAreTyped
  <2> HIDE DEF t
  <2>2. /\ Take(t, QueryLimit) \in Tables /\ Len(Take(t, QueryLimit)) <= Len(t)
        /\ \A i \in 1 .. Len(Take(t, QueryLimit)) : Take(t, QueryLimit)[i] = t[i]
        /\ Len(t) \in Nat /\ Len(Take(t, QueryLimit)) \in Nat /\ DOMAIN t = 1 .. Len(t)
    BY <2>1, TakeFirst, LenProperties, HistoryAssumption DEF Tables
  <2>3. \A i \in 1 .. Len(t) : t[i].sensor = k
    BY <2>1, <2>2 DEF Range, Selected
  <2>4. Of(k) = Take(t, QueryLimit)
    BY DEF t
  <2> HIDE DEF Of
  <2> QED BY <2>2, <2>3, <2>4
<1> HIDE DEF n, Of
<1>4. \A t \in Tables, k \in 1 .. n : With(t, k) \in Tables
  BY <1>3, ConcatProperties DEF Tables
<1>5. IsStep(step, Tables, n)
  <2> HIDE DEF With
  <2> QED BY <1>4 DEF IsStep
<1>6. <<>> \in Tables
  BY EmptySeq DEF Tables
<1>7. PICK f : Computes(f, Tables, <<>>, step, n)
  <2> HIDE DEF step
  <2> QED BY <1>1, <1>5, <1>6, RecursionExists
<1>8. Is(f)
  <2> HIDE DEF step, With
  <2>1. \A k \in 0 .. n : k = 0 \/ (k \in 1 .. n /\ k - 1 \in 0 .. n)
    BY <1>1
  <2>2. ASSUME NEW k \in 1 .. n PROVE f[k] = With(f[k - 1], k)
    <3>1. <<f[k - 1], k>> \in Tables \X (1 .. n)
      <4>1. k - 1 \in 0 .. n /\ f \in [0 .. n -> Tables]
        BY <1>1, <1>7 DEF Computes
      <4> QED BY <4>1
    <3>2. step[<<f[k - 1], k>>] = With(f[k - 1], k)
      BY <3>1 DEF step
    <3> QED BY <1>7, <3>2 DEF Computes
  <2>3. f = [k \in 0 .. n |-> IF k = 0 THEN <<>> ELSE With(f[k - 1], k)]
    <3>1. f = [k \in 0 .. n |-> f[k]] /\ f[0] = <<>>
      BY <1>7 DEF Computes
    <3>2. \A k \in 0 .. n : f[k] = IF k = 0 THEN <<>> ELSE With(f[k - 1], k)
      BY <2>1, <2>2, <3>1
    <3> QED BY <3>1, <3>2
  <2> QED BY <2>3 DEF With, Of
<1>9. Is(joined)
  BY <1>8
<1>10. 0 \in P
  <2>1. 0 \in 0 .. n /\ joined[0] = <<>>
    <3> HIDE DEF joined
    <3>1. 0 \in 0 .. n
      BY <1>1
    <3> QED BY <1>9, <3>1
  <2>2. Sorted(<<>>) /\ Below(<<>>, 0)
    BY DEF Sorted, Below
  <2> HIDE DEF joined
  <2> QED BY <1>6, <2>1, <2>2
<1>11. ASSUME NEW k \in 1 .. n, k - 1 \in P PROVE k \in P
  <2>1. k \in 0 .. n /\ k # 0 /\ k - 1 \in Nat /\ (k - 1) + 1 = k
    BY <1>1
  <2>2. joined[k] = With(joined[k - 1], k)
    BY <1>9, <2>1 DEF Of
  <2> DEFINE t == joined[k - 1]
  <2>3. t \in Tables /\ Sorted(t) /\ Below(t, k - 1)
    BY <1>11
  <2> HIDE DEF t, joined
  <2>4. CASE k \in sensors
    <3>1. joined[k] = t \o Of(k)
      BY <2>2, <2>4 DEF t
    <3>2. Of(k) \in Tables /\ \A i \in 1 .. Len(Of(k)) : Of(k)[i].sensor = (k - 1) + 1
      BY <1>3, <2>1
    <3>3. joined[k] \in Tables /\ Sorted(joined[k]) /\ Below(joined[k], (k - 1) + 1)
      BY <2>1, <2>3, <3>1, <3>2, JoinedSorted
    <3> QED BY <2>1, <3>3
  <2>5. CASE k \notin sensors
    <3>1. joined[k] = t
      BY <2>2, <2>5 DEF t
    <3>2. \A i \in 1 .. Len(t) : t[i].sensor \in Nat
      BY <2>3, SensorIsNat
    <3>3. Below(t, k)
      BY <2>1, <2>3, <3>2 DEF Below
    <3> QED BY <2>1, <2>3, <3>1, <3>3
  <2> QED BY <2>4, <2>5
<1>12. joined[n] \in Tables /\ Sorted(joined[n])
  <2> HIDE DEF P
  <2>1. \A k \in 0 .. n : k \in P
    BY <1>1, <1>10, <1>11, IntervalInduction
  <2>2. n \in P
    BY <1>1, <2>1
  <2> QED BY <2>2 DEF P
<1> HIDE DEF joined
<1> DEFINE page == Take(joined[n], QueryLimit)
<1>13. /\ page \in Tables /\ Len(page) <= Len(joined[n])
       /\ \A i \in 1 .. Len(page) : page[i] = joined[n][i]
       /\ Len(page) \in Nat /\ Len(joined[n]) \in Nat
  BY <1>12, TakeFirst, LenProperties, HistoryAssumption DEF Tables
<1> HIDE DEF page
<1>14. Sorted(page)
  BY <1>12, <1>13 DEF Sorted
<1> QED BY <1>2, <1>13, <1>14 DEF page

-----------------------------------------------------------------------------
(***************************************************************************)
(* The suppression of repeats, row by row.                                 *)
(***************************************************************************)
States == [result : Tables, previous : [Sensors -> Contents \cup {None}]]

\* What has been shown after each row of a table.
Progress(t) ==
    CHOOSE f : f = [i \in 0 .. Len(t) |-> IF i = 0 THEN NothingShown ELSE Shown(f[i - 1], t[i])]

LEMMA NothingIsState == NothingShown \in States
<1>1. <<>> \in Tables
  BY EmptySeq DEF Tables
<1> QED BY <1>1 DEF NothingShown, States

LEMMA ShownIsState ==
  ASSUME NEW shown \in States, NEW r \in Sample
  PROVE  Shown(shown, r) \in States
<1>1. /\ shown.result \in Tables /\ shown.previous \in [Sensors -> Contents \cup {None}]
      /\ r.content \in Contents
  BY DEF States, Sample
<1>2. Append(shown.result, r) \in Tables
  BY <1>1, AppendRow
<1>3. [shown.previous EXCEPT ![r.sensor] = r.content] \in [Sensors -> Contents \cup {None}]
  BY <1>1
<1> QED BY <1>2, <1>3 DEF Shown, States

LEMMA ProgressSteps ==
  ASSUME NEW t \in Tables
  PROVE  /\ Deduplicated(t) = Progress(t)[Len(t)].result
         /\ Progress(t)[0] = NothingShown
         /\ \A i \in 1 .. Len(t) : Progress(t)[i] = Shown(Progress(t)[i - 1], t[i])
         /\ \A i \in 0 .. Len(t) : Progress(t)[i] \in States
<1> DEFINE n == Len(t)
           Is(f) == f = [i \in 0 .. n |->
                            IF i = 0 THEN NothingShown ELSE Shown(f[i - 1], t[i])]
           step == [x \in States \X (1 .. n) |-> Shown(x[1], t[x[2]])]
           P == {i \in 0 .. n : Progress(t)[i] \in States}
<1>1. n \in Nat /\ \A i \in 1 .. n : t[i] \in Sample
  BY ElementOfSeq, LenProperties DEF Tables
<1>2. Deduplicated(t) = Progress(t)[n].result
  BY DEF Deduplicated, Progress
<1>3. Progress(t) = CHOOSE f : Is(f)
  BY DEF Progress
<1> HIDE DEF n
<1>4. IsStep(step, States, n)
  BY <1>1, ShownIsState DEF IsStep
<1>5. PICK f : Computes(f, States, NothingShown, step, n)
  <2> HIDE DEF step
  <2> QED BY <1>1, <1>4, NothingIsState, RecursionExists
<1>6. Is(f)
  <2> HIDE DEF step
  <2>1. \A i \in 0 .. n : i = 0 \/ (i \in 1 .. n /\ i - 1 \in 0 .. n)
    BY <1>1
  <2>2. ASSUME NEW i \in 1 .. n PROVE f[i] = Shown(f[i - 1], t[i])
    <3>1. <<f[i - 1], i>> \in States \X (1 .. n)
      <4>1. i - 1 \in 0 .. n /\ f \in [0 .. n -> States]
        BY <1>1, <1>5 DEF Computes
      <4> QED BY <4>1
    <3>2. step[<<f[i - 1], i>>] = Shown(f[i - 1], t[i])
      BY <3>1 DEF step
    <3> QED BY <1>5, <3>2 DEF Computes
  <2>3. f = [i \in 0 .. n |-> f[i]] /\ f[0] = NothingShown
    BY <1>5 DEF Computes
  <2>4. \A i \in 0 .. n : f[i] = IF i = 0 THEN NothingShown ELSE Shown(f[i - 1], t[i])
    BY <2>1, <2>2, <2>3
  <2> QED BY <2>3, <2>4
<1>7. Is(Progress(t))
  <2>1. Is(CHOOSE g : Is(g))
    BY <1>6
  <2> HIDE DEF Is
  <2> QED BY <1>3, <2>1
<1>8. /\ Progress(t)[0] = NothingShown
      /\ \A i \in 1 .. n : Progress(t)[i] = Shown(Progress(t)[i - 1], t[i])
  <2>1. 0 \in 0 .. n /\ \A i \in 1 .. n : i \in 0 .. n /\ i # 0
    BY <1>1
  <2> QED BY <1>7, <2>1
<1>9. 0 \in P
  BY <1>1, <1>8, NothingIsState
<1>10. ASSUME NEW i \in 1 .. n, i - 1 \in P PROVE i \in P
  <2>1. i \in 0 .. n /\ t[i] \in Sample /\ Progress(t)[i - 1] \in States
    BY <1>1, <1>10
  <2> QED BY <1>8, <2>1, ShownIsState
<1>11. \A i \in 0 .. n : i \in P
  <2> HIDE DEF P
  <2> QED BY <1>1, <1>9, <1>10, IntervalInduction
<1> QED BY <1>2, <1>8, <1>11 DEF n

\* Row by row: the result for the first rows is what has been shown after them.
LEMMA ProgressOfFirst ==
  ASSUME NEW t \in Tables, NEW n \in 0 .. Len(t)
  PROVE  Deduplicated(SubSeq(t, 1, n)) = Progress(t)[n].result
<1> DEFINE first == SubSeq(t, 1, n)
           P == {i \in 0 .. n : Progress(first)[i] = Progress(t)[i]}
<1>1. /\ Len(t) \in Nat /\ n \in Nat /\ first \in Tables /\ Len(first) = n
      /\ \A i \in 1 .. n : first[i] = t[i]
  BY LenProperties DEF Tables
<1> HIDE DEF first
<1>2. /\ Progress(t)[0] = NothingShown /\ Progress(first)[0] = NothingShown
      /\ \A i \in 1 .. Len(t) : Progress(t)[i] = Shown(Progress(t)[i - 1], t[i])
      /\ \A i \in 1 .. n : Progress(first)[i] = Shown(Progress(first)[i - 1], first[i])
      /\ Deduplicated(first) = Progress(first)[n].result
  BY <1>1, ProgressSteps
<1>3. 0 \in P
  BY <1>1, <1>2
<1>4. ASSUME NEW i \in 1 .. n, i - 1 \in P PROVE i \in P
  <2>1. i \in 0 .. n /\ i \in 1 .. Len(t) /\ first[i] = t[i]
        /\ Progress(first)[i - 1] = Progress(t)[i - 1]
    BY <1>1, <1>4
  <2> QED BY <1>2, <2>1
<1>5. n \in P
  <2> HIDE DEF P
  <2>1. \A i \in 0 .. n : i \in P
    BY <1>1, <1>3, <1>4, IntervalInduction
  <2> QED BY <1>1, <2>1
<1> QED BY <1>2, <1>5 DEF first

\* What has been shown stays at the head of the result.
Heads(s, t) == Len(s) <= Len(t) /\ \A i \in 1 .. Len(s) : s[i] = t[i]

LEMMA HeadsIsPrefix ==
  ASSUME NEW s \in Tables, NEW t \in Tables, Heads(s, t)
  PROVE  IsPrefix(s, t)
<1>1. Len(s) \in Nat /\ Len(t) \in Nat /\ Len(s) <= Len(t)
  BY LenProperties DEF Tables, Heads
<1>2. /\ SubSeq(s, 1, Len(s)) \in Tables /\ Len(SubSeq(s, 1, Len(s))) = Len(s)
      /\ \A i \in 1 .. Len(s) : SubSeq(s, 1, Len(s))[i] = s[i]
  BY <1>1 DEF Tables
<1>3. /\ SubSeq(t, 1, Len(s)) \in Tables /\ Len(SubSeq(t, 1, Len(s))) = Len(s)
      /\ \A i \in 1 .. Len(s) : SubSeq(t, 1, Len(s))[i] = t[i]
  BY <1>1 DEF Tables
<1>4. SubSeq(s, 1, Len(s)) = SubSeq(t, 1, Len(s))
  <2> DEFINE a == SubSeq(s, 1, Len(s))
             b == SubSeq(t, 1, Len(s))
  <2>1. a \in Tables /\ b \in Tables /\ Len(a) = Len(b) /\ \A i \in 1 .. Len(a) : a[i] = b[i]
    BY <1>2, <1>3 DEF Heads
  <2> HIDE DEF a, b
  <2>2. a = b
    BY <2>1, SeqEqual DEF Tables
  <2> QED BY <2>2 DEF a, b
<1> QED BY <1>1, <1>4 DEF IsPrefix

LEMMA ResultGrows ==
  ASSUME NEW t \in Tables, NEW n \in 0 .. Len(t)
  PROVE  Heads(Progress(t)[n].result, Progress(t)[Len(t)].result)
<1> DEFINE shown(i) == Progress(t)[i].result
           P == {i \in 0 .. Len(t) : n <= i => Heads(shown(n), shown(i))}
<1>1. /\ Len(t) \in Nat /\ n \in Nat
      /\ \A i \in 1 .. Len(t) : Progress(t)[i] = Shown(Progress(t)[i - 1], t[i])
      /\ \A i \in 0 .. Len(t) : Progress(t)[i] \in States
      /\ \A i \in 1 .. Len(t) : t[i] \in Sample
  BY ProgressSteps, LenProperties, ElementOfSeq DEF Tables
<1>2. \A i \in 0 .. Len(t) : shown(i) \in Tables /\ Len(shown(i)) \in Nat
  BY <1>1, LenProperties DEF States, Tables
<1>3. Heads(shown(n), shown(n))
  BY <1>2 DEF Heads
<1>4. 0 \in P
  <2>1. n <= 0 => n = 0
    BY <1>1
  <2> HIDE DEF shown
  <2> QED BY <1>1, <1>3, <2>1
<1>5. ASSUME NEW i \in 1 .. Len(t), i - 1 \in P PROVE i \in P
  <2>1. i \in 0 .. Len(t) /\ i - 1 \in 0 .. Len(t) /\ (n <= i => n <= i - 1 \/ n = i)
    BY <1>1
  <2>2. shown(i) = shown(i - 1) \/ shown(i) = Append(shown(i - 1), t[i])
    <3>1. Progress(t)[i] = Shown(Progress(t)[i - 1], t[i])
      BY <1>1
    <3>2. \A p : Shown(p, t[i]).result \in {p.result, Append(p.result, t[i])}
      BY DEF Shown
    <3> QED BY <3>1, <3>2
  <2> HIDE DEF shown
  <2>3. Heads(shown(i - 1), shown(i))
    <3>1. CASE shown(i) = shown(i - 1)
      BY <1>2, <2>1, <3>1 DEF Heads
    <3>2. CASE shown(i) = Append(shown(i - 1), t[i])
      <4>1. /\ Len(shown(i)) = Len(shown(i - 1)) + 1
            /\ \A j \in 1 .. Len(shown(i - 1)) : shown(i)[j] = shown(i - 1)[j]
        BY <1>1, <1>2, <2>1, <3>2, AppendRow
      <4> QED BY <1>2, <2>1, <4>1 DEF Heads
    <3> QED BY <2>2, <3>1, <3>2
  <2>4. ASSUME n <= i - 1 PROVE Heads(shown(n), shown(i))
    <3>1. Heads(shown(n), shown(i - 1))
      BY <1>5, <2>4
    <3> QED BY <1>2, <2>1, <2>3, <3>1 DEF Heads
  <2> QED BY <1>3, <2>1, <2>4
<1>6. Len(t) \in P
  <2> HIDE DEF P
  <2>1. \A i \in 0 .. Len(t) : i \in P
    BY <1>1, <1>4, <1>5, IntervalInduction
  <2> QED BY <1>1, <2>1
<1>7. n <= Len(t)
  BY <1>1
<1> QED BY <1>6, <1>7

\* After the first i rows: what has been shown ends with the last row's content, which is
\* also remembered for its sensor; nothing is remembered of other sensors; and no shown
\* row repeats the one before it.
Same(r, q) == r.sensor = q.sensor /\ r.content = q.content
NoRepeat(s) == \A k \in 2 .. Len(s) : ~Same(s[k], s[k - 1])

ShowsRow(p, r) ==
    /\ p.result # <<>> /\ Same(Last(p.result), r)
    /\ p.previous[r.sensor] = r.content

Faithful(t, i) ==
    LET p == Progress(t)[i]
    IN  /\ IF i = 0 THEN p = NothingShown ELSE ShowsRow(p, t[i])
        /\ \A s \in Sensors : (\A j \in 1 .. i : t[j].sensor # s) => p.previous[s] = None
        /\ NoRepeat(p.result)

LEMMA NoneIsNoContent == None \notin Contents
  BY HistoryAssumption

\* A row that is left out is of the same sensor as the row before it, since pages are
\* sorted, and repeats it.
LEMMA FaithfulLeavesOut ==
  ASSUME NEW t \in Tables, Sorted(t), NEW i \in 1 .. Len(t), Faithful(t, i - 1),
         Progress(t)[i - 1].previous[t[i].sensor] = t[i].content
  PROVE  Faithful(t, i)
<1> DEFINE p == Progress(t)[i - 1]
           r == t[i]
<1>1. /\ Len(t) \in Nat /\ i \in Nat /\ i # 0 /\ p \in States /\ Progress(t)[i] = Shown(p, r)
  BY ProgressSteps, LenProperties DEF Tables
<1>2. r \in Sample /\ r.sensor \in Sensors /\ r.content \in Contents
  BY SensorIsNat
<1> HIDE DEF p, r
<1>3. p.previous[r.sensor] = r.content
  BY DEF p, r
<1>4. Progress(t)[i] = p
  BY <1>1, <1>3 DEF Shown
<1>5. /\ IF i - 1 = 0 THEN p = NothingShown ELSE ShowsRow(p, t[i - 1])
      /\ \A s \in Sensors : (\A j \in 1 .. i - 1 : t[j].sensor # s) => p.previous[s] = None
      /\ NoRepeat(p.result)
  BY DEF Faithful, p
<1>6. PICK j \in 1 .. i - 1 : t[j].sensor = r.sensor
  BY <1>2, <1>3, <1>5, NoneIsNoContent
<1>7. i - 1 \in 1 .. Len(t) /\ j \in 1 .. Len(t) /\ j <= i - 1 /\ i - 1 <= i /\ i - 1 # 0
  BY <1>1, <1>6
<1>8. t[i - 1].sensor = r.sensor
  <2>1. t[j].sensor <= t[i - 1].sensor /\ t[i - 1].sensor <= t[i].sensor
    BY <1>7 DEF Sorted
  <2>2. t[j].sensor \in Nat /\ t[i - 1].sensor \in Nat /\ t[i].sensor \in Nat
    BY <1>7, SensorIsNat
  <2>3. t[j].sensor = t[i].sensor
    BY <1>6 DEF r
  <2>4. t[i - 1].sensor = t[i].sensor
    BY <2>1, <2>2, <2>3
  <2> QED BY <2>4 DEF r
<1>9. ShowsRow(p, t[i - 1])
  BY <1>5, <1>7
<1>10. ShowsRow(p, r)
  BY <1>3, <1>8, <1>9 DEF ShowsRow, Same
<1>11. ASSUME NEW s \in Sensors, \A k \in 1 .. i : t[k].sensor # s PROVE p.previous[s] = None
  <2>1. \A k \in 1 .. i - 1 : t[k].sensor # s
    BY <1>1, <1>11
  <2> QED BY <1>5, <2>1
<1> QED BY <1>1, <1>4, <1>5, <1>10, <1>11 DEF Faithful, r

LEMMA FaithfulShows ==
  ASSUME NEW t \in Tables, NEW i \in 1 .. Len(t), Faithful(t, i - 1),
         Progress(t)[i - 1].previous[t[i].sensor] # t[i].content
  PROVE  Faithful(t, i)
<1> DEFINE p == Progress(t)[i - 1]
           q == Progress(t)[i]
           r == t[i]
<1>1. /\ Len(t) \in Nat /\ i \in Nat /\ i # 0 /\ p \in States /\ q = Shown(p, r)
  BY ProgressSteps, LenProperties DEF Tables
<1>2. r \in Sample /\ r.sensor \in Sensors /\ r.content \in Contents
  BY SensorIsNat
<1>3. p.previous[r.sensor] # r.content
  OBVIOUS
<1>4. /\ IF i - 1 = 0 THEN p = NothingShown ELSE ShowsRow(p, t[i - 1])
      /\ \A s \in Sensors : (\A j \in 1 .. i - 1 : t[j].sensor # s) => p.previous[s] = None
      /\ NoRepeat(p.result)
  BY DEF Faithful
<1>5. i \in 1 .. i /\ \A j \in 1 .. i - 1 : j \in 1 .. i
  BY <1>1
<1> HIDE DEF p
<1>6. q.result = Append(p.result, r) /\ q.previous = [p.previous EXCEPT ![r.sensor] = r.content]
  <2> HIDE DEF q, r
  <2> QED BY <1>1, <1>3 DEF Shown
<1> DEFINE n == Len(p.result)
<1>7. /\ p.result \in Tables /\ p.previous \in [Sensors -> Contents \cup {None}]
      /\ n \in Nat /\ q.result # <<>> /\ Len(q.result) = n + 1 /\ q.result[n + 1] = r
      /\ \A k \in 1 .. n : q.result[k] = p.result[k]
  <2>1. p.result \in Tables /\ p.previous \in [Sensors -> Contents \cup {None}]
    BY <1>1 DEF States
  <2> HIDE DEF q, r
  <2> DEFINE longer == Append(p.result, r)
  <2>2. /\ n \in Nat /\ longer # <<>> /\ Len(longer) = n + 1 /\ longer[n + 1] = r
        /\ \A k \in 1 .. n : longer[k] = p.result[k]
    BY <1>2, <2>1, AppendRow
  <2>3. q.result = longer
    BY <1>6
  <2> HIDE DEF longer, n
  <2> QED BY <2>1, <2>2, <2>3
<1> HIDE DEF q, n
<1>8. ShowsRow(q, r)
  <2>1. Last(q.result) = r
    BY <1>7 DEF Last
  <2>2. q.previous[r.sensor] = r.content
    BY <1>2, <1>6, <1>7
  <2> QED BY <1>7, <2>1, <2>2 DEF ShowsRow, Same
<1>9. ASSUME NEW s \in Sensors, \A k \in 1 .. i : t[k].sensor # s PROVE q.previous[s] = None
  <2>1. r.sensor # s /\ \A k \in 1 .. i - 1 : t[k].sensor # s
    BY <1>5, <1>9
  <2>2. q.previous[s] = p.previous[s]
    BY <1>2, <1>6, <1>7, <2>1
  <2> QED BY <1>4, <2>1, <2>2
<1>10. NoRepeat(q.result)
  <2> SUFFICES ASSUME NEW k \in 2 .. n + 1 PROVE ~Same(q.result[k], q.result[k - 1])
    BY <1>7 DEF NoRepeat
  <2>1. CASE k \in 2 .. n
    <3>1. k \in 1 .. n /\ k - 1 \in 1 .. n
      BY <1>7, <2>1
    <3>2. ~Same(p.result[k], p.result[k - 1])
      BY <1>4, <2>1 DEF NoRepeat, n
    <3> QED BY <1>7, <3>1, <3>2
  <2>2. CASE k = n + 1
    <3>1. n # 0 /\ k - 1 = n /\ n \in 1 .. n
      BY <1>7, <2>2
    <3>2. i - 1 # 0
      <4>1. Len(NothingShown.result) = 0
        BY DEF NothingShown
      <4> QED BY <1>4, <3>1, <4>1 DEF n
    <3>3. ShowsRow(p, t[i - 1])
      BY <1>4, <3>2
    <3>4. q.result[k] = r /\ q.result[k - 1] = Last(p.result)
      BY <1>7, <2>2, <3>1 DEF Last, n
    <3>5. Same(Last(p.result), t[i - 1]) /\ p.previous[t[i - 1].sensor] = t[i - 1].content
      BY <3>3 DEF ShowsRow
    <3>6. ~Same(r, Last(p.result))
      BY <1>3, <3>5 DEF Same
    <3> QED BY <3>4, <3>6
  <2> QED BY <2>1, <2>2, <1>7
<1> QED BY <1>1, <1>8, <1>9, <1>10 DEF Faithful, q

LEMMA AlwaysFaithful ==
  ASSUME NEW t \in Tables, Sorted(t)
  PROVE  \A i \in 0 .. Len(t) : Faithful(t, i)
<1> DEFINE P == {i \in 0 .. Len(t) : Faithful(t, i)}
<1>1. Len(t) \in Nat /\ Progress(t)[0] = NothingShown
  BY ProgressSteps, LenProperties DEF Tables
<1>2. 0 \in P
  <2>1. Faithful(t, 0)
    <3>1. /\ \A s \in Sensors : NothingShown.previous[s] = None
          /\ NoRepeat(NothingShown.result)
      BY DEF NothingShown, NoRepeat
    <3> QED BY <1>1, <3>1 DEF Faithful
  <2> QED BY <1>1, <2>1
<1>3. ASSUME NEW i \in 1 .. Len(t), i - 1 \in P PROVE i \in P
  <2>1. i \in 0 .. Len(t) /\ Faithful(t, i - 1)
    BY <1>1, <1>3
  <2>2. Faithful(t, i)
    BY <2>1, FaithfulLeavesOut, FaithfulShows
  <2> QED BY <2>1, <2>2
<1>4. \A i \in 0 .. Len(t) : i \in P
  <2> HIDE DEF P
  <2> QED BY <1>1, <1>2, <1>3, IntervalInduction
<1> QED BY <1>4

\* For any query of any history: read row by row, the table without the repeats ends
\* after each row of the page with that row's content, and shows no row twice in
\* succession (the sort and the suppression of query, history.py:208-218).
THEOREM RepeatsLoseNothing == HistorySpec => []DeduplicationLosesNothing
<1>1. ASSUME NEW t \in Tables, Sorted(t) PROVE LosesNothing(t)
  <2> DEFINE shown(n) == Deduplicated(SubSeq(t, 1, n))
  <2>1. Len(t) \in Nat /\ DOMAIN t = 1 .. Len(t) /\ Len(t) \in 0 .. Len(t)
        /\ \A n \in 1 .. Len(t) : n \in 0 .. Len(t) /\ n # 0
    BY LenProperties DEF Tables
  <2>2. \A n \in 0 .. Len(t) : /\ shown(n) = Progress(t)[n].result
                              /\ Progress(t)[n].result \in Tables
                              /\ Faithful(t, n)
    BY <1>1, ProgressOfFirst, ProgressSteps, AlwaysFaithful DEF States
  <2> HIDE DEF shown
  <2>3. ASSUME NEW n \in 1 .. Len(t)
        PROVE  shown(n) # <<>> /\ IsPrefix(shown(n), shown(Len(t))) /\ Same(Last(shown(n)), t[n])
    <3>1. ShowsRow(Progress(t)[n], t[n])
      BY <2>1, <2>2 DEF Faithful
    <3>2. Heads(Progress(t)[n].result, Progress(t)[Len(t)].result)
      BY <2>1, ResultGrows
    <3>3. IsPrefix(shown(n), shown(Len(t)))
      BY <2>1, <2>2, <3>2, HeadsIsPrefix
    <3> QED BY <2>1, <2>2, <3>1, <3>3 DEF ShowsRow
  <2>4. NoRepeat(shown(Len(t)))
    BY <2>1, <2>2 DEF Faithful
  <2> QED BY <2>1, <2>3, <2>4 DEF LosesNothing, NoRepeat, Same, shown
<1>2. SamplesAreTyped => DeduplicationLosesNothing
  BY <1>1, PageIsSorted DEF DeduplicationLosesNothing
<1> QED BY <1>2, SamplesStayTyped, PTL

=============================================================================
