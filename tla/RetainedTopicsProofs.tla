------------------------- MODULE RetainedTopicsProofs -------------------------
(***************************************************************************)
(* Theorems about RetainedTopics for every set of sensors, every threshold,*)
(* any number of disturbances and outages of any length.                   *)
(*                                                                         *)
(* What the properties say of the broker is said of Outcome, what it will  *)
(* hold once the queue is delivered.  The first lemmas say how Outcome     *)
(* changes; the invariants then go through the phases of a cycle, and say  *)
(* for each what the topic sets and the counters have to do with it.       *)
(***************************************************************************)
EXTENDS RetainedTopics, FiniteSetTheorems, SequenceTheorems,
        WellFoundedInduction, TLAPS

Payloads == {"keep", "pass", "clear"}
Rows == [topic : Topics, payload : Payloads]
Row(t, p) == [topic |-> t, payload |-> p]

-----------------------------------------------------------------------------
\* The operators of the model.

LEMMA RowType ==
  ASSUME NEW rows \in Seq(Rows), NEW i \in 1 .. Len(rows)
  PROVE  /\ rows[i] \in Rows
         /\ rows[i].topic \in Topics /\ rows[i].payload \in Payloads
         /\ rows[i] = Row(rows[i].topic, rows[i].payload)
<1>1. rows[i] \in Rows
  OBVIOUS
<1> QED BY <1>1 DEF Rows, Row

\* A clearing of t among the rows from the i-th on.
ClearedFrom(rows, t, i) == \E j \in i .. Len(rows) : rows[j] = Row(t, "clear")

LEMMA InAfterFlush ==
  ASSUME NEW held, NEW rows, NEW t
  PROVE  t \in AfterFlush(held, rows) <=>
           /\ t \in Topics
           /\ \/ t \in held /\ ~ClearedFrom(rows, t, 1)
              \/ \E i \in 1 .. Len(rows) :
                    rows[i] = Row(t, "keep") /\ ~ClearedFrom(rows, t, i)
BY DEF AfterFlush, ClearedFrom, Row

LEMMA AfterFlushType ==
  ASSUME NEW held, NEW rows
  PROVE  AfterFlush(held, rows) \subseteq Topics
BY DEF AfterFlush

\* Nothing queued: the broker holds what it holds.
LEMMA AfterNothing ==
  ASSUME NEW held \in SUBSET Topics
  PROVE  AfterFlush(held, <<>>) = held
<1>1. \A t : t \in AfterFlush(held, <<>>) <=> t \in held
  <2> SUFFICES ASSUME NEW t PROVE t \in AfterFlush(held, <<>>) <=> t \in held
    OBVIOUS
  <2>1. ~ClearedFrom(<<>>, t, 1)
    BY DEF ClearedFrom
  <2> QED BY <2>1, InAfterFlush
<1> QED BY <1>1

LEMMA ApplyCases ==
  ASSUME NEW held, NEW t, NEW p \in Payloads, NEW u
  PROVE  u \in Apply(held, Row(t, p)) <=>
           \/ u = t /\ p = "keep"
           \/ u \in held /\ ~(u = t /\ p = "clear")
BY DEF Apply, Row, Payloads

\* A row at the end of the queue is applied last.
LEMMA AfterAppend ==
  ASSUME NEW held \in SUBSET Topics, NEW rows \in Seq(Rows),
         NEW t \in Topics, NEW p \in Payloads
  PROVE  AfterFlush(held, Append(rows, Row(t, p))) =
         Apply(AfterFlush(held, rows), Row(t, p))
<1> DEFINE n == Len(rows)
           more == Append(rows, Row(t, p))
<1>1. /\ n \in Nat /\ Len(more) = n + 1 /\ more[n + 1] = Row(t, p)
      /\ \A i \in 1 .. n : more[i] = rows[i]
  <2>1. Row(t, p) \in Rows
    BY DEF Row, Rows
  <2> QED BY <2>1, AppendProperties, LenProperties
<1> HIDE DEF n, more
<1>2. ASSUME NEW u, NEW i \in 1 .. n + 1
      PROVE  ClearedFrom(more, u, i) <=>
                ClearedFrom(rows, u, i) \/ Row(t, p) = Row(u, "clear")
  <2>1. i .. Len(more) = (i .. n) \cup {n + 1}
    BY <1>1
  <2>2. \A j \in i .. n : more[j] = rows[j]
    BY <1>1
  <2> QED BY <2>1, <2>2, <1>1 DEF ClearedFrom, n
<1>3. \A u, q : Row(t, p) = Row(u, q) <=> u = t /\ q = p
  BY DEF Row
<1>4. ASSUME NEW u
      PROVE  u \in AfterFlush(held, more) <=> u \in Apply(AfterFlush(held, rows), Row(t, p))
  <2>1. (\E i \in 1 .. Len(more) : more[i] = Row(u, "keep") /\ ~ClearedFrom(more, u, i))
        <=> \/ u = t /\ p = "keep"
            \/ /\ ~(u = t /\ p = "clear")
               /\ \E i \in 1 .. n : rows[i] = Row(u, "keep") /\ ~ClearedFrom(rows, u, i)
    <3>1. 1 .. Len(more) = (1 .. n) \cup {n + 1}
      BY <1>1
    <3>2. ~ClearedFrom(rows, u, n + 1)
      BY <1>1 DEF ClearedFrom, n
    <3>3. (more[n + 1] = Row(u, "keep") /\ ~ClearedFrom(more, u, n + 1))
          <=> u = t /\ p = "keep"
      BY <3>2, <1>1, <1>2, <1>3
    <3>4. ASSUME NEW i \in 1 .. n
          PROVE  (more[i] = Row(u, "keep") /\ ~ClearedFrom(more, u, i)) <=>
                    /\ ~(u = t /\ p = "clear")
                    /\ rows[i] = Row(u, "keep") /\ ~ClearedFrom(rows, u, i)
      BY <1>1, <1>2, <1>3
    <3> QED BY <3>1, <3>3, <3>4
  <2>2. ClearedFrom(more, u, 1) <=> ClearedFrom(rows, u, 1) \/ (u = t /\ p = "clear")
    BY <1>1, <1>2, <1>3
  <2> QED BY <2>1, <2>2, InAfterFlush, ApplyCases DEF n
<1> QED BY <1>4 DEF more

\* Two parts of the queue: the rows of each, and the clearings in them.
LEMMA Parts ==
  ASSUME NEW rows \in Seq(Rows), NEW n \in 0 .. Len(rows)
  PROVE  /\ SubSeq(rows, 1, n) \in Seq(Rows) /\ Len(SubSeq(rows, 1, n)) = n
         /\ \A i \in 1 .. n : SubSeq(rows, 1, n)[i] = rows[i]
         /\ SubSeq(rows, n + 1, Len(rows)) \in Seq(Rows)
         /\ Len(SubSeq(rows, n + 1, Len(rows))) = Len(rows) - n
         /\ \A i \in 1 .. Len(rows) - n :
                SubSeq(rows, n + 1, Len(rows))[i] = rows[n + i]
<1>1. Len(rows) \in Nat
  BY LenProperties
<1>2. \A i \in 1 .. n : rows[i] \in Rows
  BY <1>1, ElementOfSeq
<1>3. \A i \in n + 1 .. Len(rows) : rows[i] \in Rows
  BY <1>1, ElementOfSeq
<1> QED BY <1>1, <1>2, <1>3, SubSeqProperties

LEMMA ClearedParts ==
  ASSUME NEW rows \in Seq(Rows), NEW n \in 0 .. Len(rows), NEW t
  PROVE  LET head == SubSeq(rows, 1, n)
             tail == SubSeq(rows, n + 1, Len(rows))
         IN  /\ \A i \in 1 .. n : ClearedFrom(rows, t, i) <=>
                    ClearedFrom(head, t, i) \/ ClearedFrom(tail, t, 1)
             /\ \A i \in 1 .. Len(rows) - n :
                    ClearedFrom(rows, t, n + i) <=> ClearedFrom(tail, t, i)
             /\ ClearedFrom(rows, t, 1) <=>
                    ClearedFrom(head, t, 1) \/ ClearedFrom(tail, t, 1)
<1> DEFINE head == SubSeq(rows, 1, n)
           tail == SubSeq(rows, n + 1, Len(rows))
           l == Len(rows)
<1>1. /\ l \in Nat /\ Len(head) = n /\ Len(tail) = l - n
      /\ \A i \in 1 .. n : head[i] = rows[i]
      /\ \A i \in 1 .. l - n : tail[i] = rows[n + i]
  BY Parts, LenProperties
<1> HIDE DEF head, tail, l
<1>2. ASSUME NEW i \in 1 .. l - n
      PROVE  ClearedFrom(rows, t, n + i) <=> ClearedFrom(tail, t, i)
  <2>1. ASSUME NEW j \in n + i .. l, rows[j] = Row(t, "clear")
        PROVE  ClearedFrom(tail, t, i)
    <3>1. j - n \in i .. l - n /\ n + (j - n) = j /\ j - n \in 1 .. l - n
      BY <1>1
    <3>2. tail[j - n] = rows[j]
      BY <3>1, <1>1
    <3> QED BY <2>1, <3>1, <3>2, <1>1 DEF ClearedFrom
  <2>2. ASSUME NEW j \in i .. l - n, tail[j] = Row(t, "clear")
        PROVE  ClearedFrom(rows, t, n + i)
    <3>1. n + j \in n + i .. l /\ j \in 1 .. l - n
      BY <1>1
    <3> QED BY <2>2, <3>1, <1>1 DEF ClearedFrom, l
  <2> QED BY <2>1, <2>2, <1>1 DEF ClearedFrom, l
<1>3. ClearedFrom(tail, t, 1) <=> \E j \in n + 1 .. l : rows[j] = Row(t, "clear")
  <2>1. CASE n = l
    BY <2>1, <1>1 DEF ClearedFrom
  <2>2. CASE n # l
    <3>1. 1 \in 1 .. l - n
      BY <2>2, <1>1 DEF l
    <3> QED BY <3>1, <1>2 DEF ClearedFrom, l
  <2> QED BY <2>1, <2>2
<1>4. ASSUME NEW i \in 1 .. n + 1
      PROVE  ClearedFrom(rows, t, i) <=>
                ClearedFrom(head, t, i) \/ ClearedFrom(tail, t, 1)
  <2>1. i .. l = (i .. n) \cup (n + 1 .. l)
    BY <1>1 DEF l
  <2>2. \A j \in i .. n : head[j] = rows[j]
    BY <1>1
  <2> QED BY <2>1, <2>2, <1>1, <1>3 DEF ClearedFrom, l
<1> QED BY <1>1, <1>2, <1>4 DEF head, tail, l

\* Delivering a queue in two parts is delivering it.
LEMMA AfterParts ==
  ASSUME NEW held, NEW rows \in Seq(Rows), NEW n \in 0 .. Len(rows)
  PROVE  AfterFlush(AfterFlush(held, SubSeq(rows, 1, n)), SubSeq(rows, n + 1, Len(rows)))
         = AfterFlush(held, rows)
<1> DEFINE head == SubSeq(rows, 1, n)
           tail == SubSeq(rows, n + 1, Len(rows))
           l == Len(rows)
<1>1. /\ l \in Nat /\ Len(head) = n /\ Len(tail) = l - n
      /\ \A i \in 1 .. n : head[i] = rows[i]
      /\ \A i \in 1 .. l - n : tail[i] = rows[n + i]
  BY Parts, LenProperties
<1>2. ASSUME NEW t
      PROVE  /\ \A i \in 1 .. n : ClearedFrom(rows, t, i) <=>
                    ClearedFrom(head, t, i) \/ ClearedFrom(tail, t, 1)
             /\ \A i \in 1 .. l - n : ClearedFrom(rows, t, n + i) <=> ClearedFrom(tail, t, i)
             /\ ClearedFrom(rows, t, 1) <=>
                    ClearedFrom(head, t, 1) \/ ClearedFrom(tail, t, 1)
  BY ClearedParts
<1> HIDE DEF head, tail, l
<1>3. ASSUME NEW t
      PROVE  t \in AfterFlush(AfterFlush(held, head), tail) <=> t \in AfterFlush(held, rows)
  <2> DEFINE KeptFrom(s, i) == s[i] = Row(t, "keep") /\ ~ClearedFrom(s, t, i)
  <2>1. ASSUME NEW i \in 1 .. n
        PROVE  KeptFrom(rows, i) <=> KeptFrom(head, i) /\ ~ClearedFrom(tail, t, 1)
    BY <1>1, <1>2
  <2>2. ASSUME NEW i \in 1 .. l - n
        PROVE  KeptFrom(rows, n + i) <=> KeptFrom(tail, i)
    BY <1>1, <1>2
  <2>3. (\E i \in 1 .. l : KeptFrom(rows, i)) <=>
            \/ (\E i \in 1 .. n : KeptFrom(head, i)) /\ ~ClearedFrom(tail, t, 1)
            \/ \E i \in 1 .. l - n : KeptFrom(tail, i)
    <3> HIDE DEF KeptFrom
    <3>1. ASSUME NEW i \in 1 .. l, KeptFrom(rows, i)
          PROVE  \/ (\E k \in 1 .. n : KeptFrom(head, k)) /\ ~ClearedFrom(tail, t, 1)
                 \/ \E k \in 1 .. l - n : KeptFrom(tail, k)
      <4>1. CASE i \in 1 .. n
        BY <4>1, <3>1, <2>1
      <4>2. CASE i \notin 1 .. n
        <5>1. i - n \in 1 .. l - n /\ n + (i - n) = i
          BY <4>2, <1>1
        <5> QED BY <5>1, <3>1, <2>2
      <4> QED BY <4>1, <4>2
    <3>2. ASSUME NEW i \in 1 .. n, KeptFrom(head, i), ~ClearedFrom(tail, t, 1)
          PROVE  \E k \in 1 .. l : KeptFrom(rows, k)
      <4>1. i \in 1 .. l
        BY <1>1 DEF l
      <4> QED BY <4>1, <3>2, <2>1
    <3>3. ASSUME NEW i \in 1 .. l - n, KeptFrom(tail, i)
          PROVE  \E k \in 1 .. l : KeptFrom(rows, k)
      <4>1. n + i \in 1 .. l
        BY <1>1
      <4> QED BY <4>1, <3>3, <2>2
    <3> QED BY <3>1, <3>2, <3>3
  <2>4. t \in AfterFlush(held, rows) <=>
          t \in Topics /\ ((t \in held /\ ~ClearedFrom(rows, t, 1)) \/ \E i \in 1 .. l : KeptFrom(rows, i))
    BY InAfterFlush DEF l
  <2>5. t \in AfterFlush(held, head) <=>
          t \in Topics /\ ((t \in held /\ ~ClearedFrom(head, t, 1)) \/ \E i \in 1 .. n : KeptFrom(head, i))
    BY InAfterFlush, <1>1
  <2>6. t \in AfterFlush(AfterFlush(held, head), tail) <=>
          /\ t \in Topics
          /\ \/ t \in AfterFlush(held, head) /\ ~ClearedFrom(tail, t, 1)
             \/ \E i \in 1 .. l - n : KeptFrom(tail, i)
    BY InAfterFlush, <1>1
  <2> HIDE DEF KeptFrom
  <2> QED BY <2>3, <2>4, <2>5, <2>6, <1>2
<1> QED BY <1>3 DEF head, tail

\* Without the rows that were displaced: a topic is held in their stead only if
\* one of them cleared it and none of the rest names it.
LEMMA AfterDisplaced ==
  ASSUME NEW held, NEW rows \in Seq(Rows), NEW n \in 0 .. Len(rows),
         \A i \in 1 .. Len(rows) : rows[i].payload # "pass",
         NEW t \in AfterFlush(held, SubSeq(rows, n + 1, Len(rows)))
  PROVE  \/ t \in AfterFlush(held, rows)
         \/ /\ t \in Cleared(SubSeq(rows, 1, n))
            /\ t \notin Named(SubSeq(rows, n + 1, Len(rows)))
<1> DEFINE head == SubSeq(rows, 1, n)
           tail == SubSeq(rows, n + 1, Len(rows))
           l == Len(rows)
<1>1. /\ l \in Nat /\ Len(head) = n /\ Len(tail) = l - n
      /\ head \in Seq(Rows) /\ tail \in Seq(Rows)
      /\ \A i \in 1 .. n : head[i] = rows[i]
      /\ \A i \in 1 .. l - n : tail[i] = rows[n + i]
  BY Parts, LenProperties
<1>2. /\ ClearedFrom(rows, t, 1) <=> ClearedFrom(head, t, 1) \/ ClearedFrom(tail, t, 1)
      /\ \A i \in 1 .. l - n : ClearedFrom(rows, t, n + i) <=> ClearedFrom(tail, t, i)
  BY ClearedParts
<1>3. \A i \in 1 .. l : rows[i].payload # "pass"
  OBVIOUS
<1>4. /\ t \in Topics
      /\ \/ t \in held /\ ~ClearedFrom(tail, t, 1)
         \/ \E i \in 1 .. Len(tail) : tail[i] = Row(t, "keep") /\ ~ClearedFrom(tail, t, i)
  BY InAfterFlush
<1>5. t \in AfterFlush(held, rows) <=>
           /\ t \in Topics
           /\ \/ t \in held /\ ~ClearedFrom(rows, t, 1)
              \/ \E i \in 1 .. l : rows[i] = Row(t, "keep") /\ ~ClearedFrom(rows, t, i)
  BY InAfterFlush DEF l
<1> HIDE DEF head, tail, l
<1>6. CASE \E i \in 1 .. l - n : tail[i] = Row(t, "keep") /\ ~ClearedFrom(tail, t, i)
  <2>1. PICK i \in 1 .. l - n : tail[i] = Row(t, "keep") /\ ~ClearedFrom(tail, t, i)
    BY <1>6
  <2>2. n + i \in 1 .. l
    BY <1>1
  <2> QED BY <2>1, <2>2, <1>1, <1>2, <1>4, <1>5
<1>7. CASE /\ t \in held /\ ~ClearedFrom(tail, t, 1)
           /\ ~ \E i \in 1 .. l - n : tail[i] = Row(t, "keep") /\ ~ClearedFrom(tail, t, i)
  <2>1. CASE ~ClearedFrom(head, t, 1)
    BY <2>1, <1>7, <1>2, <1>4, <1>5
  <2>2. CASE ClearedFrom(head, t, 1)
    <3>1. t \in Cleared(head)
      <4>1. PICK j \in 1 .. n : head[j] = Row(t, "clear")
        BY <2>2, <1>1 DEF ClearedFrom
      <4>2. head[j] \in Range(head)
        BY <1>1, <4>1 DEF Range
      <4> QED BY <4>1, <4>2 DEF Cleared, Row
    <3>2. t \notin Named(tail)
      <4> SUFFICES ASSUME t \in Named(tail) PROVE FALSE
        OBVIOUS
      <4>1. PICK i \in 1 .. l - n : tail[i].topic = t
        BY <1>1 DEF Named, Range
      <4>2. tail[i] = Row(t, tail[i].payload) /\ tail[i].payload \in Payloads
        BY <4>1, <1>1, RowType
      <4>3. tail[i].payload # "pass"
        <5>1. n + i \in 1 .. l
          BY <1>1
        <5> QED BY <5>1, <1>1, <1>3
      <4>4. \A j \in i .. l - n : j \in 1 .. l - n
        BY <1>1
      <4>5. ~ClearedFrom(tail, t, i)
        BY <4>4, <1>7, <1>1 DEF ClearedFrom
      <4>6. i \in i .. Len(tail)
        BY <1>1
      <4>7. tail[i].payload # "clear"
        BY <4>2, <4>5, <4>6 DEF ClearedFrom
      <4> QED BY <4>2, <4>3, <4>5, <4>7, <1>7 DEF Payloads
    <3> QED BY <3>1, <3>2 DEF head, tail
  <2> QED BY <2>1, <2>2
<1> QED BY <1>1, <1>4, <1>6, <1>7

\* A message that overtakes the queue concerns its topic only, and takes a topic
\* away only if it clears it.
LEMMA AfterDirect ==
  ASSUME NEW held, NEW rows, NEW t, NEW p \in Payloads, NEW u,
         u # t \/ p # "clear",
         u \in AfterFlush(held, rows)
  PROVE  u \in AfterFlush(Apply(held, Row(t, p)), rows)
BY InAfterFlush, ApplyCases

-----------------------------------------------------------------------------
\* Minima.  A nonempty set of naturals has one: the initial segments of Nat are
\* well-founded under strict inclusion.
LEMMA LeastNat ==
  ASSUME NEW T, T \subseteq Nat, T # {}
  PROVE  \E m \in T : \A k \in T : m <= k
<1> DEFINE Segments == {0 .. n : n \in T}
<1>1. Segments \subseteq FiniteSubsetsOf(Nat)
  <2> SUFFICES ASSUME NEW n \in T PROVE 0 .. n \in FiniteSubsetsOf(Nat)
    OBVIOUS
  <2>1. n \in Nat
    OBVIOUS
  <2>2. IsFiniteSet(0 .. n)
    BY <2>1, FS_Interval
  <2>3. 0 .. n \subseteq Nat
    BY <2>1
  <2> QED BY <2>2, <2>3 DEF FiniteSubsetsOf
<1>2. Segments # {}
  OBVIOUS
<1>3. PICK x \in Segments :
          \A y \in Segments : ~ (<<y, x>> \in StrictSubsetOrdering(Nat))
  <2> HIDE DEF Segments
  <2> QED BY <1>1, <1>2, FS_StrictSubsetOrderingWellFounded, WFMin
<1>4. PICK m \in T : x = 0 .. m
  BY <1>3
<1>5. SUFFICES ASSUME NEW k \in T, k < m PROVE FALSE
  OBVIOUS
<1>6. k \in Nat /\ m \in Nat
  OBVIOUS
<1>7. 0 .. k \subseteq 0 .. m /\ 0 .. k # 0 .. m
  <2>1. m \in 0 .. m /\ m \notin 0 .. k
    BY <1>5, <1>6
  <2> QED BY <2>1, <1>5, <1>6
<1>8. <<0 .. k, 0 .. m>> \in StrictSubsetOrdering(Nat)
  <2>1. 0 .. k \in SUBSET Nat /\ 0 .. m \in SUBSET Nat
    BY <1>6
  <2> QED BY <2>1, <1>7 DEF StrictSubsetOrdering
<1> QED BY <1>3, <1>4, <1>8

LEMMA MinOfTwo ==
  ASSUME NEW a \in Nat, NEW b \in Nat
  PROVE  Min({a, b}) = IF a <= b THEN a ELSE b
BY DEF Min

LEMMA MinOf ==
  ASSUME NEW S \in SUBSET Nat, S # {}
  PROVE  Min(S) \in S
<1>1. \E m \in S : \A k \in S : m <= k
  BY LeastNat
<1> QED BY <1>1 DEF Min

-----------------------------------------------------------------------------
\* What holds in every state, whatever the disturbances.

Phases == {"flush", "scan", "state", "config", "clear", "miss", "save"}
Before == pc \in {"flush", "scan"}

TypeOK ==
    /\ pc \in Phases /\ todo \subseteq Topics
    /\ exported \subseteq Sensors /\ described \subseteq Sensors
    /\ current \subseteq Topics /\ tracked \subseteq Topics
    /\ missing \in [Topics -> 0 .. StaleCycles]
    /\ file \in [topics : SUBSET Topics, missing : [Topics -> 0 .. StaleCycles]]
    /\ discovery \in BOOLEAN /\ retain \in BOOLEAN /\ connected \in BOOLEAN
    /\ spool \in Seq(Rows)
    /\ retained \subseteq Topics /\ lost \subseteq Topics
    /\ absent \in [Sensors -> 0 .. StaleCycles]
    /\ upsets \subseteq UpsetKinds

\* The topics a phase works on.
Shape ==
    /\ Before => current = {}
    /\ pc \in {"state", "config"} => todo \subseteq {State(s) : s \in exported}
    /\ pc = "config" => todo # {}
    /\ pc = "clear" => todo \subseteq Configs(tracked) \ current
    /\ pc = "miss" => todo \subseteq (tracked \ current) \ Configs(tracked)
    /\ \A t \in current : t[1] \in exported
    /\ \A s \in exported : absent[s] = 0

\* Without a late acknowledgement or a link that returns in the middle of a
\* cycle, a cycle has either the link or a queue.
Queue ==
    /\ retain <=> "retain" \notin upsets
    /\ retain => \A i \in 1 .. Len(spool) : spool[i].payload # "pass"
    /\ upsets \cap {"reconnect", "late"} = {} /\ pc # "flush" /\ connected => spool = <<>>
    /\ lost \cap Named(spool) = {}

Basics == TypeOK /\ Shape /\ Queue

LEMMA TopicTypes ==
  ASSUME NEW s \in Sensors
  PROVE  /\ State(s) \in Topics /\ Config(s) \in Topics
         /\ State(s)[1] = s /\ State(s)[2] = "state"
         /\ Config(s)[1] = s /\ Config(s)[2] = "config"
         /\ State(s) # Config(s)
BY DEF State, Config, Topics

LEMMA OnlyState ==
  ASSUME NEW t \in Topics
  PROVE  /\ t[1] \in Sensors
         /\ t[2] = "config" => t = Config(t[1])
         /\ t[2] # "config" => t = State(t[1]) /\ t[2] = "state"
BY DEF State, Config, Topics

\* The sensor that a publishing phase is at.
LEMMA FirstTodo ==
  ASSUME RetainedAssumption, TypeOK, Shape, pc \in {"state", "config"}, todo # {}
  PROVE  First(todo) \in exported /\ First(todo) \in Sensors /\ State(First(todo)) \in todo
<1> DEFINE S == {t[1] : t \in todo}
<1>1. todo \subseteq {State(s) : s \in exported} /\ exported \subseteq Sensors
  BY DEF TypeOK, Shape
<1>2. \A t \in todo : t = State(t[1]) /\ t[1] \in exported
  BY <1>1 DEF State
<1>3. S \subseteq Nat /\ S # {}
  BY <1>1, <1>2 DEF RetainedAssumption
<1>4. Min(S) \in S
  BY <1>3, MinOf
<1> QED BY <1>1, <1>2, <1>4 DEF First

LEMMA CounterType ==
  ASSUME TypeOK, NEW t, NEW k \in 0 .. StaleCycles
  PROVE  [missing EXCEPT ![t] = k] \in [Topics -> 0 .. StaleCycles]
BY DEF TypeOK

LEMMA MissesType ==
  ASSUME RetainedAssumption, TypeOK, NEW t \in Topics
  PROVE  /\ Misses(t) \in 0 .. StaleCycles
         /\ Misses(t) = IF missing[t] + 1 <= StaleCycles THEN missing[t] + 1 ELSE StaleCycles
<1>1. missing[t] \in Nat /\ missing[t] + 1 \in Nat /\ StaleCycles \in Nat
  BY DEF RetainedAssumption, TypeOK
<1> QED BY <1>1, MinOfTwo DEF Misses

-----------------------------------------------------------------------------
\* What a publish does to the queue.

LEMMA QueuedRow ==
  ASSUME TypeOK, NEW t \in Topics, NEW p \in Payloads,
         NEW kinds, Enqueue(Row(t, p), kinds)
  PROVE  \E n \in 0 .. Len(spool) :
           LET tail == SubSeq(spool, n + 1, Len(spool))
           IN  /\ tail \in Seq(Rows)
               /\ \A i \in 1 .. Len(tail) : \E j \in 1 .. Len(spool) : tail[i] = spool[j]
               /\ spool' = Append(tail, Row(t, p)) /\ spool' \in Seq(Rows)
               /\ Named(spool') = Named(tail) \cup {t}
               /\ Named(tail) \subseteq Named(spool)
               /\ lost' = (lost \cup Cleared(SubSeq(spool, 1, n))) \ Named(spool')
               /\ lost' \subseteq Topics
               /\ upsets \subseteq upsets' /\ upsets' \subseteq UpsetKinds
               /\ upsets' = upsets \cup IF n > 0 THEN kinds \cup {"displace"} ELSE kinds
               /\ n = 0 => tail = spool /\ Cleared(SubSeq(spool, 1, n)) = {}
<1>1. PICK n \in 0 .. Len(spool) :
        /\ Disturb(IF n > 0 THEN kinds \cup {"displace"} ELSE kinds)
        /\ spool' = Append(SubSeq(spool, n + 1, Len(spool)), Row(t, p))
        /\ lost' = (lost \cup Cleared(SubSeq(spool, 1, n))) \ Named(spool')
  BY DEF Enqueue
<1> DEFINE head == SubSeq(spool, 1, n)
           tail == SubSeq(spool, n + 1, Len(spool))
<1>2. spool \in Seq(Rows) /\ Len(spool) \in Nat /\ upsets \subseteq UpsetKinds /\ lost \subseteq Topics
  BY LenProperties DEF TypeOK
<1>3. /\ head \in Seq(Rows) /\ Len(head) = n
      /\ \A i \in 1 .. n : head[i] = spool[i]
      /\ tail \in Seq(Rows) /\ Len(tail) = Len(spool) - n
      /\ \A i \in 1 .. Len(spool) - n : tail[i] = spool[n + i]
  BY <1>2, Parts
<1>4. Row(t, p) \in Rows /\ Row(t, p).topic = t
  BY DEF Row, Rows
<1>5. /\ spool' \in Seq(Rows) /\ Len(spool') = Len(tail) + 1
      /\ \A i \in 1 .. Len(tail) : spool'[i] = tail[i]
      /\ spool'[Len(tail) + 1] = Row(t, p)
  <2>1. spool' = Append(tail, Row(t, p)) /\ tail \in Seq(Rows)
    BY <1>1, <1>3
  <2> HIDE DEF tail
  <2> QED BY <2>1, <1>4, AppendProperties
<1>6. ASSUME NEW i \in 1 .. Len(tail)
      PROVE  n + i \in 1 .. Len(spool) /\ tail[i] = spool[n + i]
  BY <1>2, <1>3
<1>7. \A s \in Seq(Rows) : \A u : u \in Named(s) <=> \E i \in 1 .. Len(s) : s[i].topic = u
  BY DEF Named, Range
<1> HIDE DEF head, tail
<1>8. Named(spool') = Named(tail) \cup {t}
  <2>1. 1 .. Len(spool') = (1 .. Len(tail)) \cup {Len(tail) + 1}
    BY <1>2, <1>3, <1>5
  <2>2. ASSUME NEW u PROVE u \in Named(spool') <=> u \in Named(tail) \/ u = t
    <3>1. u \in Named(spool') <=> \E i \in 1 .. Len(spool') : spool'[i].topic = u
      BY <1>5, <1>7
    <3>2. u \in Named(tail) <=> \E i \in 1 .. Len(tail) : tail[i].topic = u
      BY <1>3, <1>7
    <3> QED BY <3>1, <3>2, <2>1, <1>4, <1>5
  <2> QED BY <2>2
<1>9. Named(tail) \subseteq Named(spool)
  BY <1>2, <1>3, <1>6, <1>7
<1>10. Cleared(head) \subseteq Topics
  <2>1. ASSUME NEW r \in Range(head) PROVE r.topic \in Topics
    <3>1. PICK i \in 1 .. n : r = head[i]
      BY <1>3 DEF Range
    <3> QED BY <3>1, <1>3, RowType
  <2> QED BY <2>1 DEF Cleared
<1>11. n = 0 => tail = spool /\ Cleared(head) = {}
  <2> SUFFICES ASSUME n = 0 PROVE tail = spool /\ Cleared(head) = {}
    OBVIOUS
  <2>1. tail = spool
    BY <1>2, <1>3
  <2>2. Range(head) = {}
    BY <1>3 DEF Range
  <2> QED BY <2>1, <2>2 DEF Cleared
<1>12. /\ (IF n > 0 THEN kinds \cup {"displace"} ELSE kinds) \subseteq Upsets
       /\ upsets' = upsets \cup IF n > 0 THEN kinds \cup {"displace"} ELSE kinds
  BY <1>1 DEF Disturb
<1>13. upsets \subseteq upsets' /\ upsets' \subseteq UpsetKinds
  <2>1. Upsets \subseteq UpsetKinds
    BY RetainedAssumption DEF RetainedAssumption
  <2> QED BY <2>1, <1>2, <1>12
<1> QED BY <1>1, <1>2, <1>3, <1>5, <1>6, <1>8, <1>9, <1>10, <1>11, <1>12, <1>13 DEF head, tail

LEMMA PublishBasics ==
  ASSUME Basics, NEW t \in Topics, NEW p \in Payloads, PublishOrCache(t, p),
         p = "pass" => ~retain, pc # "flush", UNCHANGED settings
  PROVE  /\ spool' \in Seq(Rows) /\ retained' \subseteq Topics /\ lost' \subseteq Topics
         /\ upsets \subseteq upsets' /\ upsets' \subseteq UpsetKinds
         /\ upsets' \subseteq upsets \cup {"late", "displace"}
         /\ connected' = connected /\ outage' = outage
         /\ retain' <=> "retain" \notin upsets'
         /\ retain' => \A i \in 1 .. Len(spool') : spool'[i].payload # "pass"
         /\ upsets' \cap {"reconnect", "late"} = {} /\ connected' => spool' = <<>>
         /\ lost' \cap Named(spool') = {}
<1>1. /\ spool \in Seq(Rows) /\ retained \subseteq Topics /\ lost \subseteq Topics
      /\ upsets \subseteq UpsetKinds
      /\ retain <=> "retain" \notin upsets
      /\ retain => \A i \in 1 .. Len(spool) : spool[i].payload # "pass"
      /\ upsets \cap {"reconnect", "late"} = {} /\ connected => spool = <<>>
      /\ lost \cap Named(spool) = {}
  BY DEF Basics, TypeOK, Queue
<1>2. retain' = retain /\ connected' = connected /\ outage' = outage
  BY DEF settings, PublishOrCache
<1>3. Apply(retained, Row(t, p)) \subseteq Topics
  <2>1. \A u : u \in Apply(retained, Row(t, p)) => u \in Topics
    BY <1>1, ApplyCases
  <2> QED BY <2>1
<1>4. CASE /\ connected
           /\ retained' = Apply(retained, Row(t, p))
           /\ lost' = lost \ {t}
           /\ UNCHANGED <<spool, upsets>>
  <2>1. Named(spool') = Named(spool)
    BY <1>4
  <2> QED BY <2>1, <1>1, <1>2, <1>3, <1>4
<1>5. ASSUME NEW kinds \in {{}, {"late"}}, Enqueue(Row(t, p), kinds),
             connected => "late" \in kinds, retained' \subseteq Topics
      PROVE  /\ spool' \in Seq(Rows) /\ retained' \subseteq Topics /\ lost' \subseteq Topics
             /\ upsets \subseteq upsets' /\ upsets' \subseteq UpsetKinds
             /\ upsets' \subseteq upsets \cup {"late", "displace"}
             /\ retain' <=> "retain" \notin upsets'
             /\ retain' => \A i \in 1 .. Len(spool') : spool'[i].payload # "pass"
             /\ upsets' \cap {"reconnect", "late"} = {} /\ connected' => spool' = <<>>
             /\ lost' \cap Named(spool') = {}
  <2> DEFINE tail(n) == SubSeq(spool, n + 1, Len(spool))
  <2>1. TypeOK
    BY DEF Basics
  <2>2. PICK n \in 0 .. Len(spool) :
             /\ tail(n) \in Seq(Rows)
             /\ \A i \in 1 .. Len(tail(n)) : \E j \in 1 .. Len(spool) : tail(n)[i] = spool[j]
             /\ spool' = Append(tail(n), Row(t, p)) /\ spool' \in Seq(Rows)
             /\ lost' = (lost \cup Cleared(SubSeq(spool, 1, n))) \ Named(spool')
             /\ lost' \subseteq Topics
             /\ upsets \subseteq upsets' /\ upsets' \subseteq UpsetKinds
             /\ upsets' = upsets \cup IF n > 0 THEN kinds \cup {"displace"} ELSE kinds
    BY <2>1, <1>5, QueuedRow
  <2> HIDE DEF tail
  <2>3. upsets' \subseteq upsets \cup {"late", "displace"} /\ kinds \subseteq upsets'
    BY <2>2, <1>5
  <2>4. retain' <=> "retain" \notin upsets'
    BY <2>2, <2>3, <1>1, <1>2
  <2>5. ASSUME retain', NEW i \in 1 .. Len(spool') PROVE spool'[i].payload # "pass"
    <3>1. Row(t, p) \in Rows /\ Row(t, p).payload = p
      BY DEF Row, Rows
    <3>2. /\ Len(spool') = Len(tail(n)) + 1 /\ Len(tail(n)) \in Nat
          /\ \A k \in 1 .. Len(tail(n)) : spool'[k] = tail(n)[k]
          /\ spool'[Len(tail(n)) + 1] = Row(t, p)
      BY <2>2, <3>1, AppendProperties, LenProperties
    <3>3. CASE i \in 1 .. Len(tail(n))
      BY <3>2, <3>3, <2>2, <2>5, <1>1, <1>2
    <3>4. CASE i = Len(tail(n)) + 1
      BY <3>1, <3>2, <3>4, <2>5, <1>2
    <3> QED BY <3>2, <3>3, <3>4
  <2>6. upsets' \cap {"reconnect", "late"} = {} /\ connected' => spool' = <<>>
    BY <2>3, <1>2, <1>5
  <2>7. lost' \cap Named(spool') = {}
    BY <2>2
  <2> QED BY <2>2, <2>3, <2>4, <2>5, <2>6, <2>7, <1>5
<1>6. CASE ~connected /\ Enqueue(Row(t, p), {}) /\ UNCHANGED retained
  <2>1. retained' \subseteq Topics
    BY <1>1, <1>6
  <2> QED BY <2>1, <1>2, <1>5, <1>6
<1>7. CASE retained' = Apply(retained, Row(t, p)) /\ Enqueue(Row(t, p), {"late"})
  <2>1. retained' \subseteq Topics
    BY <1>3, <1>7
  <2> QED BY <2>1, <1>2, <1>5, <1>7
<1> QED BY <1>4, <1>6, <1>7 DEF PublishOrCache, Row

\* The broker will hold a topic less only if this message clears it, or if a
\* row was displaced.
LEMMA PublishTakesNothing ==
  ASSUME Basics, NEW t \in Topics, NEW p \in Payloads, PublishOrCache(t, p),
         "displace" \notin upsets',
         NEW u \in Outcome, u # t \/ p # "clear"
  PROVE  u \in Outcome'
<1>1. spool \in Seq(Rows) /\ retained \in SUBSET Topics /\ TypeOK
  BY DEF Basics, TypeOK
<1>2. u \in AfterFlush(retained, spool) /\ u \in AfterFlush(Apply(retained, Row(t, p)), spool)
  BY AfterDirect DEF Outcome
<1>3. Outcome' = AfterFlush(retained', spool')
  BY DEF Outcome
<1>4. Apply(retained, Row(t, p)) \in SUBSET Topics
  <2>1. \A x : x \in Apply(retained, Row(t, p)) => x \in Topics
    BY <1>1, ApplyCases
  <2> QED BY <2>1
<1>5. ASSUME NEW kinds, Enqueue(Row(t, p), kinds)
      PROVE  spool' = Append(spool, Row(t, p))
  BY <1>1, <1>5, QueuedRow
<1>6. CASE retained' = Apply(retained, Row(t, p)) /\ UNCHANGED spool
  BY <1>2, <1>3, <1>6
<1>7. CASE Enqueue(Row(t, p), {}) /\ UNCHANGED retained
  <2>1. Outcome' = AfterFlush(retained, Append(spool, Row(t, p)))
    BY <1>3, <1>5, <1>7
  <2>2. Outcome' = Apply(AfterFlush(retained, spool), Row(t, p))
    BY <2>1, <1>1, AfterAppend
  <2> QED BY <2>2, <1>2, ApplyCases
<1>8. CASE Enqueue(Row(t, p), {"late"}) /\ retained' = Apply(retained, Row(t, p))
  <2>1. Outcome' = AfterFlush(Apply(retained, Row(t, p)), Append(spool, Row(t, p)))
    BY <1>3, <1>5, <1>8
  <2>2. Outcome' = Apply(AfterFlush(Apply(retained, Row(t, p)), spool), Row(t, p))
    BY <2>1, <1>1, <1>4, AfterAppend
  <2> QED BY <2>2, <1>2, ApplyCases
<1> QED BY <1>6, <1>7, <1>8 DEF PublishOrCache, Row

\* What is published to be retained will be, unless a queue is still to follow.
LEMMA PublishHolds ==
  ASSUME Basics, NEW t \in Topics, PublishOrCache(t, "keep"), pc # "flush",
         upsets' \cap {"reconnect", "late", "displace"} = {}
  PROVE  t \in Outcome'
<1>1. spool \in Seq(Rows) /\ retained \in SUBSET Topics /\ TypeOK
  BY DEF Basics, TypeOK
<1>2. Outcome' = AfterFlush(retained', spool') /\ "keep" \in Payloads
  BY DEF Outcome, Payloads
<1>3. CASE /\ connected /\ UNCHANGED <<spool, upsets>>
           /\ retained' = Apply(retained, Row(t, "keep"))
  <2>1. spool = <<>>
    BY <1>3 DEF Basics, Queue
  <2>2. t \in retained' /\ retained' \in SUBSET Topics
    <3>1. \A x : x \in retained' <=> x = t \/ x \in retained
      BY <1>2, <1>3, ApplyCases
    <3> QED BY <3>1, <1>1
  <2> QED BY <2>1, <2>2, <1>2, <1>3, AfterNothing
<1>4. CASE Enqueue(Row(t, "keep"), {}) /\ UNCHANGED retained
  <2>1. spool' = Append(spool, Row(t, "keep"))
    BY <1>1, <1>2, <1>4, QueuedRow
  <2>2. Outcome' = Apply(AfterFlush(retained, spool), Row(t, "keep"))
    BY <2>1, <1>1, <1>2, <1>4, AfterAppend
  <2> QED BY <2>2, <1>2, ApplyCases
<1>5. CASE Enqueue(Row(t, "keep"), {"late"})
  <2>1. "late" \in upsets'
    BY <1>1, <1>2, <1>5, QueuedRow
  <2> QED BY <2>1
<1> QED BY <1>3, <1>4, <1>5 DEF PublishOrCache, Row

\* Under displacement alone a publish leaves no topic held that was not, except
\* its own, and a clearing not even that.
Held == Outcome \ lost

LEMMA PublishAddsNothing ==
  ASSUME Basics, NEW t \in Topics, NEW p \in Payloads, PublishOrCache(t, p),
         pc # "flush", upsets' \cap {"reconnect", "late", "retain"} = {},
         NEW u \in Held'
  PROVE  (u \in Held \/ u = t) /\ ~(u = t /\ p = "clear")
<1>1. /\ spool \in Seq(Rows) /\ retained \in SUBSET Topics /\ TypeOK
      /\ lost \cap Named(spool) = {}
      /\ upsets \cap {"reconnect", "late"} = {} /\ connected => spool = <<>>
      /\ retain <=> "retain" \notin upsets
      /\ retain => \A i \in 1 .. Len(spool) : spool[i].payload # "pass"
  BY DEF Basics, TypeOK, Queue
<1>2. /\ Outcome' = AfterFlush(retained', spool') /\ Outcome = AfterFlush(retained, spool)
      /\ u \in Outcome' /\ u \notin lost'
  BY DEF Outcome, Held
<1>3. CASE /\ connected /\ UNCHANGED <<spool, upsets>>
           /\ retained' = Apply(retained, Row(t, p)) /\ lost' = lost \ {t}
  <2>1. spool = <<>> /\ spool' = <<>>
    BY <1>1, <1>3
  <2>2. retained' \in SUBSET Topics
    <3>1. \A x : x \in retained' => x \in Topics
      BY <1>1, <1>3, ApplyCases
    <3> QED BY <3>1
  <2>3. Outcome = retained /\ Outcome' = Apply(retained, Row(t, p))
    BY <2>1, <2>2, <1>1, <1>2, <1>3, AfterNothing
  <2> QED BY <2>3, <1>2, <1>3, ApplyCases DEF Held
<1>4. CASE Enqueue(Row(t, p), {}) /\ UNCHANGED retained
  <2> DEFINE tail(n) == SubSeq(spool, n + 1, Len(spool))
  <2>1. PICK n \in 0 .. Len(spool) :
             /\ tail(n) \in Seq(Rows)
             /\ spool' = Append(tail(n), Row(t, p))
             /\ Named(spool') = Named(tail(n)) \cup {t}
             /\ Named(tail(n)) \subseteq Named(spool)
             /\ lost' = (lost \cup Cleared(SubSeq(spool, 1, n))) \ Named(spool')
             /\ upsets \subseteq upsets'
    BY <1>1, <1>4, QueuedRow
  <2>2. \A i \in 1 .. Len(spool) : spool[i].payload # "pass"
    BY <2>1, <1>1
  <2>3. Outcome' = Apply(AfterFlush(retained, tail(n)), Row(t, p))
    <3> HIDE DEF tail
    <3> QED BY <2>1, <1>1, <1>2, <1>4, AfterAppend
  <2>4. ~(u = t /\ p = "clear") /\ (u = t \/ u \in AfterFlush(retained, tail(n)))
    BY <2>3, <1>2, ApplyCases
  <2>5. CASE u # t
    <3>1. \/ u \in Outcome
          \/ u \in Cleared(SubSeq(spool, 1, n)) /\ u \notin Named(tail(n))
      BY <2>2, <2>4, <2>5, <1>1, <1>2, AfterDisplaced
    <3>2. u \in Outcome
      BY <3>1, <2>1, <2>5, <1>2
    <3>3. u \notin lost
      BY <2>1, <2>5, <1>1, <1>2
    <3> QED BY <3>2, <3>3, <2>4 DEF Held
  <2> QED BY <2>4, <2>5
<1>5. CASE Enqueue(Row(t, p), {"late"})
  <2>1. "late" \in upsets'
    BY <1>1, <1>5, QueuedRow
  <2> QED BY <2>1
<1> QED BY <1>3, <1>4, <1>5 DEF PublishOrCache, Row

-----------------------------------------------------------------------------
\* Flush delivers the queue or a first part of it: Outcome stays what it was.
LEMMA FlushKeeps ==
  ASSUME Basics, Flush
  PROVE  /\ Outcome' = Outcome /\ lost' = lost
         /\ spool' \in Seq(Rows) /\ retained' \subseteq Topics
         /\ connected' \in BOOLEAN
         /\ upsets \subseteq upsets' /\ upsets' \subseteq upsets \cup {"late"}
         /\ upsets' \subseteq UpsetKinds
         /\ retain => \A i \in 1 .. Len(spool') : spool'[i].payload # "pass"
         /\ upsets' \cap {"reconnect", "late"} = {} /\ connected' => spool' = <<>>
         /\ lost' \cap Named(spool') = {}
<1>1. /\ spool \in Seq(Rows) /\ Len(spool) \in Nat /\ retained \in SUBSET Topics
      /\ connected \in BOOLEAN /\ upsets \subseteq UpsetKinds
      /\ lost \cap Named(spool) = {}
      /\ retain => \A i \in 1 .. Len(spool) : spool[i].payload # "pass"
  BY LenProperties DEF Basics, TypeOK, Queue
<1>2. lost' = lost
  BY DEF Flush
<1>3. \A h, r : AfterFlush(h, r) \in SUBSET Topics
  BY AfterFlushType
<1>4. Outcome' = AfterFlush(retained', spool') /\ Outcome = AfterFlush(retained, spool)
  BY DEF Outcome
<1>5. CASE connected /\ retained' = AfterFlush(retained, spool) /\ spool' = <<>>
           /\ UNCHANGED <<connected, upsets>>
  <2>1. Outcome' = Outcome
    BY <1>3, <1>4, <1>5, AfterNothing
  <2>2. spool' \in Seq(Rows) /\ Len(spool') = 0
    BY <1>5
  <2>3. Named(spool') = {}
    BY <1>5 DEF Named, Range
  <2> QED BY <2>1, <2>2, <2>3, <1>1, <1>2, <1>3, <1>5
<1>6. ASSUME NEW n \in 0 .. Len(spool) - 1,
             retained' = AfterFlush(retained, SubSeq(spool, 1, n)),
             spool' = SubSeq(spool, n + 1, Len(spool)),
             (connected' = FALSE /\ UNCHANGED upsets) \/ (Upset("late") /\ UNCHANGED connected)
      PROVE  /\ Outcome' = Outcome
             /\ spool' \in Seq(Rows) /\ retained' \subseteq Topics
             /\ connected' \in BOOLEAN
             /\ upsets \subseteq upsets' /\ upsets' \subseteq upsets \cup {"late"}
             /\ upsets' \subseteq UpsetKinds
             /\ retain => \A i \in 1 .. Len(spool') : spool'[i].payload # "pass"
             /\ upsets' \cap {"reconnect", "late"} = {} /\ connected' => spool' = <<>>
             /\ lost' \cap Named(spool') = {}
  <2>0. n \in 0 .. Len(spool)
    BY <1>1
  <2>1. Outcome' = Outcome
    BY <2>0, <1>1, <1>4, <1>6, AfterParts
  <2>2. /\ spool' \in Seq(Rows) /\ Len(spool') = Len(spool) - n
        /\ \A i \in 1 .. Len(spool) - n : spool'[i] = spool[n + i]
    BY <2>0, <1>1, <1>6, Parts
  <2>3. \A i \in 1 .. Len(spool') : n + i \in 1 .. Len(spool) /\ spool'[i] = spool[n + i]
    BY <2>2, <1>1
  <2>4. Named(spool') \subseteq Named(spool)
    <3>1. ASSUME NEW u \in Named(spool') PROVE u \in Named(spool)
      <4>1. PICK i \in 1 .. Len(spool') : spool'[i].topic = u
        BY <2>2 DEF Named, Range
      <4>2. spool[n + i] \in Range(spool) /\ spool[n + i].topic = u
        BY <4>1, <2>3, <1>1 DEF Range
      <4> QED BY <4>2 DEF Named
    <3> QED BY <3>1
  <2>5. /\ connected' \in BOOLEAN /\ upsets' \subseteq UpsetKinds
        /\ upsets \subseteq upsets' /\ upsets' \subseteq upsets \cup {"late"}
        /\ upsets' \cap {"reconnect", "late"} = {} => ~connected'
    BY <1>1, <1>6 DEF Upset, Disturb, UpsetKinds
  <2> QED BY <2>1, <2>2, <2>3, <2>4, <2>5, <1>1, <1>2, <1>3, <1>6
<1>7. CASE ~connected /\ UNCHANGED <<connected, spool, retained, upsets>>
  BY <1>1, <1>2, <1>4, <1>7
<1>8. \/ /\ connected /\ retained' = AfterFlush(retained, spool) /\ spool' = <<>>
         /\ UNCHANGED <<connected, upsets>>
      \/ \E n \in 0 .. Len(spool) - 1 :
            /\ retained' = AfterFlush(retained, SubSeq(spool, 1, n))
            /\ spool' = SubSeq(spool, n + 1, Len(spool))
            /\ (connected' = FALSE /\ UNCHANGED upsets) \/ (Upset("late") /\ UNCHANGED connected)
      \/ ~connected /\ UNCHANGED <<connected, spool, retained, upsets>>
  BY DEF Flush
<1>9. CASE \E n \in 0 .. Len(spool) - 1 :
              /\ retained' = AfterFlush(retained, SubSeq(spool, 1, n))
              /\ spool' = SubSeq(spool, n + 1, Len(spool))
              /\ (connected' = FALSE /\ UNCHANGED upsets) \/ (Upset("late") /\ UNCHANGED connected)
  BY <1>2, <1>6, <1>9
<1> QED BY <1>5, <1>7, <1>8, <1>9

LEMMA BasicsInit ==
  ASSUME Init
  PROVE  Basics
<1>1. /\ spool = <<>> /\ <<>> \in Seq(Rows) /\ Len(<<>>) = 0
      /\ lost \cap Named(spool) = {}
  BY DEF Init
<1>2. 0 \in 0 .. StaleCycles
  BY RetainedAssumption DEF RetainedAssumption
<1>3. TypeOK
  BY <1>1, <1>2 DEF Init, TypeOK, Phases
<1> QED BY <1>1, <1>3 DEF Init, Basics, Shape, Queue

\* The steps that leave the broker and the queue alone.
LEMMA QuietQueue ==
  ASSUME Basics, UNCHANGED <<spool, lost, retain>>,
         upsets \subseteq upsets', "retain" \in upsets' => "retain" \in upsets,
         \/ connected' = connected /\ (pc' # "flush" => pc # "flush")
         \/ ~connected' \/ pc' = "flush" \/ "reconnect" \in upsets'
  PROVE  Queue'
<1>1. Named(spool') = Named(spool)
  OBVIOUS
<1> QED BY <1>1 DEF Basics, Queue

LEMMA PublishStateBasics ==
  ASSUME Basics, PublishState
  PROVE  Basics'
<1> DEFINE s == First(todo)
           p == IF retain THEN "keep" ELSE "pass"
<1>1. /\ pc = "state" /\ todo # {} /\ PublishOrCache(State(s), p)
      /\ missing' = [missing EXCEPT ![State(s)] = 0]
      /\ current' = current \cup {State(s)}
      /\ \/ pc' = "config" /\ todo' = todo
         \/ pc' = "state" /\ todo' = todo \ {State(s)}
      /\ UNCHANGED <<exported, described, tracked, file, absent, discovery, retain>>
  BY DEF PublishState, Go, settings
<1>2. RetainedAssumption /\ TypeOK /\ Shape
  BY RetainedAssumption DEF Basics
<1>3. s \in exported /\ s \in Sensors /\ State(s) \in todo
  BY <1>1, <1>2, FirstTodo
<1>4. State(s) \in Topics /\ State(s)[1] = s
  BY <1>3, TopicTypes
<1> HIDE DEF s
<1>5. /\ spool' \in Seq(Rows) /\ retained' \subseteq Topics /\ lost' \subseteq Topics
      /\ upsets \subseteq upsets' /\ upsets' \subseteq UpsetKinds
      /\ connected' = connected
      /\ retain' <=> "retain" \notin upsets'
      /\ retain' => \A i \in 1 .. Len(spool') : spool'[i].payload # "pass"
      /\ upsets' \cap {"reconnect", "late"} = {} /\ connected' => spool' = <<>>
      /\ lost' \cap Named(spool') = {}
  <2>1. p \in Payloads /\ (p = "pass" => ~retain)
    BY DEF Payloads
  <2>2. pc # "flush" /\ UNCHANGED settings
    BY <1>1 DEF settings
  <2> HIDE DEF p
  <2> QED BY <2>1, <2>2, <1>1, <1>4, PublishBasics
<1>6. missing' \in [Topics -> 0 .. StaleCycles]
  <2>1. 0 \in 0 .. StaleCycles
    BY <1>2 DEF RetainedAssumption
  <2> QED BY <2>1, <1>1, <1>2, CounterType
<1>7. TypeOK'
  BY <1>1, <1>2, <1>4, <1>5, <1>6 DEF TypeOK, Phases
<1>8. Shape'
  BY <1>1, <1>2, <1>3, <1>4 DEF Shape, Before
<1>9. Queue'
  BY <1>5 DEF Queue
<1> QED BY <1>7, <1>8, <1>9 DEF Basics

LEMMA PublishConfigBasics ==
  ASSUME Basics, PublishConfig
  PROVE  Basics'
<1> DEFINE s == First(todo)
<1>1. /\ pc = "config" /\ PublishOrCache(Config(s), "keep")
      /\ missing' = [missing EXCEPT ![Config(s)] = 0]
      /\ current' = current \cup {Config(s)}
      /\ pc' = "state" /\ todo' = todo \ {State(s)}
      /\ UNCHANGED <<exported, described, tracked, file, absent, discovery, retain>>
  BY DEF PublishConfig, Go, settings
<1>2. RetainedAssumption /\ TypeOK /\ Shape /\ todo # {}
  BY <1>1, RetainedAssumption DEF Basics, Shape
<1>3. s \in exported /\ s \in Sensors
  BY <1>1, <1>2, FirstTodo
<1>4. Config(s) \in Topics /\ Config(s)[1] = s
  BY <1>3, TopicTypes
<1> HIDE DEF s
<1>5. /\ spool' \in Seq(Rows) /\ retained' \subseteq Topics /\ lost' \subseteq Topics
      /\ upsets \subseteq upsets' /\ upsets' \subseteq UpsetKinds
      /\ connected' = connected
      /\ retain' <=> "retain" \notin upsets'
      /\ retain' => \A i \in 1 .. Len(spool') : spool'[i].payload # "pass"
      /\ upsets' \cap {"reconnect", "late"} = {} /\ connected' => spool' = <<>>
      /\ lost' \cap Named(spool') = {}
  <2>1. "keep" \in Payloads /\ pc # "flush" /\ UNCHANGED settings
    BY <1>1 DEF settings, Payloads
  <2> QED BY <2>1, <1>1, <1>4, PublishBasics
<1>6. missing' \in [Topics -> 0 .. StaleCycles]
  <2>1. 0 \in 0 .. StaleCycles
    BY <1>2 DEF RetainedAssumption
  <2> QED BY <2>1, <1>1, <1>2, CounterType
<1>7. TypeOK'
  BY <1>1, <1>2, <1>4, <1>5, <1>6 DEF TypeOK, Phases
<1>8. Shape'
  BY <1>1, <1>2, <1>3, <1>4 DEF Shape, Before
<1>9. Queue'
  BY <1>5 DEF Queue
<1> QED BY <1>7, <1>8, <1>9 DEF Basics

\* The two clearing phases.
LEMMA ClearBasics ==
  ASSUME Basics, NEW t \in todo, pc \in {"clear", "miss"}, PublishOrCache(t, "clear"),
         missing' = [missing EXCEPT ![t] = 0], Go(pc, todo \ {t}),
         UNCHANGED <<exported, described, current, tracked, file, absent, settings>>
  PROVE  Basics'
<1>1. /\ pc' = pc /\ todo' = todo \ {t}
      /\ UNCHANGED <<exported, described, current, tracked, file, absent, discovery, retain>>
  BY DEF Go, settings
<1>2. RetainedAssumption /\ TypeOK /\ Shape /\ t \in Topics
  BY RetainedAssumption DEF Basics, TypeOK
<1>3. /\ spool' \in Seq(Rows) /\ retained' \subseteq Topics /\ lost' \subseteq Topics
      /\ upsets \subseteq upsets' /\ upsets' \subseteq UpsetKinds
      /\ connected' = connected
      /\ retain' <=> "retain" \notin upsets'
      /\ retain' => \A i \in 1 .. Len(spool') : spool'[i].payload # "pass"
      /\ upsets' \cap {"reconnect", "late"} = {} /\ connected' => spool' = <<>>
      /\ lost' \cap Named(spool') = {}
  <2>1. "clear" \in Payloads /\ "clear" # "pass" /\ pc # "flush"
    BY DEF Payloads
  <2> QED BY <2>1, <1>2, PublishBasics
<1>4. missing' \in [Topics -> 0 .. StaleCycles]
  <2>1. 0 \in 0 .. StaleCycles
    BY <1>2 DEF RetainedAssumption
  <2> QED BY <2>1, <1>2, CounterType
<1>5. TypeOK'
  BY <1>1, <1>2, <1>3, <1>4 DEF TypeOK, Phases
<1>6. Shape'
  BY <1>1, <1>2 DEF Shape, Before, Configs
<1>7. Queue'
  BY <1>3 DEF Queue
<1> QED BY <1>5, <1>6, <1>7 DEF Basics

\* The remaining steps.
LEMMA CountMissBasics ==
  ASSUME Basics, CountMiss
  PROVE  Basics'
<1>1. PICK t \in todo :
        /\ \/ /\ Misses(t) < StaleCycles
              /\ missing' = [missing EXCEPT ![t] = Misses(t)]
              /\ UNCHANGED <<brokerVars, upsets>>
           \/ /\ PublishOrCache(t, "clear")
              /\ missing' = [missing EXCEPT ![t] = 0]
        /\ Go("miss", todo \ {t})
  BY DEF CountMiss
<1>2. /\ pc = "miss"
      /\ UNCHANGED <<exported, described, current, tracked, file, absent, settings>>
  BY DEF CountMiss
<1>3. CASE PublishOrCache(t, "clear") /\ missing' = [missing EXCEPT ![t] = 0]
  BY <1>1, <1>2, <1>3, ClearBasics
<1>4. CASE missing' = [missing EXCEPT ![t] = Misses(t)] /\ UNCHANGED <<brokerVars, upsets>>
  <2>1. TypeOK /\ Shape /\ t \in Topics
    BY DEF Basics, TypeOK
  <2>2. missing' \in [Topics -> 0 .. StaleCycles]
    BY <1>4, <2>1, MissesType, CounterType, RetainedAssumption
  <2>3. pc' = "miss" /\ todo' = todo \ {t} /\ UNCHANGED <<discovery, retain>>
    BY <1>1, <1>2 DEF Go, settings
  <2>4. UNCHANGED <<connected, spool, retained, lost, upsets>>
    BY <1>4 DEF brokerVars
  <2>5. TypeOK'
    BY <2>1, <2>2, <2>3, <2>4, <1>2 DEF TypeOK, Phases
  <2>6. Shape'
    BY <2>1, <2>3, <1>2 DEF Shape, Before, Configs
  <2>7. Queue'
    BY <2>3, <2>4, <1>2, QuietQueue
  <2> QED BY <2>5, <2>6, <2>7 DEF Basics
<1> QED BY <1>1, <1>3, <1>4

LEMMA ScanBasics ==
  ASSUME Basics, Scan
  PROVE  Basics'
<1>1. PICK found \in SUBSET Sensors : \E d \in SUBSET found :
        /\ exported' = found /\ described' = d
        /\ absent' = [s \in Sensors |-> IF s \in found THEN 0
                                       ELSE Min({absent[s] + 1, StaleCycles})]
        /\ pc' = "state" /\ todo' = {State(s) : s \in found}
  BY DEF Scan, Go
<1>2. /\ pc = "scan" /\ current' = {}
      /\ UNCHANGED <<tracked, missing, file, connected, spool, retained, lost,
                      discovery, retain, upsets>>
  BY DEF Scan, brokerVars, settings
<1>3. TypeOK /\ RetainedAssumption
  BY RetainedAssumption DEF Basics
<1>4. \A s \in Sensors : Min({absent[s] + 1, StaleCycles}) \in 0 .. StaleCycles
  <2> SUFFICES ASSUME NEW s \in Sensors
               PROVE  Min({absent[s] + 1, StaleCycles}) \in 0 .. StaleCycles
    OBVIOUS
  <2>1. absent[s] + 1 \in Nat /\ StaleCycles \in Nat
    BY <1>3 DEF TypeOK, RetainedAssumption
  <2> QED BY <2>1, MinOfTwo
<1>5. absent' \in [Sensors -> 0 .. StaleCycles]
  <2>1. 0 \in 0 .. StaleCycles
    BY <1>3 DEF RetainedAssumption
  <2> QED BY <2>1, <1>1, <1>4
<1>6. todo' \subseteq Topics
  BY <1>1, TopicTypes
<1>7. TypeOK'
  BY <1>1, <1>2, <1>3, <1>5, <1>6 DEF TypeOK, Phases
<1>8. Shape'
  BY <1>1, <1>2 DEF Shape, Before
<1>9. Queue'
  BY <1>1, <1>2, QuietQueue
<1> QED BY <1>7, <1>8, <1>9 DEF Basics

\* The steps of the settings, of the link and of the process.
LEMMA DisturbanceBasics ==
  ASSUME Basics, Fail \/ Restart \/ Disconnect \/ Reconnect \/ SetDiscovery \/ SetRetain
  PROVE  Basics'
<1>1. TypeOK /\ Shape /\ Queue
  BY DEF Basics
<1>2. \A k : Upset(k) => upsets' = upsets \cup {k} /\ k \in UpsetKinds
  BY RetainedAssumption DEF Upset, Disturb, RetainedAssumption
<1>3. CASE Fail
  <2>1. /\ pc' = "flush" /\ todo' = {} /\ current' = {} /\ upsets' = upsets \cup {"raise"}
        /\ UNCHANGED <<exported, described, tracked, file, absent, connected, spool,
                        retained, lost, discovery, retain>>
    BY <1>2, <1>3 DEF Fail, Go, brokerVars, settings
  <2>2. missing' \in [Topics -> 0 .. StaleCycles]
    <3>1. \/ missing' = missing
          \/ \E t \in todo : missing' = [missing EXCEPT ![t] = Misses(t)]
      BY <1>3 DEF Fail
    <3>2. ASSUME NEW t \in todo
          PROVE  [missing EXCEPT ![t] = Misses(t)] \in [Topics -> 0 .. StaleCycles]
      <4>1. t \in Topics
        BY <1>1 DEF TypeOK
      <4> QED BY <4>1, <1>1, MissesType, CounterType, RetainedAssumption
    <3> QED BY <3>1, <3>2, <1>1 DEF TypeOK
  <2>3. TypeOK'
    BY <2>1, <2>2, <1>1 DEF TypeOK, Phases, UpsetKinds
  <2>4. Shape'
    BY <2>1, <1>1 DEF Shape, Before
  <2>5. Queue'
    BY <2>1, QuietQueue
  <2> QED BY <2>3, <2>4, <2>5 DEF Basics
<1>4. CASE Restart
  <2>1. /\ pc' = "flush" /\ todo' = {} /\ current' = {} /\ exported' = {} /\ described' = {}
        /\ tracked' = file.topics /\ connected' = FALSE
        /\ missing' = [t \in Topics |-> IF t \in file.topics THEN file.missing[t] ELSE 0]
        /\ upsets' = upsets \/ upsets' = upsets \cup {"crash"}
        /\ UNCHANGED <<file, absent, spool, retained, lost, discovery, retain>>
    BY <1>2, <1>4 DEF Restart, Go, settings
  <2>2. missing' \in [Topics -> 0 .. StaleCycles] /\ tracked' \subseteq Topics
    <3>1. 0 \in 0 .. StaleCycles
      BY RetainedAssumption DEF RetainedAssumption
    <3> QED BY <3>1, <2>1, <1>1 DEF TypeOK
  <2>3. TypeOK'
    BY <2>1, <2>2, <1>1 DEF TypeOK, Phases, UpsetKinds
  <2>4. Shape'
    BY <2>1, <1>1 DEF Shape, Before
  <2>5. Queue'
    BY <2>1, QuietQueue
  <2> QED BY <2>3, <2>4, <2>5 DEF Basics
<1>5. CASE Disconnect
  <2>1. /\ connected' = FALSE
        /\ UNCHANGED <<pc, todo, exported, described, current, tracked, missing, file,
                        absent, spool, retained, lost, discovery, retain, upsets>>
    BY <1>5 DEF Disconnect, cycleVars, settings
  <2> QED BY <2>1, <1>1, QuietQueue DEF Basics, TypeOK, Shape, Before
<1>6. CASE Reconnect
  <2>1. /\ connected' = TRUE
        /\ \/ pc = "flush" /\ upsets' = upsets
           \/ upsets' = upsets \cup {"reconnect"}
        /\ UNCHANGED <<pc, todo, exported, described, current, tracked, missing, file,
                        absent, spool, retained, lost, discovery, retain>>
    BY <1>2, <1>6 DEF Reconnect, cycleVars, settings
  <2>2. TypeOK' /\ Shape'
    BY <2>1, <1>1 DEF TypeOK, Shape, Before, UpsetKinds
  <2>3. Queue'
    BY <2>1, QuietQueue
  <2> QED BY <2>2, <2>3 DEF Basics
<1>7. CASE SetDiscovery
  <2>1. /\ discovery' = ~discovery /\ upsets' = upsets \cup {"discovery"}
        /\ UNCHANGED <<pc, todo, exported, described, current, tracked, missing, file,
                        absent, connected, spool, retained, lost, retain>>
    BY <1>2, <1>7 DEF SetDiscovery, cycleVars, brokerVars
  <2>2. TypeOK' /\ Shape'
    BY <2>1, <1>1 DEF TypeOK, Shape, Before, UpsetKinds
  <2>3. Queue'
    BY <2>1, QuietQueue
  <2> QED BY <2>2, <2>3 DEF Basics
<1>8. CASE SetRetain
  <2>1. /\ retain' = ~retain /\ upsets' = upsets \cup {"retain"} /\ "retain" \notin upsets
        /\ UNCHANGED <<pc, todo, exported, described, current, tracked, missing, file,
                        absent, connected, spool, retained, lost, discovery>>
    BY <1>2, <1>8 DEF SetRetain, cycleVars, brokerVars, Upset
  <2>2. TypeOK' /\ Shape'
    BY <2>1, <1>1 DEF TypeOK, Shape, Before, UpsetKinds
  <2>3. retain' = FALSE /\ Named(spool') = Named(spool)
    BY <2>1, <1>1 DEF Queue
  <2>4. Queue'
    BY <2>1, <2>3, <1>1 DEF Queue
  <2> QED BY <2>2, <2>4 DEF Basics
<1> QED BY <1>3, <1>4, <1>5, <1>6, <1>7, <1>8

LEMMA FlushBasics ==
  ASSUME Basics, Flush
  PROVE  Basics'
<1>1. /\ lost' = lost
      /\ spool' \in Seq(Rows) /\ retained' \subseteq Topics
      /\ connected' \in BOOLEAN
      /\ upsets \subseteq upsets' /\ upsets' \subseteq upsets \cup {"late"}
      /\ upsets' \subseteq UpsetKinds
      /\ retain => \A i \in 1 .. Len(spool') : spool'[i].payload # "pass"
      /\ upsets' \cap {"reconnect", "late"} = {} /\ connected' => spool' = <<>>
      /\ lost' \cap Named(spool') = {}
  BY FlushKeeps
<1>2. /\ pc = "flush" /\ pc' = "scan" /\ todo' = {}
      /\ UNCHANGED <<exported, described, current, tracked, missing, file, absent,
                     discovery, retain>>
  BY DEF Flush, Go, cycleVars, settings
<1>3. TypeOK'
  BY <1>1, <1>2 DEF Basics, TypeOK, Phases
<1>4. Shape'
  BY <1>2 DEF Basics, Shape, Before
<1>5. Queue'
  BY <1>1, <1>2 DEF Basics, Queue
<1> QED BY <1>3, <1>4, <1>5 DEF Basics

\* The steps from one phase to the next, which touch neither broker nor queue.
LEMMA PhaseBasics ==
  ASSUME Basics, StatesDone \/ ConfigsDone \/ MissesDone \/ Save
  PROVE  Basics'
<1>1. TypeOK /\ Shape
  BY DEF Basics
<1>2. pc # "flush" /\ UNCHANGED <<exported, described, missing, absent, connected, spool, retained,
                                  lost, discovery, retain, upsets>>
  BY DEF StatesDone, ConfigsDone, MissesDone, Save, cycleVars, brokerVars, settings
<1>3. Queue'
  BY <1>2, QuietQueue
<1>4. CASE StatesDone
  <2>1. /\ pc' = "clear" /\ todo' = Configs(tracked) \ current
        /\ UNCHANGED <<current, tracked, file>>
    BY <1>4 DEF StatesDone, Go, cycleVars
  <2>2. Configs(tracked) \subseteq Topics
    BY <1>1 DEF Configs, TypeOK
  <2> QED BY <2>1, <2>2, <1>1, <1>2, <1>3 DEF Basics, TypeOK, Shape, Before, Phases
<1>5. CASE ConfigsDone
  <2>1. /\ \/ /\ pc' = "miss" /\ todo' = (tracked \ current) \ Configs(tracked)
              /\ tracked' = tracked
           \/ pc' = "save" /\ todo' = {} /\ tracked' = current
        /\ UNCHANGED <<current, file>>
    BY <1>5 DEF ConfigsDone, Go
  <2> QED BY <2>1, <1>1, <1>2, <1>3 DEF Basics, TypeOK, Shape, Before, Phases
<1>6. CASE MissesDone
  <2>1. /\ pc' = "save" /\ todo' = {} /\ UNCHANGED <<current, file>>
        /\ tracked' = current \cup {t \in Topics : missing[t] > 0}
    BY <1>6 DEF MissesDone, Go
  <2> QED BY <2>1, <1>1, <1>2, <1>3 DEF Basics, TypeOK, Shape, Before, Phases
<1>7. CASE Save
  <2>1. /\ pc' = "flush" /\ todo' = {} /\ current' = {} /\ tracked' = tracked
        /\ file' = [topics |-> tracked, missing |-> missing]
    BY <1>7 DEF Save, Go
  <2> QED BY <2>1, <1>1, <1>2, <1>3 DEF Basics, TypeOK, Shape, Before, Phases
<1> QED BY <1>4, <1>5, <1>6, <1>7

LEMMA BasicsStep ==
  ASSUME Basics, [Next]_vars
  PROVE  Basics'
<1>1. CASE PublishState
  BY <1>1, PublishStateBasics
<1>2. CASE PublishConfig
  BY <1>2, PublishConfigBasics
<1>3. CASE ClearConfig
  <2>1. /\ pc = "clear"
        /\ UNCHANGED <<exported, described, current, tracked, file, absent, settings>>
    BY <1>3 DEF ClearConfig
  <2>2. PICK t \in todo : /\ PublishOrCache(t, "clear")
                          /\ missing' = [missing EXCEPT ![t] = 0]
                          /\ Go("clear", todo \ {t})
    BY <1>3 DEF ClearConfig
  <2> QED BY <2>1, <2>2, ClearBasics
<1>4. CASE CountMiss
  BY <1>4, CountMissBasics
<1>5. CASE Scan
  BY <1>5, ScanBasics
<1>6. CASE Flush
  BY <1>6, FlushBasics
<1>7. CASE StatesDone \/ ConfigsDone \/ MissesDone \/ Save
  BY <1>7, PhaseBasics
<1>8. CASE Fail \/ Restart \/ Disconnect \/ Reconnect \/ SetDiscovery \/ SetRetain
  BY <1>8, DisturbanceBasics
<1>9. CASE UNCHANGED vars
  <2>1. UNCHANGED <<pc, todo, exported, described, current, tracked, missing, file, absent,
                    connected, spool, retained, lost, discovery, retain, upsets>>
    BY <1>9 DEF vars, cycleVars, brokerVars, settings
  <2>2. Named(spool') = Named(spool)
    BY <2>1
  <2> QED BY <2>1, <2>2 DEF Basics, TypeOK, Shape, Queue, Before
<1> QED BY <1>1, <1>2, <1>3, <1>4, <1>5, <1>6, <1>7, <1>8, <1>9 DEF Next, Cycle

LEMMA UpsetsGrow ==
  ASSUME [Next]_vars
  PROVE  upsets \subseteq upsets'
<1>1. \A k : Disturb(k) => upsets \subseteq upsets'
  BY DEF Disturb
<1>2. ASSUME NEW t, NEW p, PublishOrCache(t, p) PROVE upsets \subseteq upsets'
  BY <1>1, <1>2 DEF PublishOrCache, Enqueue
<1>3. CASE PublishState \/ PublishConfig \/ ClearConfig
  BY <1>2, <1>3 DEF PublishState, PublishConfig, ClearConfig
<1>4. CASE CountMiss
  BY <1>2, <1>4 DEF CountMiss
<1>5. CASE Flush \/ Scan \/ StatesDone \/ ConfigsDone \/ MissesDone \/ Save
  BY <1>1, <1>5 DEF Flush, Scan, StatesDone, ConfigsDone, MissesDone, Save, Upset
<1>6. CASE Fail \/ Restart \/ Disconnect \/ Reconnect \/ SetDiscovery \/ SetRetain
  BY <1>1, <1>6 DEF Fail, Restart, Disconnect, Reconnect, SetDiscovery, SetRetain, Upset
<1>7. CASE UNCHANGED vars
  BY <1>7 DEF vars
<1> QED BY <1>3, <1>4, <1>5, <1>6, <1>7 DEF Next, Cycle

-----------------------------------------------------------------------------
(***************************************************************************)
(* NoOrphanTopic and ClearedAtThreshold.  What the broker will hold is, in *)
(* each phase, among the topics the gateway remembers or is about to: those*)
(* of the last cycles before the scan, then also those of this cycle, and  *)
(* in the end those that are still being counted.  A topic held is counted *)
(* as often as its sensor was absent, the count of this cycle being due    *)
(* until the phase "miss" has come to it.                                  *)
(***************************************************************************)
Calm == Only({"discovery", "displace"})
Counted(t) ==
    \/ pc \in {"flush", "scan", "save"}
    \/ pc = "miss" /\ t \notin todo

NoneUntracked ==
    /\ Before => /\ Held \subseteq tracked
                 /\ file = [topics |-> tracked, missing |-> missing]
    /\ pc \in {"state", "config", "clear"} => Held \subseteq tracked \cup current
    /\ pc = "clear" => Configs(Held) \subseteq current \cup todo
    /\ pc = "miss" => Held \subseteq current \cup todo \cup {t \in Topics : missing[t] > 0}
    /\ pc = "save" => Held \subseteq tracked
    /\ Before \/ pc = "save" => \A t \in Topics : missing[t] > 0 => t \in tracked

NoneOverdue ==
    /\ \A t \in Topics : missing[t] < StaleCycles
    /\ \A s \in Sensors : State(s) \in Held =>
          absent[s] <= missing[State(s)] + (IF Counted(State(s)) THEN 0 ELSE 1)

Tracking == Calm => NoneUntracked /\ NoneOverdue

LEMMA CalmPublish ==
  ASSUME Basics, Calm, Calm', NEW t \in Topics, NEW p \in Payloads, PublishOrCache(t, p),
         pc # "flush"
  PROVE  Held' \subseteq Held \cup {t} /\ (p = "clear" => t \notin Held')
<1>1. upsets' \cap {"reconnect", "late", "retain"} = {}
  BY DEF Calm, Only
<1> QED BY <1>1, PublishAddsNothing

LEMMA HeldType ==
  ASSUME TypeOK
  PROVE  Held \subseteq Topics
BY AfterFlushType DEF Held, Outcome

\* The topic of a state or config message is one of this cycle's from then on.
LEMMA TrackingPublish ==
  ASSUME Basics, Calm, Calm', NoneUntracked, NoneOverdue,
         NEW t \in Topics, NEW p \in Payloads, PublishOrCache(t, p),
         t[1] \in exported,
         pc \in {"state", "config"}, pc' \in {"state", "config"},
         missing' = [missing EXCEPT ![t] = 0], current' = current \cup {t},
         UNCHANGED <<tracked, absent>>
  PROVE  NoneUntracked' /\ NoneOverdue'
<1>1. Held' \subseteq Held \cup {t}
  BY CalmPublish
<1>2. TypeOK /\ Shape
  BY DEF Basics
<1>3. NoneUntracked'
  BY <1>1 DEF NoneUntracked, Before
<1>4. \A u \in Topics : missing'[u] = IF u = t THEN 0 ELSE missing[u]
  BY <1>2 DEF TypeOK
<1>5. \A u \in Topics : missing'[u] < StaleCycles
  BY <1>4, RetainedAssumption DEF NoneOverdue, RetainedAssumption
<1>6. ASSUME NEW s \in Sensors, State(s) \in Held'
      PROVE  absent'[s] <= missing'[State(s)] + (IF Counted(State(s)) THEN 0 ELSE 1)'
  <2>1. ~Counted(State(s)) /\ ~Counted(State(s))'
    BY DEF Counted
  <2>2. State(s) \in Topics /\ State(s)[1] = s
    BY TopicTypes
  <2>3. missing[State(s)] \in Nat /\ missing'[State(s)] \in Nat /\ absent[s] \in Nat
    BY <1>2, <1>4, <2>2 DEF TypeOK
  <2>4. CASE State(s) = t
    <3>1. absent[s] = 0
      BY <2>2, <2>4, <1>2 DEF Shape
    <3> QED BY <3>1, <2>1, <2>3
  <2>5. CASE State(s) # t
    <3>1. State(s) \in Held
      BY <2>5, <1>1, <1>6
    <3>2. absent[s] <= missing[State(s)] + 1
      BY <3>1, <2>1 DEF NoneOverdue
    <3> QED BY <3>2, <2>1, <2>2, <2>5, <1>4
  <2> QED BY <2>4, <2>5
<1>7. NoneOverdue'
  BY <1>5, <1>6 DEF NoneOverdue
<1> QED BY <1>3, <1>7

\* A clearing takes its topic away, in either clearing phase.
LEMMA TrackingClear ==
  ASSUME Basics, Calm, Calm', NoneUntracked, NoneOverdue,
         NEW t \in todo, PublishOrCache(t, "clear"),
         pc \in {"clear", "miss"}, pc' = pc, todo' = todo \ {t},
         missing' = [missing EXCEPT ![t] = 0],
         UNCHANGED <<tracked, current, absent>>
  PROVE  NoneUntracked' /\ NoneOverdue'
<1>1. t \in Topics /\ TypeOK /\ Shape
  BY DEF Basics, TypeOK
<1>2. Held' \subseteq Held \ {t}
  BY <1>1, CalmPublish DEF Payloads
<1>3. \A u \in Topics : missing'[u] = IF u = t THEN 0 ELSE missing[u]
  BY <1>1 DEF TypeOK
<1>4. NoneUntracked'
  BY <1>2, <1>3 DEF NoneUntracked, Before, Configs
<1>5. \A u \in Topics : missing'[u] < StaleCycles
  BY <1>3, RetainedAssumption DEF NoneOverdue, RetainedAssumption
<1>6. ASSUME NEW s \in Sensors, State(s) \in Held'
      PROVE  absent'[s] <= missing'[State(s)] + (IF Counted(State(s)) THEN 0 ELSE 1)'
  <2>1. State(s) \in Held /\ State(s) # t /\ State(s) \in Topics
    BY <1>2, <1>6, TopicTypes
  <2>2. absent[s] <= missing[State(s)] + (IF Counted(State(s)) THEN 0 ELSE 1)
    BY <2>1 DEF NoneOverdue
  <2>3. Counted(State(s))' <=> Counted(State(s))
    BY <2>1 DEF Counted
  <2> QED BY <2>1, <2>2, <2>3, <1>3
<1>7. NoneOverdue'
  BY <1>5, <1>6 DEF NoneOverdue
<1> QED BY <1>4, <1>7

LEMMA TrackingCount ==
  ASSUME Basics, Calm, NoneUntracked, NoneOverdue,
         pc = "miss", NEW t \in todo, Misses(t) < StaleCycles,
         missing' = [missing EXCEPT ![t] = Misses(t)], UNCHANGED brokerVars,
         pc' = "miss", todo' = todo \ {t},
         UNCHANGED <<tracked, current, absent>>
  PROVE  NoneUntracked' /\ NoneOverdue'
<1>1. t \in Topics /\ TypeOK
  BY DEF Basics, TypeOK
<1>2. Misses(t) = missing[t] + 1 /\ missing[t] \in Nat
  BY <1>1, MissesType, RetainedAssumption DEF TypeOK, RetainedAssumption
<1>3. Held' = Held
  BY DEF Held, Outcome, brokerVars
<1>4. \A u \in Topics : missing'[u] = IF u = t THEN missing[u] + 1 ELSE missing[u]
  BY <1>1, <1>2 DEF TypeOK
<1>5. NoneUntracked'
  <2>1. ASSUME NEW u \in Held'
        PROVE  u \in current' \cup todo' \cup {v \in Topics : missing'[v] > 0}
    <3>1. u \in Held /\ u \in current \cup todo \cup {v \in Topics : missing[v] > 0}
      BY <1>3, <2>1 DEF NoneUntracked
    <3>2. CASE u = t
      BY <3>2, <1>1, <1>2, <1>4
    <3>3. CASE u # t
      BY <3>1, <3>3, <1>4
    <3> QED BY <3>2, <3>3
  <2> QED BY <2>1 DEF NoneUntracked, Before
<1>6. \A u \in Topics : missing'[u] < StaleCycles
  BY <1>2, <1>4 DEF NoneOverdue
<1>7. ASSUME NEW s \in Sensors, State(s) \in Held'
      PROVE  absent'[s] <= missing'[State(s)] + (IF Counted(State(s)) THEN 0 ELSE 1)'
  <2>1. /\ State(s) \in Topics /\ absent[s] \in Nat /\ missing[State(s)] \in Nat
        /\ absent[s] <= missing[State(s)] + (IF Counted(State(s)) THEN 0 ELSE 1)
    BY <1>1, <1>3, <1>7, TopicTypes DEF NoneOverdue, TypeOK
  <2>2. CASE State(s) = t
    <3>1. Counted(State(s))' /\ ~Counted(State(s))
      BY <2>2 DEF Counted
    <3> QED BY <3>1, <2>1, <2>2, <1>4
  <2>3. CASE State(s) # t
    <3>1. Counted(State(s))' <=> Counted(State(s))
      BY <2>3 DEF Counted
    <3> QED BY <3>1, <2>1, <2>3, <1>4
  <2> QED BY <2>2, <2>3
<1>8. NoneOverdue'
  BY <1>6, <1>7 DEF NoneOverdue
<1> QED BY <1>5, <1>8

LEMMA TrackingScan ==
  ASSUME Basics, Calm, NoneUntracked, NoneOverdue, Scan
  PROVE  NoneUntracked' /\ NoneOverdue'
<1>1. /\ pc = "scan" /\ pc' = "state" /\ current' = {}
      /\ UNCHANGED <<tracked, missing, file, brokerVars>>
  BY DEF Scan, Go
<1>2. Held' = Held
  BY <1>1 DEF Held, Outcome, brokerVars
<1>3. NoneUntracked'
  BY <1>1, <1>2 DEF NoneUntracked, Before
<1>4. ASSUME NEW s \in Sensors, State(s) \in Held'
      PROVE  absent'[s] <= missing'[State(s)] + (IF Counted(State(s)) THEN 0 ELSE 1)'
  <2>1. absent'[s] = 0 \/ absent'[s] = Min({absent[s] + 1, StaleCycles})
    BY DEF Scan
  <2>2. /\ absent[s] \in Nat /\ StaleCycles \in Nat /\ missing[State(s)] \in Nat
        /\ absent[s] + 1 \in Nat
    BY RetainedAssumption, TopicTypes DEF Basics, TypeOK, RetainedAssumption
  <2>3. absent'[s] <= absent[s] + 1 /\ absent'[s] \in Nat
    <3>1. Min({absent[s] + 1, StaleCycles}) = IF absent[s] + 1 <= StaleCycles
                                              THEN absent[s] + 1 ELSE StaleCycles
      BY <2>2, MinOfTwo
    <3> QED BY <3>1, <2>1, <2>2
  <2>4. absent[s] <= missing[State(s)] + (IF Counted(State(s)) THEN 0 ELSE 1)
    BY <1>2, <1>4 DEF NoneOverdue
  <2>5. Counted(State(s)) /\ ~Counted(State(s))'
    BY <1>1 DEF Counted
  <2>6. absent[s] <= missing[State(s)]
    BY <2>2, <2>4, <2>5
  <2>7. absent'[s] <= missing'[State(s)] + 1
    BY <2>2, <2>3, <2>6, <1>1
  <2> QED BY <2>5, <2>7
<1>5. NoneOverdue'
  BY <1>1, <1>4 DEF NoneOverdue
<1> QED BY <1>3, <1>5

\* From one phase to the next.
LEMMA TrackingPhase ==
  ASSUME Basics, Calm, NoneUntracked, NoneOverdue,
         StatesDone \/ ConfigsDone \/ MissesDone \/ Save
  PROVE  NoneUntracked' /\ NoneOverdue'
<1>1. UNCHANGED <<brokerVars, absent, missing>> /\ TypeOK /\ Shape /\ retain
  BY DEF StatesDone, ConfigsDone, MissesDone, Save, cycleVars, Basics, Queue, Calm, Only
<1>2. Held' = Held /\ Held \subseteq Topics
  BY <1>1, HeldType DEF Held, Outcome, brokerVars
<1>3. ASSUME NEW s \in Sensors, State(s) \in Held
      PROVE  /\ State(s) \in Topics /\ absent[s] \in Nat /\ missing[State(s)] \in Nat
             /\ absent[s] <= missing[State(s)] + (IF Counted(State(s)) THEN 0 ELSE 1)
             /\ State(s) \in current => absent[s] = 0
             /\ State(s) \notin Configs(tracked)
  <2>1. State(s) \in Topics /\ State(s)[1] = s /\ State(s)[2] = "state"
    BY TopicTypes
  <2>2. absent[s] \in Nat /\ missing[State(s)] \in Nat
    BY <2>1, <1>1 DEF TypeOK
  <2>3. State(s) \in current => absent[s] = 0
    BY <2>1, <1>1 DEF Shape
  <2>4. State(s) \notin Configs(tracked)
    BY <2>1 DEF Configs
  <2> QED BY <2>1, <2>2, <2>3, <2>4, <1>3 DEF NoneOverdue
<1>4. CASE StatesDone
  <2>1. /\ pc = "state" /\ pc' = "clear" /\ todo' = Configs(tracked) \ current
        /\ UNCHANGED <<tracked, current>>
    BY <1>4 DEF StatesDone, Go, cycleVars
  <2>2. Held \subseteq tracked \cup current
    BY <2>1 DEF NoneUntracked
  <2>3. Configs(Held') \subseteq current' \cup todo'
    BY <2>1, <2>2, <1>2 DEF Configs
  <2>4. NoneUntracked'
    BY <2>1, <2>2, <2>3, <1>2 DEF NoneUntracked, Before
  <2>5. \A t : ~Counted(t) /\ ~Counted(t)'
    BY <2>1 DEF Counted
  <2> QED BY <2>4, <2>5, <1>1, <1>2 DEF NoneOverdue
<1>5. CASE ConfigsDone
  <2>1. /\ pc = "clear" /\ todo = {} /\ pc' = "miss"
        /\ todo' = (tracked \ current) \ Configs(tracked)
        /\ UNCHANGED <<tracked, current>>
    BY <1>1, <1>5 DEF ConfigsDone, Go
  <2>2. Held \subseteq tracked \cup current /\ Configs(Held) \subseteq current
    BY <2>1 DEF NoneUntracked
  <2>3. Held' \subseteq current' \cup todo'
    BY <2>1, <2>2, <1>2 DEF Configs
  <2>4. NoneUntracked'
    BY <2>1, <2>3 DEF NoneUntracked, Before
  <2>5. ASSUME NEW s \in Sensors, State(s) \in Held'
        PROVE  absent'[s] <= missing'[State(s)] + (IF Counted(State(s)) THEN 0 ELSE 1)'
    <3>1. State(s) \in Held
      BY <2>5, <1>2
    <3>2. CASE State(s) \in current
      BY <3>1, <3>2, <1>1, <1>3 DEF Counted
    <3>3. CASE State(s) \notin current
      <4>1. State(s) \in todo'
        BY <3>3, <2>3, <2>5, <2>1
      <4>2. ~Counted(State(s))' /\ ~Counted(State(s))
        BY <4>1, <2>1 DEF Counted
      <4> QED BY <4>2, <3>1, <1>1, <1>3
    <3> QED BY <3>2, <3>3
  <2> QED BY <2>4, <2>5, <1>1 DEF NoneOverdue
<1>6. CASE MissesDone
  <2>1. /\ pc = "miss" /\ todo = {} /\ pc' = "save" /\ UNCHANGED current
        /\ tracked' = current \cup {t \in Topics : missing[t] > 0}
    BY <1>6 DEF MissesDone, Go
  <2>2. NoneUntracked'
    BY <2>1, <1>1, <1>2 DEF NoneUntracked, Before
  <2>3. \A t : Counted(t) /\ Counted(t)'
    BY <2>1 DEF Counted
  <2> QED BY <2>2, <2>3, <1>1, <1>2 DEF NoneOverdue
<1>7. CASE Save
  <2>1. /\ pc = "save" /\ pc' = "flush" /\ current' = {} /\ tracked' = tracked
        /\ file' = [topics |-> tracked, missing |-> missing]
    BY <1>7 DEF Save, Go
  <2>2. NoneUntracked'
    BY <2>1, <1>1, <1>2 DEF NoneUntracked, Before
  <2>3. \A t : Counted(t) /\ Counted(t)'
    BY <2>1 DEF Counted
  <2> QED BY <2>2, <2>3, <1>1, <1>2 DEF NoneOverdue
<1> QED BY <1>4, <1>5, <1>6, <1>7

\* The other steps that a calm run takes leave what the broker will hold alone,
\* and what is remembered of it.
LEMMA TrackingElse ==
  ASSUME Basics, Calm, Calm', NoneUntracked, NoneOverdue,
         \/ Flush \/ Fail \/ Restart \/ Disconnect \/ Reconnect \/ SetDiscovery \/ SetRetain
         \/ UNCHANGED vars
  PROVE  NoneUntracked' /\ NoneOverdue'
<1>1. \A k : Upset(k) => k \in {"discovery", "displace"}
  BY DEF Upset, Disturb, Calm, Only
<1>2. TypeOK
  BY DEF Basics
<1>3. CASE Flush
  <2>1. pc = "flush" /\ pc' = "scan" /\ UNCHANGED <<tracked, missing, file, absent>>
    BY <1>3 DEF Flush, Go, cycleVars
  <2>2. Held' = Held
    BY <1>3, FlushKeeps DEF Held
  <2> QED BY <2>1, <2>2 DEF NoneUntracked, NoneOverdue, Before, Counted
<1>4. CASE Fail
  BY <1>1, <1>4 DEF Fail
<1>5. CASE SetRetain
  BY <1>1, <1>5 DEF SetRetain
<1>6. CASE Restart
  <2>1. /\ pc = "flush" /\ pc' = "flush" /\ UNCHANGED <<file, absent, retained, spool, lost>>
        /\ tracked' = file.topics
        /\ missing' = [t \in Topics |-> IF t \in file.topics THEN file.missing[t] ELSE 0]
    BY <1>1, <1>6 DEF Restart, Go
  <2>2. /\ file = [topics |-> tracked, missing |-> missing]
        /\ \A t \in Topics : missing[t] > 0 => t \in tracked
    BY <2>1 DEF NoneUntracked, Before
  <2>3. missing' = missing
    <3>1. \A t \in Topics : (IF t \in file.topics THEN file.missing[t] ELSE 0) = missing[t]
      BY <2>2, <1>2 DEF TypeOK
    <3>2. missing = [t \in Topics |-> missing[t]]
      BY <1>2 DEF TypeOK
    <3> QED BY <2>1, <3>1, <3>2
  <2>4. tracked' = tracked /\ Held' = Held
    BY <2>1, <2>2 DEF Held, Outcome
  <2> QED BY <2>1, <2>3, <2>4 DEF NoneUntracked, NoneOverdue, Before, Counted
<1>7. CASE Disconnect \/ Reconnect \/ SetDiscovery \/ UNCHANGED vars
  <2>1. UNCHANGED <<pc, todo, current, tracked, missing, file, absent, retained, spool, lost>>
    BY <1>7 DEF Disconnect, Reconnect, SetDiscovery, vars, cycleVars, brokerVars
  <2>2. Held' = Held
    BY <2>1 DEF Held, Outcome
  <2> QED BY <2>1, <2>2 DEF NoneUntracked, NoneOverdue, Before, Counted
<1> QED BY <1>3, <1>4, <1>5, <1>6, <1>7

LEMMA TrackingStep ==
  ASSUME Basics, Tracking, [Next]_vars
  PROVE  Tracking'
<1>1. SUFFICES ASSUME Calm' PROVE NoneUntracked' /\ NoneOverdue'
  BY DEF Tracking
<1>2. Calm
  BY <1>1, UpsetsGrow DEF Calm, Only
<1>3. NoneUntracked /\ NoneOverdue
  BY <1>2 DEF Tracking
<1>4. TypeOK /\ Shape /\ RetainedAssumption
  BY RetainedAssumption DEF Basics
<1>5. CASE PublishState
  <2> DEFINE s == First(todo)
             p == IF retain THEN "keep" ELSE "pass"
  <2>1. /\ pc = "state" /\ todo # {} /\ PublishOrCache(State(s), p)
        /\ missing' = [missing EXCEPT ![State(s)] = 0]
        /\ current' = current \cup {State(s)} /\ pc' \in {"state", "config"}
        /\ UNCHANGED <<tracked, absent>>
    BY <1>5 DEF PublishState, Go
  <2>2. s \in exported /\ s \in Sensors
    BY <2>1, <1>4, FirstTodo
  <2> HIDE DEF s
  <2>3. State(s) \in Topics /\ State(s)[1] = s
    BY <2>2, TopicTypes
  <2>4. p \in Payloads
    BY DEF Payloads
  <2> HIDE DEF p
  <2> QED BY <2>1, <2>2, <2>3, <2>4, <1>1, <1>2, <1>3, TrackingPublish
<1>6. CASE PublishConfig
  <2> DEFINE s == First(todo)
  <2>1. /\ pc = "config" /\ PublishOrCache(Config(s), "keep")
        /\ missing' = [missing EXCEPT ![Config(s)] = 0]
        /\ current' = current \cup {Config(s)} /\ pc' = "state"
        /\ UNCHANGED <<tracked, absent>>
    BY <1>6 DEF PublishConfig, Go
  <2>2. s \in exported /\ s \in Sensors
    BY <2>1, <1>4, FirstTodo DEF Shape
  <2> HIDE DEF s
  <2>3. Config(s) \in Topics /\ Config(s)[1] = s /\ "keep" \in Payloads
    BY <2>2, TopicTypes DEF Payloads
  <2> QED BY <2>1, <2>2, <2>3, <1>1, <1>2, <1>3, TrackingPublish
<1>7. CASE ClearConfig
  <2>1. pc = "clear" /\ UNCHANGED <<tracked, current, absent>>
    BY <1>7 DEF ClearConfig
  <2>2. PICK t \in todo : /\ PublishOrCache(t, "clear")
                          /\ missing' = [missing EXCEPT ![t] = 0]
                          /\ pc' = "clear" /\ todo' = todo \ {t}
    BY <1>7 DEF ClearConfig, Go
  <2> QED BY <2>1, <2>2, <1>1, <1>2, <1>3, TrackingClear
<1>8. CASE CountMiss
  <2>1. pc = "miss" /\ UNCHANGED <<tracked, current, absent>>
    BY <1>8 DEF CountMiss
  <2>2. PICK t \in todo :
            /\ \/ /\ Misses(t) < StaleCycles
                  /\ missing' = [missing EXCEPT ![t] = Misses(t)]
                  /\ UNCHANGED brokerVars
               \/ /\ PublishOrCache(t, "clear")
                  /\ missing' = [missing EXCEPT ![t] = 0]
            /\ pc' = "miss" /\ todo' = todo \ {t}
    BY <1>8 DEF CountMiss, Go
  <2>3. CASE PublishOrCache(t, "clear") /\ missing' = [missing EXCEPT ![t] = 0]
    BY <2>1, <2>2, <2>3, <1>1, <1>2, <1>3, TrackingClear
  <2>4. CASE /\ Misses(t) < StaleCycles /\ UNCHANGED brokerVars
             /\ missing' = [missing EXCEPT ![t] = Misses(t)]
    BY <2>1, <2>2, <2>4, <1>2, <1>3, TrackingCount
  <2> QED BY <2>2, <2>3, <2>4
<1>9. CASE Scan
  BY <1>2, <1>3, <1>9, TrackingScan
<1>10. CASE StatesDone \/ ConfigsDone \/ MissesDone \/ Save
  BY <1>2, <1>3, <1>10, TrackingPhase
<1>11. CASE \/ Flush \/ Fail \/ Restart \/ Disconnect \/ Reconnect \/ SetDiscovery \/ SetRetain
            \/ UNCHANGED vars
  BY <1>1, <1>2, <1>3, <1>11, TrackingElse
<1> QED BY <1>5, <1>6, <1>7, <1>8, <1>9, <1>10, <1>11 DEF Next, Cycle

-----------------------------------------------------------------------------
(***************************************************************************)
(* ClearedOnlyAfterMisses.  A state topic is never counted more often than *)
(* its sensor was absent, neither in memory nor, between two cycles, in the*)
(* file; and the topics still to be counted in a cycle are behind by the   *)
(* absence of that cycle.                                                  *)
(***************************************************************************)
Steady == Only({"reconnect", "late", "discovery", "retain"})
Passed(s) == State(s) \in current /\ missing[State(s)] = 0
Due(s) == missing[State(s)] + 1 <= absent[s] \/ absent[s] = StaleCycles

NoneEarly ==
    /\ pc \in {"flush", "scan", "miss", "save"} =>
          \A s \in Sensors : missing[State(s)] <= absent[s]
    /\ Before => \A s \in Sensors : file.missing[State(s)] <= absent[s]
    /\ pc \in {"state", "config"} => \A s \in exported : State(s) \in todo \/ Passed(s)
    /\ pc = "config" => Passed(First(todo))
    /\ pc \in {"clear", "miss"} => \A s \in exported : Passed(s)
    /\ \A s \in Sensors \ exported : ~Counted(State(s)) => Due(s)

Counting == Steady => NoneEarly

\* Publishing, and clearing config topics, count nothing.
LEMMA CountingPublish ==
  ASSUME Basics, NoneEarly, PublishState \/ PublishConfig \/ ClearConfig
  PROVE  NoneEarly'
<1>1. TypeOK /\ Shape /\ RetainedAssumption
  BY RetainedAssumption DEF Basics
<1>2. \A s, u \in Sensors : State(s) # Config(u) /\ (State(s) = State(u) => s = u)
  BY DEF State, Config
<1>3. \A s \in Sensors : State(s) \in Topics
  BY TopicTypes
<1>4. CASE PublishState
  <2>0. PICK s \in exported : s = First(todo) /\ s \in Sensors
    BY <1>1, <1>4, FirstTodo DEF PublishState
  <2>1. /\ pc = "state" /\ todo # {}
        /\ missing' = [missing EXCEPT ![State(s)] = 0]
        /\ current' = current \cup {State(s)}
        /\ \/ pc' = "config" /\ todo' = todo
           \/ pc' = "state" /\ todo' = todo \ {State(s)}
        /\ UNCHANGED <<exported, absent>>
    BY <2>0, <1>4 DEF PublishState, Go
  <2>2. s \in exported /\ s \in Sensors
    BY <2>0
  <2>3. pc' = "config" => First(todo)' = s
    BY <2>0, <2>1 DEF First
  <2>4. missing'[State(s)] = 0 /\ \A u \in Sensors : u # s => missing'[State(u)] = missing[State(u)]
    BY <2>1, <2>2, <1>1, <1>2, <1>3 DEF TypeOK
  <2>5. Passed(s)' /\ \A u \in Sensors : Passed(u) => Passed(u)'
    BY <2>1, <2>4 DEF Passed
  <2>6. \A u \in exported : State(u) \in todo' \/ Passed(u)'
    <3>1. \A u \in exported : u \in Sensors
      BY <1>1 DEF TypeOK
    <3> QED BY <3>1, <2>1, <2>2, <2>5, <1>2 DEF NoneEarly
  <2>7. \A u \in Sensors \ exported : Due(u)'
    <3>1. \A u \in Sensors \ exported : Due(u) /\ u # s
      BY <2>1, <2>2 DEF NoneEarly, Counted
    <3> QED BY <3>1, <2>1, <2>4 DEF Due
  <2>8. pc' = "config" => Passed(First(todo))'
    BY <2>3, <2>5 DEF Passed
  <2> QED BY <2>1, <2>3, <2>5, <2>6, <2>7, <2>8 DEF NoneEarly, Before
<1>5. CASE PublishConfig
  <2> DEFINE s == First(todo)
  <2>1. /\ pc = "config" /\ pc' = "state"
        /\ missing' = [missing EXCEPT ![Config(s)] = 0]
        /\ current' = current \cup {Config(s)}
        /\ todo' = todo \ {State(s)}
        /\ UNCHANGED <<exported, absent>>
    BY <1>5 DEF PublishConfig, Go
  <2>2. s \in exported /\ s \in Sensors /\ Passed(s)
    BY <2>1, <1>1, FirstTodo DEF Shape, NoneEarly
  <2> HIDE DEF s
  <2>3. \A u \in Sensors : missing'[State(u)] = missing[State(u)]
    BY <2>1, <2>2, <1>1, <1>2, <1>3 DEF TypeOK
  <2>4. \A u \in Sensors : Passed(u) => Passed(u)'
    BY <2>1, <2>3 DEF Passed
  <2>5. \A u \in exported : State(u) \in todo' \/ Passed(u)'
    <3>1. \A u \in exported : u \in Sensors /\ (State(u) \in todo \/ Passed(u))
      BY <2>1, <1>1 DEF TypeOK, NoneEarly
    <3> QED BY <3>1, <2>1, <2>2, <2>4, <1>2
  <2>6. \A u \in Sensors \ exported : Due(u)'
    <3>1. \A u \in Sensors \ exported : Due(u)
      BY <2>1 DEF NoneEarly, Counted
    <3> QED BY <3>1, <2>1, <2>3 DEF Due
  <2> QED BY <2>1, <2>5, <2>6 DEF NoneEarly, Before
<1>6. CASE ClearConfig
  <2>1. pc = "clear" /\ pc' = "clear" /\ UNCHANGED <<current, exported, absent>>
    BY <1>6 DEF ClearConfig, Go
  <2>2. PICK t \in todo : missing' = [missing EXCEPT ![t] = 0]
    BY <1>6 DEF ClearConfig
  <2>3. t[2] = "config"
    BY <2>1, <1>1 DEF Shape, Configs
  <2>4. \A u \in Sensors : missing'[State(u)] = missing[State(u)]
    <3>1. \A u \in Sensors : State(u) # t
      BY <2>3, TopicTypes
    <3> QED BY <3>1, <2>2, <1>1, <1>3 DEF TypeOK
  <2>5. \A u \in exported : Passed(u)'
    <3>1. \A u \in exported : u \in Sensors /\ Passed(u)
      BY <2>1, <1>1 DEF TypeOK, NoneEarly
    <3> QED BY <3>1, <2>1, <2>4 DEF Passed
  <2>6. \A u \in Sensors \ exported : Due(u)'
    <3>1. \A u \in Sensors \ exported : Due(u)
      BY <2>1 DEF NoneEarly, Counted
    <3> QED BY <3>1, <2>1, <2>4 DEF Due
  <2> QED BY <2>1, <2>5, <2>6 DEF NoneEarly, Before
<1> QED BY <1>4, <1>5, <1>6

\* The topic that is counted is due, so that its sensor is absent.
LEMMA CountedIsDue ==
  ASSUME Basics, NoneEarly, pc = "miss", NEW s \in Sensors, State(s) \in todo
  PROVE  s \notin exported /\ Due(s)
<1>1. State(s) \notin current
  BY DEF Basics, Shape
<1>2. s \notin exported
  BY <1>1 DEF NoneEarly, Passed
<1>3. ~Counted(State(s))
  BY DEF Counted
<1> QED BY <1>2, <1>3 DEF NoneEarly

LEMMA CountingCount ==
  ASSUME Basics, NoneEarly, CountMiss
  PROVE  NoneEarly'
<1>1. TypeOK /\ Shape /\ RetainedAssumption
  BY RetainedAssumption DEF Basics
<1>2. pc = "miss" /\ pc' = "miss" /\ UNCHANGED <<current, exported, absent>>
  BY DEF CountMiss, Go
<1>3. PICK t \in todo :
        /\ \/ missing' = [missing EXCEPT ![t] = Misses(t)]
           \/ missing' = [missing EXCEPT ![t] = 0]
        /\ todo' = todo \ {t}
  BY DEF CountMiss, Go
<1>4. t \in Topics /\ t \notin current
  BY <1>1, <1>2 DEF TypeOK, Shape
<1>5. \A s \in Sensors : /\ State(s) \in Topics /\ missing[State(s)] \in 0 .. StaleCycles
                         /\ absent[s] \in 0 .. StaleCycles
                         /\ State(s) # t => missing'[State(s)] = missing[State(s)]
  BY <1>1, <1>3, TopicTypes DEF TypeOK
<1>6. ASSUME NEW s \in Sensors
      PROVE  missing'[State(s)] <= absent'[s]
  <2>1. CASE State(s) # t
    BY <2>1, <1>2, <1>5 DEF NoneEarly
  <2>2. CASE State(s) = t
    <3>1. Due(s)
      BY <2>2, <1>2, <1>3, CountedIsDue
    <3>2. Misses(t) <= missing[t] + 1 /\ Misses(t) \in 0 .. StaleCycles
      BY <1>1, <1>4, <1>5, <2>2, MissesType DEF RetainedAssumption
    <3>3. missing'[t] = Misses(t) \/ missing'[t] = 0
      BY <1>1, <1>3, <1>4 DEF TypeOK
    <3>4. StaleCycles \in Nat
      BY <1>1 DEF RetainedAssumption
    <3> QED BY <3>1, <3>2, <3>3, <3>4, <2>2, <1>2, <1>5 DEF Due
  <2> QED BY <2>1, <2>2
<1>7. \A s \in exported : Passed(s)'
  <2>1. \A s \in exported : s \in Sensors /\ Passed(s)
    BY <1>1, <1>2 DEF NoneEarly, TypeOK
  <2> QED BY <2>1, <1>2, <1>4, <1>5 DEF Passed
<1>8. ASSUME NEW s \in Sensors \ exported, ~Counted(State(s))'
      PROVE  Due(s)'
  <2>1. State(s) # t /\ ~Counted(State(s))
    BY <1>2, <1>3, <1>8 DEF Counted
  <2>2. Due(s)
    BY <2>1 DEF NoneEarly
  <2> QED BY <2>1, <2>2, <1>2, <1>5 DEF Due
<1> QED BY <1>2, <1>6, <1>7, <1>8 DEF NoneEarly, Before

LEMMA CountingScan ==
  ASSUME Basics, NoneEarly, Scan
  PROVE  NoneEarly'
<1>1. pc = "scan" /\ pc' = "state" /\ UNCHANGED missing
  BY DEF Scan, Go
<1>2. /\ \A s \in exported' : State(s) \in todo'
      /\ \A s \in Sensors \ exported' : absent'[s] = Min({absent[s] + 1, StaleCycles})
  BY DEF Scan, Go
<1>3. ASSUME NEW s \in Sensors \ exported'
      PROVE  Due(s)'
  <2>1. /\ absent[s] \in Nat /\ StaleCycles \in Nat /\ absent[s] + 1 \in Nat
        /\ missing[State(s)] \in Nat
    BY RetainedAssumption, TopicTypes DEF Basics, TypeOK, RetainedAssumption
  <2>2. absent'[s] = IF absent[s] + 1 <= StaleCycles THEN absent[s] + 1 ELSE StaleCycles
    BY <2>1, <1>2, MinOfTwo
  <2>3. missing[State(s)] <= absent[s]
    BY <1>1 DEF NoneEarly
  <2> QED BY <2>1, <2>2, <2>3, <1>1 DEF Due
<1> QED BY <1>1, <1>2, <1>3 DEF NoneEarly, Before

LEMMA CountingPhase ==
  ASSUME Basics, NoneEarly, StatesDone \/ ConfigsDone \/ MissesDone \/ Save
  PROVE  NoneEarly'
<1>1. UNCHANGED <<absent, missing, exported>> /\ TypeOK
  BY DEF StatesDone, ConfigsDone, MissesDone, Save, cycleVars, Basics
<1>2. CASE StatesDone
  <2>1. pc = "state" /\ todo = {} /\ pc' = "clear" /\ UNCHANGED current
    BY <1>2 DEF StatesDone, Go, cycleVars
  <2> QED BY <2>1, <1>1 DEF NoneEarly, Before, Passed, Due, Counted
<1>3. CASE ConfigsDone
  <2>1. pc = "clear" /\ pc' \in {"miss", "save"} /\ UNCHANGED current
    BY <1>3 DEF ConfigsDone, Go
  <2>2. ASSUME NEW s \in Sensors
        PROVE  missing[State(s)] <= absent[s]
    <3>1. /\ missing[State(s)] \in 0 .. StaleCycles /\ absent[s] \in 0 .. StaleCycles
          /\ StaleCycles \in Nat
      BY <1>1, TopicTypes, RetainedAssumption DEF TypeOK, RetainedAssumption
    <3>2. CASE s \in exported
      BY <3>1, <3>2, <2>1 DEF NoneEarly, Passed
    <3>3. CASE s \notin exported
      <4>1. Due(s)
        BY <3>3, <2>1 DEF NoneEarly, Counted
      <4> QED BY <4>1, <3>1 DEF Due
    <3> QED BY <3>2, <3>3
  <2>3. \A s \in Sensors \ exported : Due(s)
    BY <2>1 DEF NoneEarly, Counted
  <2> QED BY <2>1, <2>2, <2>3, <1>1 DEF NoneEarly, Before, Passed, Due
<1>4. CASE MissesDone
  <2>1. pc = "miss" /\ pc' = "save"
    BY <1>4 DEF MissesDone, Go
  <2> QED BY <2>1, <1>1 DEF NoneEarly, Before, Counted
<1>5. CASE Save
  <2>1. pc = "save" /\ pc' = "flush" /\ file' = [topics |-> tracked, missing |-> missing]
    BY <1>5 DEF Save, Go
  <2> QED BY <2>1, <1>1 DEF NoneEarly, Before, Counted
<1> QED BY <1>2, <1>3, <1>4, <1>5

LEMMA CountingElse ==
  ASSUME Basics, Steady', NoneEarly,
         \/ Flush \/ Fail \/ Restart \/ Disconnect \/ Reconnect \/ SetDiscovery \/ SetRetain
         \/ UNCHANGED vars
  PROVE  NoneEarly'
<1>1. ~Upset("raise") /\ ~Upset("crash")
  BY DEF Upset, Disturb, Steady, Only
<1>2. CASE Flush
  <2>1. pc = "flush" /\ pc' = "scan" /\ UNCHANGED <<missing, file, absent>>
    BY <1>2 DEF Flush, Go, cycleVars
  <2> QED BY <2>1 DEF NoneEarly, Before, Counted
<1>3. CASE Fail
  BY <1>1, <1>3 DEF Fail
<1>4. CASE Restart
  <2>1. /\ pc = "flush" /\ pc' = "flush" /\ UNCHANGED <<file, absent>>
        /\ missing' = [t \in Topics |-> IF t \in file.topics THEN file.missing[t] ELSE 0]
    BY <1>1, <1>4 DEF Restart, Go
  <2>2. \A s \in Sensors : missing'[State(s)] <= absent'[s]
    <3>1. \A s \in Sensors : absent[s] \in Nat /\ State(s) \in Topics
      BY TopicTypes DEF Basics, TypeOK
    <3> QED BY <3>1, <2>1 DEF NoneEarly, Before
  <2> QED BY <2>1, <2>2 DEF NoneEarly, Before, Counted
<1>5. CASE Disconnect \/ Reconnect \/ SetDiscovery \/ SetRetain \/ UNCHANGED vars
  <2>1. UNCHANGED <<pc, todo, exported, current, missing, file, absent>>
    BY <1>5 DEF Disconnect, Reconnect, SetDiscovery, SetRetain, vars, cycleVars
  <2>2. Passed(First(todo))' <=> Passed(First(todo))
    BY <2>1 DEF Passed
  <2> QED BY <2>1, <2>2 DEF NoneEarly, Before, Counted, Passed, Due
<1> QED BY <1>2, <1>3, <1>4, <1>5

LEMMA CountingStep ==
  ASSUME Basics, Counting, [Next]_vars
  PROVE  Counting'
<1>1. SUFFICES ASSUME Steady' PROVE NoneEarly'
  BY DEF Counting
<1>2. NoneEarly
  BY <1>1, UpsetsGrow DEF Counting, Steady, Only
<1>3. CASE PublishState \/ PublishConfig \/ ClearConfig
  BY <1>2, <1>3, CountingPublish
<1>4. CASE CountMiss
  BY <1>2, <1>4, CountingCount
<1>5. CASE Scan
  BY <1>2, <1>5, CountingScan
<1>6. CASE StatesDone \/ ConfigsDone \/ MissesDone \/ Save
  BY <1>2, <1>6, CountingPhase
<1>7. CASE \/ Flush \/ Fail \/ Restart \/ Disconnect \/ Reconnect \/ SetDiscovery \/ SetRetain
           \/ UNCHANGED vars
  BY <1>1, <1>2, <1>7, CountingElse
<1> QED BY <1>3, <1>4, <1>5, <1>6, <1>7 DEF Next, Cycle

\* A step takes a state topic away from what the broker will hold only when it
\* counts the last of stale_cycles absences.
LEMMA SteadyStep ==
  ASSUME Basics, Counting, [Next]_vars, Steady',
         NEW s \in Sensors, State(s) \in Outcome, State(s) \notin Outcome'
  PROVE  absent[s] >= StaleCycles
<1>1. TypeOK /\ Shape /\ RetainedAssumption /\ State(s) \in Topics /\ State(s)[2] = "state"
  BY RetainedAssumption, TopicTypes DEF Basics
<1>2. NoneEarly
  BY UpsetsGrow DEF Counting, Steady, Only
<1>3. ASSUME NEW t \in Topics, NEW p \in Payloads, PublishOrCache(t, p)
      PROVE  t = State(s) /\ p = "clear"
  <2>1. "displace" \notin upsets'
    BY DEF Steady, Only
  <2> QED BY <2>1, <1>3, PublishTakesNothing
<1>4. ~(spool' = spool /\ retained' = retained)
  BY DEF Outcome
<1>5. CASE PublishState
  <2>1. First(todo) \in Sensors
    BY <1>1, <1>5, FirstTodo DEF PublishState
  <2>2. PublishOrCache(State(First(todo)), IF retain THEN "keep" ELSE "pass")
    BY <1>5 DEF PublishState
  <2> QED BY <2>1, <2>2, <1>3, TopicTypes DEF Payloads
<1>6. CASE PublishConfig
  <2>1. First(todo) \in Sensors
    BY <1>1, <1>6, FirstTodo DEF PublishConfig, Shape
  <2>2. PublishOrCache(Config(First(todo)), "keep")
    BY <1>6 DEF PublishConfig
  <2> QED BY <2>1, <2>2, <1>3, TopicTypes DEF Payloads
<1>7. CASE ClearConfig
  <2>1. PICK t \in todo : pc = "clear" /\ PublishOrCache(t, "clear")
    BY <1>7 DEF ClearConfig
  <2>2. t \in Topics /\ t[2] = "config"
    BY <2>1, <1>1 DEF TypeOK, Shape, Configs
  <2> QED BY <2>1, <2>2, <1>1, <1>3 DEF Payloads
<1>8. CASE CountMiss
  <2>1. pc = "miss"
    BY <1>8 DEF CountMiss
  <2>2. PICK t \in todo : \/ UNCHANGED brokerVars
                          \/ Misses(t) >= StaleCycles /\ PublishOrCache(t, "clear")
    BY <1>8 DEF CountMiss
  <2>3. t \in Topics
    BY <1>1 DEF TypeOK
  <2>4. t = State(s) /\ Misses(t) >= StaleCycles
    BY <2>2, <2>3, <1>3, <1>4 DEF brokerVars, Payloads
  <2>5. Due(s)
    BY <2>1, <2>4, <1>2, CountedIsDue
  <2>6. /\ missing[t] \in Nat /\ absent[s] \in Nat /\ StaleCycles \in Nat
        /\ missing[t] + 1 >= StaleCycles
    BY <2>3, <2>4, <1>1, MissesType DEF TypeOK, RetainedAssumption
  <2> QED BY <2>4, <2>5, <2>6 DEF Due
<1>9. CASE Flush
  BY <1>9, FlushKeeps
<1>10. CASE Scan \/ StatesDone \/ ConfigsDone \/ MissesDone \/ Save
  BY <1>4, <1>10 DEF Scan, StatesDone, ConfigsDone, MissesDone, Save, brokerVars
<1>11. CASE \/ Fail \/ Restart \/ Disconnect \/ Reconnect \/ SetDiscovery \/ SetRetain
            \/ UNCHANGED vars
  BY <1>4, <1>11 DEF Fail, Restart, Disconnect, Reconnect, SetDiscovery, SetRetain, vars, brokerVars
<1> QED BY <1>5, <1>6, <1>7, <1>8, <1>9, <1>10, <1>11 DEF Next, Cycle

-----------------------------------------------------------------------------
\* PublishedIsHeld is inductive by itself, given the basics.
LEMMA PublishedStep ==
  ASSUME Basics, PublishedIsHeld, [Next]_vars
  PROVE  PublishedIsHeld'
<1> DEFINE Kinds == UpsetKinds \ {"reconnect", "late", "displace"}
<1>1. SUFFICES ASSUME retain', upsets' \subseteq Kinds, NEW u \in current'
               PROVE  u \in Outcome'
  BY DEF PublishedIsHeld, Only
<1>2. upsets \subseteq upsets' /\ upsets' \cap {"reconnect", "late", "displace"} = {}
  BY <1>1, UpsetsGrow
<1>3. retain
  <2>1. "retain" \notin upsets'
    BY <1>1, BasicsStep DEF Basics, Queue
  <2> QED BY <2>1, <1>2 DEF Basics, Queue
<1>4. current \subseteq Outcome
  BY <1>1, <1>2, <1>3 DEF PublishedIsHeld, Only
<1>5. TypeOK /\ Shape /\ RetainedAssumption
  BY RetainedAssumption DEF Basics
<1>6. ASSUME NEW t \in Topics, PublishOrCache(t, "keep"), current' = current \cup {t}, pc # "flush"
      PROVE  u \in Outcome'
  <2>1. CASE u \in current
    BY <2>1, <1>2, <1>4, <1>6, PublishTakesNothing DEF Payloads
  <2>2. CASE u = t
    BY <2>2, <1>2, <1>6, PublishHolds
  <2> QED BY <2>1, <2>2, <1>1, <1>6
<1>7. ASSUME NEW t \in todo, PublishOrCache(t, "clear"), current' = current, pc \in {"clear", "miss"}
      PROVE  u \in Outcome'
  <2>1. t \in Topics /\ u \in current /\ u # t
    BY <1>1, <1>5, <1>7 DEF TypeOK, Shape
  <2> QED BY <2>1, <1>2, <1>4, <1>7, PublishTakesNothing DEF Payloads
<1>8. CASE PublishState
  <2>1. /\ pc = "state" /\ todo # {} /\ current' = current \cup {State(First(todo))}
        /\ PublishOrCache(State(First(todo)), "keep")
    BY <1>3, <1>8 DEF PublishState
  <2>2. State(First(todo)) \in Topics
    BY <2>1, <1>5, FirstTodo, TopicTypes
  <2> QED BY <2>1, <2>2, <1>6
<1>9. CASE PublishConfig
  <2>1. /\ pc = "config" /\ current' = current \cup {Config(First(todo))}
        /\ PublishOrCache(Config(First(todo)), "keep")
    BY <1>9 DEF PublishConfig
  <2>2. Config(First(todo)) \in Topics
    BY <2>1, <1>5, FirstTodo, TopicTypes DEF Shape
  <2> QED BY <2>1, <2>2, <1>6
<1>10. CASE ClearConfig
  BY <1>7, <1>10 DEF ClearConfig
<1>11. CASE CountMiss
  <2>1. PICK t \in todo : UNCHANGED brokerVars \/ PublishOrCache(t, "clear")
    BY <1>11 DEF CountMiss
  <2>2. pc = "miss" /\ current' = current
    BY <1>11 DEF CountMiss
  <2> QED BY <2>1, <2>2, <1>1, <1>4, <1>7 DEF brokerVars, Outcome
<1>12. CASE Flush
  BY <1>1, <1>5, <1>12 DEF Flush, cycleVars, Shape, Before
<1>13. CASE Scan \/ Save \/ Fail \/ Restart
  BY <1>1, <1>13 DEF Scan, Save, Fail, Restart
<1>14. CASE StatesDone \/ ConfigsDone \/ MissesDone
  BY <1>1, <1>4, <1>14 DEF StatesDone, ConfigsDone, MissesDone, cycleVars, brokerVars, Outcome
<1>15. CASE Disconnect \/ Reconnect \/ SetDiscovery \/ SetRetain \/ UNCHANGED vars
  BY <1>1, <1>4, <1>15
     DEF Disconnect, Reconnect, SetDiscovery, SetRetain, vars, cycleVars, brokerVars, Outcome
<1> QED BY <1>8, <1>9, <1>10, <1>11, <1>12, <1>13, <1>14, <1>15 DEF Next, Cycle

-----------------------------------------------------------------------------
(***************************************************************************)
(* The second part of ClearedOnlyAfterMisses: a clearing that waits in the *)
(* spool with no newer state of its topic behind it is that of a sensor    *)
(* that has been absent long enough, or that this cycle has found and is   *)
(* about to publish.                                                       *)
(***************************************************************************)
Plain == Only({"discovery"})
Ahead(s) == pc \in {"state", "config"} /\ State(s) \in todo
Pending(t) == ClearedFrom(spool, t, 1) /\ t \notin Outcome

NoneLeftOver == \A s \in Sensors : Pending(State(s)) => absent[s] >= StaleCycles \/ Ahead(s)
Clearings == Plain => NoneLeftOver

LEMMA ClearedAppend ==
  ASSUME NEW rows \in Seq(Rows), NEW t \in Topics, NEW p \in Payloads, NEW u,
         ClearedFrom(Append(rows, Row(t, p)), u, 1)
  PROVE  ClearedFrom(rows, u, 1) \/ (u = t /\ p = "clear")
<1> DEFINE more == Append(rows, Row(t, p))
           n == Len(rows)
<1>1. /\ n \in Nat /\ Len(more) = n + 1 /\ more[n + 1] = Row(t, p)
      /\ \A i \in 1 .. n : more[i] = rows[i]
  <2>1. Row(t, p) \in Rows
    BY DEF Row, Rows
  <2> QED BY <2>1, AppendProperties, LenProperties
<1>2. PICK j \in 1 .. Len(more) : more[j] = Row(u, "clear")
  BY DEF ClearedFrom
<1> HIDE DEF more
<1>3. CASE j \in 1 .. n
  BY <1>1, <1>2, <1>3 DEF ClearedFrom, n
<1>4. CASE j = n + 1
  BY <1>1, <1>2, <1>4 DEF Row
<1> QED BY <1>1, <1>2, <1>3, <1>4

\* A publish leaves no clearing in the spool that was not there, except its own; and what
\* it takes from the broker at once was not to be cleared by the spool.
LEMMA PendingPublish ==
  ASSUME Basics, Plain', pc # "flush", NEW t \in Topics, NEW p \in Payloads,
         PublishOrCache(t, p), NEW u
  PROVE  /\ Pending(u)' => Pending(u) \/ (u = t /\ p = "clear")
         /\ u \in retained /\ u \notin retained' => u \in Outcome
<1>1. spool \in Seq(Rows) /\ retained \in SUBSET Topics /\ TypeOK
  BY DEF Basics, TypeOK
<1>2. upsets' \cap {"reconnect", "late", "displace"} = {} /\ upsets \subseteq upsets'
  <2>1. upsets \subseteq upsets'
    BY <1>1, QueuedRow DEF PublishOrCache, Row
  <2> QED BY <2>1 DEF Plain, Only
<1>3. connected => spool = <<>>
  BY <1>2 DEF Basics, Queue
<1>4. CASE connected /\ UNCHANGED spool
  <2>1. Outcome = retained
    BY <1>1, <1>3, <1>4, AfterNothing DEF Outcome
  <2>2. ~ClearedFrom(spool', u, 1)
    BY <1>3, <1>4 DEF ClearedFrom
  <2> QED BY <2>1, <2>2 DEF Pending
<1>5. CASE Enqueue(Row(t, p), {}) /\ UNCHANGED retained
  <2>0. "displace" \notin upsets'
    BY <1>2
  <2>1. spool' = Append(spool, Row(t, p))
    BY <2>0, <1>1, <1>5, QueuedRow
  <2>2. ASSUME Pending(u)', ~(u = t /\ p = "clear")
        PROVE  Pending(u)
    <3>1. ClearedFrom(spool, u, 1)
      BY <2>1, <2>2, <1>1, ClearedAppend DEF Pending
    <3>2. u \notin Outcome
      BY <2>2, <1>2, PublishTakesNothing DEF Pending
    <3> QED BY <3>1, <3>2 DEF Pending
  <2> QED BY <2>2, <1>5
<1>6. CASE Enqueue(Row(t, p), {"late"})
  <2>1. "late" \in upsets'
    BY <1>1, <1>6, QueuedRow
  <2> QED BY <2>1, <1>2
<1> QED BY <1>4, <1>5, <1>6 DEF PublishOrCache, Row

LEMMA ClearingsPublish ==
  ASSUME Basics, NoneEarly, NoneLeftOver, PublishedIsHeld, Plain', Plain,
         PublishState \/ PublishConfig
  PROVE  NoneLeftOver'
<1>1. TypeOK /\ Shape /\ RetainedAssumption
  BY RetainedAssumption DEF Basics
<1>2. retain /\ current \subseteq Outcome /\ upsets' \cap {"reconnect", "late", "displace"} = {}
  <2>1. retain
    BY DEF Basics, Queue, Plain, Only
  <2> QED BY <2>1 DEF PublishedIsHeld, Plain, Only, UpsetKinds
<1>3. PICK f \in exported : f = First(todo) /\ f \in Sensors /\ State(f) \in Topics /\ Config(f) \in Topics
  <2>1. todo # {} /\ pc \in {"state", "config"}
    BY <1>1 DEF PublishState, PublishConfig, Shape
  <2> QED BY <2>1, <1>1, FirstTodo, TopicTypes
<1>4. ASSUME NEW s \in Sensors, Pending(State(s))', ~Ahead(s)'
      PROVE  absent'[s] >= StaleCycles
  <2>1. UNCHANGED absent /\ pc \in {"state", "config"} /\ pc # "flush"
    BY DEF PublishState, PublishConfig
  <2>2. Pending(State(s))
    <3>1. CASE PublishState
      <4>1. PublishOrCache(State(f), "keep")
        BY <3>1, <1>2, <1>3 DEF PublishState
      <4> QED BY <4>1, <1>3, <1>4, <2>1, PendingPublish DEF Payloads
    <3>2. CASE PublishConfig
      <4>1. PublishOrCache(Config(f), "keep")
        BY <3>2, <1>3 DEF PublishConfig
      <4> QED BY <4>1, <1>3, <1>4, <2>1, PendingPublish DEF Payloads
    <3> QED BY <3>1, <3>2
  <2>3. s # f
    <3>1. CASE PublishState
      <4>1. PublishOrCache(State(f), "keep")
        BY <3>1, <1>2, <1>3 DEF PublishState
      <4>2. State(f) \in Outcome'
        BY <4>1, <1>2, <1>3, <2>1, PublishHolds
      <4> QED BY <4>2, <1>4 DEF Pending
    <3>2. CASE PublishConfig
      <4>1. State(f) \in Outcome
        BY <3>2, <1>2, <1>3 DEF PublishConfig, NoneEarly, Passed
      <4> QED BY <4>1, <2>2 DEF Pending
    <3> QED BY <3>1, <3>2
  <2>4. todo' = todo \/ todo' = todo \ {State(f)}
    BY <1>3 DEF PublishState, PublishConfig, Go
  <2>5. pc' \in {"state", "config"} /\ State(s) # State(f)
    BY <2>3 DEF PublishState, PublishConfig, Go, State
  <2>6. ~Ahead(s)
    BY <2>1, <2>4, <2>5, <1>4 DEF Ahead
  <2> QED BY <2>1, <2>2, <2>6 DEF NoneLeftOver
<1> QED BY <1>4 DEF NoneLeftOver

LEMMA ClearingsClear ==
  ASSUME Basics, NoneEarly, NoneLeftOver, Plain', ClearConfig \/ CountMiss
  PROVE  NoneLeftOver'
<1>1. TypeOK /\ Shape /\ RetainedAssumption
  BY RetainedAssumption DEF Basics
<1>2. pc \in {"clear", "miss"} /\ UNCHANGED absent
  BY DEF ClearConfig, CountMiss
<1>3. ASSUME NEW s \in Sensors, Pending(State(s))'
      PROVE  absent[s] >= StaleCycles
  <2>1. CASE Pending(State(s))
    BY <2>1, <1>2 DEF NoneLeftOver, Ahead
  <2>2. CASE ~Pending(State(s))
    <3>1. PICK t \in todo :
            \/ UNCHANGED brokerVars
            \/ /\ PublishOrCache(t, "clear")
               /\ pc = "clear" \/ (pc = "miss" /\ Misses(t) >= StaleCycles)
      <4>1. CASE ClearConfig
        BY <4>1 DEF ClearConfig
      <4>2. CASE CountMiss
        BY <4>2 DEF CountMiss
      <4> QED BY <4>1, <4>2
    <3>2. t \in Topics
      BY <1>1 DEF TypeOK
    <3>3. ~UNCHANGED brokerVars
      BY <2>2, <1>3 DEF brokerVars, Pending, Outcome
    <3>4. t = State(s)
      BY <2>2, <3>1, <3>2, <3>3, <1>2, <1>3, PendingPublish DEF Payloads
    <3>5. pc = "miss" /\ Misses(t) >= StaleCycles
      <4>1. pc = "clear" => t[2] = "config"
        BY <1>1 DEF Shape, Configs
      <4> QED BY <4>1, <3>1, <3>3, <3>4, TopicTypes
    <3>6. Due(s)
      BY <3>4, <3>5, CountedIsDue
    <3>7. /\ missing[t] \in Nat /\ absent[s] \in Nat /\ StaleCycles \in Nat
          /\ missing[t] + 1 >= StaleCycles
      BY <3>2, <3>5, <1>1, MissesType DEF TypeOK, RetainedAssumption
    <3> QED BY <3>4, <3>6, <3>7 DEF Due
  <2> QED BY <2>1, <2>2
<1> QED BY <1>2, <1>3 DEF NoneLeftOver

\* Nothing else puts a clearing into the spool.  A sensor that is found is ahead; one that
\* is not stays absent for as long as it was.
LEMMA ClearingsElse ==
  ASSUME Basics, NoneLeftOver, Plain',
         \/ Flush \/ Scan \/ StatesDone \/ ConfigsDone \/ MissesDone \/ Save \/ Fail
         \/ Restart \/ Disconnect \/ Reconnect \/ SetDiscovery \/ SetRetain \/ UNCHANGED vars
  PROVE  NoneLeftOver'
<1>1. TypeOK /\ Shape /\ RetainedAssumption
  BY RetainedAssumption DEF Basics
<1>2. ~Upset("raise") /\ ~Upset("crash")
  BY DEF Upset, Disturb, Plain, Only
<1>3. CASE Flush
  <2>1. pc = "flush" /\ UNCHANGED absent
    BY <1>3 DEF Flush, cycleVars
  <2>2. Outcome' = Outcome
    BY <1>3, FlushKeeps
  <2>3. ASSUME NEW u, ClearedFrom(spool', u, 1) PROVE ClearedFrom(spool, u, 1)
    <3>1. spool \in Seq(Rows) /\ Len(spool) \in Nat
      BY <1>1, LenProperties DEF TypeOK
    <3>2. PICK n \in 0 .. Len(spool) : spool' = SubSeq(spool, n + 1, Len(spool)) \/ spool' = <<>>
      <4>1. 0 \in 0 .. Len(spool) /\ Len(spool) \in 0 .. Len(spool)
        BY <3>1
      <4>2. CASE spool' = <<>>
        BY <4>1, <4>2
      <4>3. CASE UNCHANGED spool
        <5>1. SubSeq(spool, 0 + 1, Len(spool)) = spool
          BY <3>1
        <5> QED BY <4>1, <4>3, <5>1
      <4>4. CASE \E n \in 0 .. Len(spool) - 1 : spool' = SubSeq(spool, n + 1, Len(spool))
        <5>1. \A n \in 0 .. Len(spool) - 1 : n \in 0 .. Len(spool)
          BY <3>1
        <5> QED BY <4>4, <5>1
      <4> QED BY <1>3, <4>2, <4>3, <4>4 DEF Flush
    <3>3. spool' # <<>>
      BY <2>3 DEF ClearedFrom
    <3> QED BY <2>3, <3>1, <3>2, <3>3, ClearedParts
  <2> QED BY <2>1, <2>2, <2>3 DEF NoneLeftOver, Pending, Ahead
<1>4. CASE Scan
  <2>1. /\ pc = "scan" /\ pc' = "state" /\ UNCHANGED <<spool, retained>>
        /\ \A s \in exported' : State(s) \in todo'
        /\ \A s \in Sensors \ exported' : absent'[s] = Min({absent[s] + 1, StaleCycles})
    BY <1>4 DEF Scan, Go, brokerVars
  <2>2. ASSUME NEW s \in Sensors \ exported', absent[s] >= StaleCycles
        PROVE  absent'[s] >= StaleCycles
    <3>1. absent[s] \in Nat /\ StaleCycles \in Nat /\ absent[s] + 1 \in Nat
      BY <1>1 DEF TypeOK, RetainedAssumption
    <3>2. absent'[s] = IF absent[s] + 1 <= StaleCycles THEN absent[s] + 1 ELSE StaleCycles
      BY <2>1, <3>1, MinOfTwo
    <3> QED BY <2>2, <3>1, <3>2
  <2>3. \A s : Pending(State(s))' <=> Pending(State(s))
    BY <2>1 DEF Pending, Outcome
  <2> QED BY <2>1, <2>2, <2>3 DEF NoneLeftOver, Ahead
<1>5. CASE StatesDone
  <2>1. todo = {} /\ UNCHANGED <<spool, retained, absent>>
    BY <1>5 DEF StatesDone, cycleVars, brokerVars
  <2> QED BY <2>1 DEF NoneLeftOver, Pending, Outcome, Ahead
<1>6. CASE ConfigsDone \/ MissesDone \/ Save
  <2>1. pc \in {"clear", "miss", "save"} /\ UNCHANGED <<spool, retained, absent>>
    BY <1>6 DEF ConfigsDone, MissesDone, Save, cycleVars, brokerVars
  <2> QED BY <2>1 DEF NoneLeftOver, Pending, Outcome, Ahead
<1>7. CASE Fail
  BY <1>2, <1>7 DEF Fail
<1>8. CASE Restart
  <2>1. pc = "flush" /\ UNCHANGED <<spool, retained, absent>>
    BY <1>2, <1>8 DEF Restart
  <2> QED BY <2>1 DEF NoneLeftOver, Pending, Outcome, Ahead
<1>9. CASE Disconnect \/ Reconnect \/ SetDiscovery \/ SetRetain \/ UNCHANGED vars
  <2>1. UNCHANGED <<pc, todo, absent, spool, retained>>
    BY <1>9 DEF Disconnect, Reconnect, SetDiscovery, SetRetain, vars, cycleVars, brokerVars
  <2> QED BY <2>1 DEF NoneLeftOver, Pending, Outcome, Ahead
<1> QED BY <1>3, <1>4, <1>5, <1>6, <1>7, <1>8, <1>9

LEMMA ClearingsStep ==
  ASSUME Basics, Counting, Clearings, PublishedIsHeld, [Next]_vars
  PROVE  Clearings'
<1>1. SUFFICES ASSUME Plain' PROVE NoneLeftOver'
  BY DEF Clearings
<1>2. Plain /\ NoneLeftOver /\ NoneEarly
  <2>1. Plain
    BY <1>1, UpsetsGrow DEF Plain, Only
  <2> QED BY <2>1 DEF Clearings, Counting, Steady, Plain, Only
<1>3. CASE PublishState \/ PublishConfig
  BY <1>1, <1>2, <1>3, ClearingsPublish
<1>4. CASE ClearConfig \/ CountMiss
  BY <1>1, <1>2, <1>4, ClearingsClear
<1>5. CASE \/ Flush \/ Scan \/ StatesDone \/ ConfigsDone \/ MissesDone \/ Save \/ Fail
           \/ Restart \/ Disconnect \/ Reconnect \/ SetDiscovery \/ SetRetain \/ UNCHANGED vars
  BY <1>1, <1>2, <1>5, ClearingsElse
<1> QED BY <1>3, <1>4, <1>5 DEF Next, Cycle

\* What the broker loses for good it loses at the flush, by such a clearing, or by a
\* message that the first part speaks of.
LEMMA ArrivedStep ==
  ASSUME Basics, Counting, Clearings, [Next]_vars, Plain',
         NEW s \in Sensors, Arrived(State(s))
  PROVE  absent[s] >= StaleCycles
<1>1. State(s) \in retained /\ State(s) \notin retained' /\ State(s) \notin Outcome'
  BY DEF Arrived
<1>2. CASE State(s) \in Outcome
  <2>1. Steady'
    BY DEF Plain, Steady, Only
  <2> QED BY <2>1, <1>1, <1>2, SteadyStep
<1>3. CASE State(s) \notin Outcome
  <2>1. TypeOK /\ Shape /\ RetainedAssumption /\ State(s) \in Topics
    BY RetainedAssumption, TopicTypes DEF Basics
  <2>2. Pending(State(s))
    BY <2>1, <1>1, <1>3, InAfterFlush DEF Pending, Outcome
  <2>3. NoneLeftOver
    BY UpsetsGrow DEF Clearings, Plain, Only
  <2>4. ~\E t \in Topics, p \in Payloads : PublishOrCache(t, p) /\ pc # "flush"
    BY <1>1, <1>3, PendingPublish
  <2>5. CASE PublishState \/ PublishConfig
    <3>1. todo # {} /\ pc \in {"state", "config"}
      BY <2>1, <2>5 DEF PublishState, PublishConfig, Shape
    <3>2. State(First(todo)) \in Topics /\ Config(First(todo)) \in Topics
      BY <3>1, <2>1, FirstTodo, TopicTypes
    <3> QED BY <3>1, <3>2, <2>4, <2>5 DEF PublishState, PublishConfig, Payloads
  <2>6. CASE ClearConfig \/ CountMiss
    <3>1. \A t \in todo : t \in Topics
      BY <2>1 DEF TypeOK
    <3> QED BY <3>1, <2>4, <2>6, <1>1 DEF ClearConfig, CountMiss, Payloads, brokerVars
  <2>7. CASE Flush
    BY <2>2, <2>3, <2>7 DEF Flush, NoneLeftOver, Ahead
  <2>8. CASE \/ Scan \/ StatesDone \/ ConfigsDone \/ MissesDone \/ Save \/ Fail
             \/ Restart \/ Disconnect \/ Reconnect \/ SetDiscovery \/ SetRetain
             \/ UNCHANGED vars
    BY <1>1, <2>8 DEF Scan, StatesDone, ConfigsDone, MissesDone, Save, Fail, Restart,
                      Disconnect, Reconnect, SetDiscovery, SetRetain, vars, brokerVars
  <2> QED BY <2>5, <2>6, <2>7, <2>8 DEF Next, Cycle
<1> QED BY <1>2, <1>3

-----------------------------------------------------------------------------
IInv == Basics /\ Tracking /\ Counting /\ Clearings /\ PublishedIsHeld

LEMMA InitIInv ==
  ASSUME Init
  PROVE  IInv
<1>1. Basics
  BY BasicsInit
<1>2. Outcome = {}
  BY AfterNothing DEF Init, Outcome
<1>3. StaleCycles > 0 /\ \A s \in Sensors : State(s) \in Topics
  BY RetainedAssumption, TopicTypes DEF RetainedAssumption
<1>4. NoneUntracked /\ NoneOverdue
  BY <1>2, <1>3 DEF Init, NoneUntracked, NoneOverdue, Held, Before
<1>5. NoneEarly
  BY <1>3 DEF Init, NoneEarly, Before, Counted
<1>6. PublishedIsHeld
  BY DEF Init, PublishedIsHeld
<1>7. NoneLeftOver
  BY DEF Init, NoneLeftOver, Pending, ClearedFrom
<1> QED BY <1>1, <1>4, <1>5, <1>6, <1>7 DEF IInv, Tracking, Counting, Clearings

LEMMA NextIInv ==
  ASSUME IInv, [Next]_vars
  PROVE  IInv'
BY BasicsStep, TrackingStep, CountingStep, ClearingsStep, PublishedStep DEF IInv

LEMMA AlwaysIInv == Spec => []IInv
BY InitIInv, NextIInv, PTL DEF Spec

\* Between two cycles the gateway knows, in memory and on disk, every topic the
\* broker holds or will hold a payload for (cli.bridge, the topic sets), but for
\* those whose clearing a full spool displaced.
THEOREM NothingOrphaned == Spec => []NoOrphanTopic
<1>1. IInv => NoOrphanTopic
  BY DEF IInv, Tracking, Calm, NoneUntracked, NoOrphanTopic, Held, Before
<1> QED BY <1>1, AlwaysIInv, PTL

\* After stale_cycles cycles in a row without a sensor, its state topic is
\* cleared or its clearing queued (cli.bridge, missing_cycles).
THEOREM ThresholdClears == Spec => []ClearedAtThreshold
<1>1. IInv => ClearedAtThreshold
  <2> SUFFICES ASSUME IInv, pc = "flush", Calm,
                      NEW s \in Sensors, absent[s] >= StaleCycles, State(s) \in Held
               PROVE  FALSE
    BY DEF ClearedAtThreshold, Calm, Held
  <2>1. State(s) \in Topics /\ TypeOK
    BY TopicTypes DEF IInv, Basics
  <2>2. absent[s] \in Nat /\ missing[State(s)] \in Nat /\ StaleCycles \in Nat
    BY <2>1, RetainedAssumption DEF TypeOK, RetainedAssumption
  <2>3. missing[State(s)] < StaleCycles /\ absent[s] <= missing[State(s)] + 0
    BY <2>1 DEF IInv, Tracking, NoneOverdue, Counted
  <2> QED BY <2>2, <2>3
<1> QED BY <1>1, AlwaysIInv, PTL

\* Only stale_cycles misses in a row take a state topic away: no restart between two
\* cycles, outage or change of a setting shortens the count, and no clearing that waits in
\* the spool reaches the broker after the sensor has been published again, unless
\* one of the disturbances occurs that the property names (cli.bridge, missing_cycles,
\* the state file and the flush).
THEOREM OnlyMissesClear == Spec => ClearedOnlyAfterMisses
<1> DEFINE Earned == \A s \in Sensors :
              /\ Decided(State(s)) /\ Only(UpsetKinds \ {"raise", "crash", "displace"})'
                    => absent[s] >= StaleCycles
              /\ Arrived(State(s)) /\ Only({"discovery"})' => absent[s] >= StaleCycles
<1>1. IInv /\ [Next]_vars => Earned
  <2>1. Only(UpsetKinds \ {"raise", "crash", "displace"})' => Steady'
    BY DEF Only, Steady, UpsetKinds
  <2>2. Only({"discovery"})' <=> Plain'
    BY DEF Plain, Only
  <2> QED BY <2>1, <2>2, SteadyStep, ArrivedStep DEF IInv, Decided
<1> QED BY <1>1, AlwaysIInv, PTL DEF Spec, ClearedOnlyAfterMisses

\* Nothing clears what the cycle has published: no clearing of the cycle, or
\* left in the queue by an earlier cycle or process (cli.bridge, the two sets
\* of topics; MQTTCache, in order of arrival).
THEOREM PublishedStays == Spec => []PublishedIsHeld
<1>1. IInv => PublishedIsHeld
  BY DEF IInv
<1> QED BY <1>1, AlwaysIInv, PTL

=============================================================================
