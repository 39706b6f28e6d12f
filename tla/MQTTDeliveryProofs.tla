------------------------- MODULE MQTTDeliveryProofs -------------------------
(***************************************************************************)
(* Proofs about MQTTDelivery, for any number of messages and faults, any   *)
(* sizes, spool limit and batch length: no message that was handed over is *)
(* lost (NothingLost), and the delivery path keeps the safety part of the  *)
(* promise AtLeastOnce.                                                    *)
(*                                                                         *)
(* The argument follows a message through its places.  A row leaves the    *)
(* table only when it is displaced, and then counted in `gone`, or deleted *)
(* by an id of the batch; that id must still name the message that was     *)
(* sent (Named), and what was sent and acknowledged must have been         *)
(* received (Sent, InHand), since paho's queue loses its head only then.   *)
(***************************************************************************)
EXTENDS MQTTDelivery, SequenceTheorems, TLAPS

Entry == [id : Nat, msg : Messages]
Entries(s) == {s[i] : i \in 1 .. Len(s)}
Msgs(s) == {s[i].msg : i \in 1 .. Len(s)}

-----------------------------------------------------------------------------
(* Sequences as the sets of their entries.                                  *)

LEMMA AppendEntries ==
  ASSUME NEW S, NEW s \in Seq(S), NEW e \in S
  PROVE  Append(s, e) \in Seq(S) /\ Entries(Append(s, e)) = Entries(s) \cup {e}
<1> DEFINE t == Append(s, e)
<1>1. /\ t \in Seq(S) /\ Len(t) = Len(s) + 1 /\ Len(s) \in Nat
      /\ t[Len(s) + 1] = e /\ \A i \in 1 .. Len(s) : t[i] = s[i]
  OBVIOUS
<1> HIDE DEF t
<1>2. \A i \in 1 .. Len(t) : t[i] \in Entries(s) \cup {e}
  BY <1>1 DEF Entries
<1>3. e \in Entries(t)
  BY <1>1 DEF Entries
<1>4. \A i \in 1 .. Len(s) : s[i] \in Entries(t)
  BY <1>1 DEF Entries
<1>5. Entries(t) = Entries(s) \cup {e}
  BY <1>2, <1>3, <1>4 DEF Entries
<1> QED
  BY <1>1, <1>5 DEF t

LEMMA TailEntries ==
  ASSUME NEW S, NEW s \in Seq(S), s # <<>>
  PROVE  /\ Tail(s) \in Seq(S) /\ Len(Tail(s)) = Len(s) - 1
         /\ \A i \in 1 .. Len(s) - 1 : Tail(s)[i] = s[i + 1]
         /\ Head(s) \in S /\ Head(s) = s[1] /\ Len(s) \in Nat \ {0}
         /\ Entries(s) = {Head(s)} \cup Entries(Tail(s))
<1>1. /\ Tail(s) \in Seq(S) /\ Len(Tail(s)) = Len(s) - 1 /\ Len(s) \in Nat \ {0}
      /\ \A i \in 1 .. Len(s) - 1 : Tail(s)[i] = s[i + 1]
      /\ Head(s) \in S /\ Head(s) = s[1]
  BY HeadTailProperties, EmptySeq
<1>2. \A i \in 1 .. Len(s) : i = 1 \/ i - 1 \in 1 .. Len(Tail(s))
  BY <1>1
<1>3. \A i \in 1 .. Len(s) : s[i] \in {Head(s)} \cup Entries(Tail(s))
  BY <1>1, <1>2 DEF Entries
<1>4. \A i \in 1 .. Len(Tail(s)) : Tail(s)[i] \in Entries(s)
  BY <1>1 DEF Entries
<1>5. Head(s) \in Entries(s)
  BY <1>1 DEF Entries
<1> QED
  BY <1>1, <1>3, <1>4, <1>5 DEF Entries

LEMMA ConcatEntries ==
  ASSUME NEW S, NEW a \in Seq(S), NEW b \in Seq(S)
  PROVE  a \o b \in Seq(S) /\ Entries(a \o b) = Entries(a) \cup Entries(b)
<1> DEFINE t == a \o b
<1>1. /\ t \in Seq(S) /\ Len(t) = Len(a) + Len(b) /\ Len(a) \in Nat /\ Len(b) \in Nat
      /\ \A i \in 1 .. Len(t) : t[i] = IF i <= Len(a) THEN a[i] ELSE b[i - Len(a)]
  BY ConcatProperties
<1> HIDE DEF t
<1>2. \A i \in 1 .. Len(t) : i \in 1 .. Len(a) \/ i - Len(a) \in 1 .. Len(b)
  BY <1>1
<1>3. \A i \in 1 .. Len(t) : t[i] \in Entries(a) \cup Entries(b)
  BY <1>1, <1>2 DEF Entries
<1>4. \A i \in 1 .. Len(a) : i \in 1 .. Len(t) /\ t[i] = a[i]
  BY <1>1
<1>5. \A i \in 1 .. Len(b) : i + Len(a) \in 1 .. Len(t) /\ t[i + Len(a)] = b[i]
  BY <1>1
<1>6. Entries(a) \subseteq Entries(t)
  BY <1>4 DEF Entries
<1>7. Entries(b) \subseteq Entries(t)
  BY <1>5 DEF Entries
<1>8. Entries(t) \subseteq Entries(a) \cup Entries(b)
  BY <1>3 DEF Entries
<1> QED
  BY <1>1, <1>6, <1>7, <1>8 DEF t

\* Any part of a sequence.
LEMMA PartEntries ==
  ASSUME NEW S, NEW s \in Seq(S), NEW a \in 1 .. Len(s) + 1, NEW b \in 0 .. Len(s)
  PROVE  /\ SubSeq(s, a, b) \in Seq(S)
         /\ Entries(SubSeq(s, a, b)) = {s[i] : i \in a .. b}
<1> DEFINE t == SubSeq(s, a, b)
<1>1. Len(s) \in Nat /\ \A i \in 1 .. Len(s) : s[i] \in S
  OBVIOUS
<1>2. a .. b \subseteq 1 .. Len(s)
  BY <1>1
<1>3. t \in Seq(S) /\ \A i \in 1 .. b - a + 1 : t[i] = s[a + i - 1]
  BY <1>1, <1>2, SubSeqProperties
<1>4. Len(t) = IF a <= b THEN b - a + 1 ELSE 0
  BY <1>1, <1>2, SubSeqProperties
<1> HIDE DEF t
<1>5. \A i \in 1 .. Len(t) : a + i - 1 \in a .. b /\ t[i] = s[a + i - 1]
  BY <1>1, <1>3, <1>4
<1>6. \A i \in a .. b : i - a + 1 \in 1 .. Len(t) /\ t[i - a + 1] = s[i]
  BY <1>1, <1>3, <1>4
<1>7. Entries(t) \subseteq {s[i] : i \in a .. b}
  BY <1>5 DEF Entries
<1>8. \A i \in a .. b : s[i] \in Entries(t)
  BY <1>6 DEF Entries
<1> QED
  BY <1>3, <1>7, <1>8 DEF t

-----------------------------------------------------------------------------
(* The spool's operations, as sets of rows.                                 *)

\* enqueue: the new row is in the table, and no other row is new.
LEMMA EnqueueEntries ==
  ASSUME NEW m \in Messages, rows \in Seq(Entry), nextId \in Nat, Spool!Enqueue(m)
  PROVE  LET row == [id |-> nextId, msg |-> m]
         IN  /\ rows' \in Seq(Entry) /\ nextId' = nextId + 1
             /\ row \in Entries(rows') /\ Entries(rows') \subseteq Entries(rows) \cup {row}
<1> DEFINE row == [id |-> nextId, msg |-> m]
<1>1. PICK k \in Spool!Evictions(rows, Size[m], MaxBytes) :
         rows' = Append(Spool!WithoutOldest(rows, k), row)
  BY DEF Spool!Enqueue
<1>2. k \in 0 .. Len(rows) /\ Len(rows) \in Nat
  BY <1>1 DEF Spool!Evictions
<1> DEFINE kept == SubSeq(rows, k + 1, Len(rows))
<1>3. kept \in Seq(Entry) /\ Entries(kept) = {rows[i] : i \in k + 1 .. Len(rows)}
  <2>1. k + 1 \in 1 .. Len(rows) + 1 /\ Len(rows) \in 0 .. Len(rows)
    BY <1>2
  <2> QED
    BY <2>1, PartEntries
<1>4. Entries(kept) \subseteq Entries(rows)
  <2>1. k + 1 .. Len(rows) \subseteq 1 .. Len(rows)
    BY <1>2
  <2> QED
    BY <1>3, <2>1 DEF Entries
<1>5. row \in Entry
  BY DEF Entry
<1>6. rows' = Append(kept, row) /\ nextId' = nextId + 1
  BY <1>1 DEF Spool!WithoutOldest, Spool!Enqueue
<1> HIDE DEF kept, row
<1>7. rows' \in Seq(Entry) /\ Entries(rows') = Entries(kept) \cup {row}
  BY <1>3, <1>5, <1>6, AppendEntries
<1> QED
  BY <1>4, <1>6, <1>7 DEF row

\* delete: only rows of that id leave the table.
LEMMA DeleteEntries ==
  ASSUME NEW id, rows \in Seq(Entry), Spool!Delete(id)
  PROVE  /\ rows' \in Seq(Entry) /\ nextId' = nextId
         /\ Entries(rows') \subseteq Entries(rows)
         /\ \A r \in Entries(rows) : r \in Entries(rows') \/ r.id = id
<1>1. CASE rows' = rows
  BY <1>1 DEF Spool!Delete
<1>2. ASSUME NEW k \in 1 .. Len(rows), rows[k].id = id,
             rows' = SubSeq(rows, 1, k - 1) \o SubSeq(rows, k + 1, Len(rows))
      PROVE  /\ rows' \in Seq(Entry)
             /\ Entries(rows') \subseteq Entries(rows)
             /\ \A r \in Entries(rows) : r \in Entries(rows') \/ r.id = id
  <2> DEFINE a == SubSeq(rows, 1, k - 1)
             b == SubSeq(rows, k + 1, Len(rows))
  <2>1. /\ Len(rows) \in Nat /\ 1 \in 1 .. Len(rows) + 1 /\ k - 1 \in 0 .. Len(rows)
        /\ k + 1 \in 1 .. Len(rows) + 1 /\ Len(rows) \in 0 .. Len(rows)
    OBVIOUS
  <2>2. a \in Seq(Entry) /\ Entries(a) = {rows[i] : i \in 1 .. k - 1}
    BY <2>1, PartEntries
  <2>3. b \in Seq(Entry) /\ Entries(b) = {rows[i] : i \in k + 1 .. Len(rows)}
    BY <2>1, PartEntries
  <2>4. rows' = a \o b
    BY <1>2
  <2> HIDE DEF a, b
  <2>5. rows' \in Seq(Entry) /\ Entries(rows') = Entries(a) \cup Entries(b)
    BY <2>2, <2>3, <2>4, ConcatEntries
  <2>6. \A i \in 1 .. Len(rows) : i \in 1 .. k - 1 \/ i = k \/ i \in k + 1 .. Len(rows)
    BY <2>1
  <2>7. 1 .. k - 1 \subseteq 1 .. Len(rows) /\ k + 1 .. Len(rows) \subseteq 1 .. Len(rows)
    BY <2>1
  <2>8. Entries(rows') \subseteq Entries(rows)
    BY <2>2, <2>3, <2>5, <2>7 DEF Entries
  <2>9. \A i \in 1 .. Len(rows) : rows[i] \in Entries(rows') \/ rows[i].id = id
    BY <1>2, <2>2, <2>3, <2>5, <2>6
  <2> QED
    BY <2>5, <2>8, <2>9 DEF Entries
<1> QED
  BY <1>1, <1>2 DEF Spool!Delete

\* oldest: a part of the table.
LEMMA OldestEntries ==
  ASSUME NEW n \in Nat \ {0}, rows \in Seq(Entry)
  PROVE  Spool!Oldest(n) \in Seq(Entry) /\ Entries(Spool!Oldest(n)) \subseteq Entries(rows)
<1> DEFINE last == IF n < Len(rows) THEN n ELSE Len(rows)
<1>1. Len(rows) \in Nat /\ last \in 0 .. Len(rows) /\ 1 \in 1 .. Len(rows) + 1
  OBVIOUS
<1>2. Spool!Oldest(n) = SubSeq(rows, 1, last)
  BY DEF Spool!Oldest
<1> HIDE DEF last
<1>3. 1 .. last \subseteq 1 .. Len(rows)
  BY <1>1
<1> QED
  BY <1>1, <1>2, <1>3, PartEntries DEF Entries

-----------------------------------------------------------------------------
Types ==
    /\ rows \in Seq(Entry) /\ nextId \in Nat
    /\ batch \in Seq(Entry)
    /\ outbox \in Seq(Messages) /\ received \in 0 .. Len(outbox)
    /\ next \in Nat \ {0}

\* An id of the batch still names the row that was read with it, or none.
Named ==
    /\ \A a \in Entries(rows) \cup Entries(batch), b \in Entries(rows) : a.id = b.id => a = b
    /\ \A a \in Entries(rows) \cup Entries(batch) : a.id < nextId

\* The broker has what it received in this session, also before the PUBACK.
Sent == \A i \in 1 .. received : outbox[i] \in got

\* The message whose acknowledgement a thread waits for is on its way or there.
InHand ==
    /\ pc = "wait" => current \in Messages /\ current \in got \cup Entries(outbox)
    /\ pc # "wait" => current = 0
    /\ pc = "flushWait" => batch # <<>> /\ Head(batch).msg \in got \cup Entries(outbox)

\* Only messages that were handed over are anywhere.
Known ==
    \A m \in Messages :
        m \in Msgs(rows) \cup Msgs(batch) \cup Entries(outbox) \cup got \cup gone => m < next

Inv == Types /\ Named /\ Sent /\ InHand /\ Known /\ NothingLost

LEMMA SpooledIsMsgs == Spooled = Msgs(rows)
  BY DEF Spooled, Msgs

LEMMA MsgsOfEntries ==
  ASSUME NEW s
  PROVE  /\ \A e \in Entries(s) : e.msg \in Msgs(s)
         /\ \A m \in Msgs(s) : \E e \in Entries(s) : e.msg = m
  BY DEF Entries, Msgs

LEMMA EntriesAreTyped ==
  ASSUME NEW s \in Seq(Entry)
  PROVE  /\ \A e \in Entries(s) : e \in Entry /\ e.id \in Nat /\ e.msg \in Messages
         /\ Msgs(s) \subseteq Messages
<1>1. \A i \in 1 .. Len(s) : s[i] \in Entry
  OBVIOUS
<1> QED
  BY <1>1 DEF Entries, Msgs, Entry

-----------------------------------------------------------------------------
\* cache_message: what the table held and the message itself are in the table, with
\* the broker or counted in `gone`, and ids keep their meaning.
LEMMA CacheKeeps ==
  ASSUME Types, Named, NEW m \in Messages, CacheMessage(m), batch' = batch
  PROVE  /\ rows' \in Seq(Entry) /\ nextId' \in Nat /\ Named'
         /\ Msgs(rows) \cup {m} \subseteq Msgs(rows') \cup gone' \cup got
         /\ Msgs(rows') \subseteq Msgs(rows) \cup {m}
         /\ gone \subseteq gone' /\ gone' \subseteq gone \cup Msgs(rows) \cup {m}
         /\ pc' \in {"cycle", "sleep"}
<1>1. CASE Spool!Enqueue(m) /\ pc' = "cycle"
           /\ gone' = gone \cup (Msgs(rows) \ (Msgs(rows') \cup got))
  <2> DEFINE row == [id |-> nextId, msg |-> m]
  <2>1. /\ rows' \in Seq(Entry) /\ nextId' = nextId + 1
        /\ row \in Entries(rows') /\ Entries(rows') \subseteq Entries(rows) \cup {row}
    BY <1>1, EnqueueEntries DEF Types
  <2>2. m \in Msgs(rows')
    <3>1. row.msg = m
      OBVIOUS
    <3> QED
      BY <2>1, <3>1, MsgsOfEntries
  <2>3. Msgs(rows') \subseteq Msgs(rows) \cup {m}
    <3> SUFFICES ASSUME NEW x \in Msgs(rows') PROVE x \in Msgs(rows) \cup {m}
      OBVIOUS
    <3>1. PICK e \in Entries(rows') : e.msg = x
      BY MsgsOfEntries
    <3>2. e \in Entries(rows) \/ e = row
      BY <2>1
    <3>3. row.msg = m
      OBVIOUS
    <3> QED
      BY <3>1, <3>2, <3>3, MsgsOfEntries
  <2>4. nextId \in Nat
    BY DEF Types
  <2>5. row.id = nextId
    OBVIOUS
  <2> HIDE DEF row
  <2>6. Named'
    <3>1. \A a \in Entries(rows') \cup Entries(batch) :
             a \in Entries(rows) \cup Entries(batch) \/ a = row
      BY <2>1
    <3>2. \A a \in Entries(rows) \cup Entries(batch) : a.id \in Nat
      BY EntriesAreTyped DEF Types
    <3>3. ASSUME NEW a \in Entries(rows') \cup Entries(batch) PROVE a.id < nextId + 1
      BY <2>4, <2>5, <3>1, <3>2, <3>3 DEF Named
    <3>4. ASSUME NEW a \in Entries(rows') \cup Entries(batch), NEW b \in Entries(rows'),
                 a.id = b.id
          PROVE  a = b
      <4>1. CASE a = row /\ b = row
        BY <4>1
      <4>2. CASE a \in Entries(rows) \cup Entries(batch) /\ b \in Entries(rows)
        BY <4>2, <3>4 DEF Named
      <4>3. \A e \in Entries(rows) \cup Entries(batch) : e.id # row.id
        BY <2>4, <2>5, <3>2 DEF Named
      <4>4. b \in Entries(rows) \/ b = row
        BY <2>1
      <4> QED
        BY <4>1, <4>2, <4>3, <4>4, <3>1, <3>4
    <3> QED
      BY <2>1, <3>3, <3>4 DEF Named
  <2> QED
    BY <1>1, <2>1, <2>2, <2>3, <2>4, <2>6
<1>2. CASE Size[m] > MaxBytes /\ gone' = gone \cup ({m} \ got) /\ pc' = "sleep"
           /\ UNCHANGED spoolVars
  BY <1>2 DEF spoolVars, Named, Types
<1>3. Spooled = Msgs(rows) /\ {rows'[i].msg : i \in 1 .. Len(rows')} = Msgs(rows')
  BY DEF Spooled, Msgs
<1> QED
  BY <1>1, <1>2, <1>3 DEF CacheMessage

-----------------------------------------------------------------------------
LEMMA InitInv == Init => Inv
<1> SUFFICES ASSUME Init PROVE Inv
  OBVIOUS
<1>1. /\ rows = <<>> /\ batch = <<>> /\ outbox = <<>> /\ nextId = 1 /\ next = 1
      /\ received = 0 /\ got = {} /\ gone = {} /\ pc = "sleep" /\ current = 0
  BY DEF Init
<1>2. Entries(rows) = {} /\ Entries(batch) = {} /\ Entries(outbox) = {}
      /\ Msgs(rows) = {} /\ Msgs(batch) = {}
  BY <1>1 DEF Entries, Msgs
<1>3. Types
  BY <1>1 DEF Types
<1> QED
  BY <1>1, <1>2, <1>3 DEF Inv, Named, Sent, InHand, Known, NothingLost

\* Steps that leave the table, the broker and paho's queue alone: the batch may be
\* dropped or become a part of the table, the session may change and begin anew.
LEMMA QuietStep ==
  ASSUME Inv, UNCHANGED <<rows, nextId, outbox, got, gone, next, current>>,
         received' \in {0, received},
         batch' \in Seq(Entry), Entries(batch') \subseteq Entries(rows) \cup Entries(batch),
         \/ pc # "wait" /\ pc' \notin {"wait", "flushWait"}
         \/ pc' = pc /\ batch' = batch
  PROVE  Inv'
<1> USE DEF Inv
<1>1. Types'
  BY DEF Types
<1>2. Named'
  BY DEF Named
<1>3. Sent'
  BY DEF Sent
<1>4. InHand'
  BY DEF InHand
<1>5. Known'
  <2>1. Msgs(batch') \subseteq Msgs(rows) \cup Msgs(batch)
    BY MsgsOfEntries
  <2> QED
    BY <2>1 DEF Known
<1>6. NothingLost'
  BY DEF NothingLost, Spooled
<1> QED
  BY <1>1, <1>2, <1>3, <1>4, <1>5, <1>6

LEMMA FlushReadInv == ASSUME Inv, FlushRead PROVE Inv'
<1>1. UNCHANGED <<rows, nextId, outbox, got, gone, next, current, received>>
  BY DEF FlushRead, spoolVars, clientVars
<1>2. CASE batch' = Spool!Oldest(BatchLimit) /\ pc' = pc /\ pc = "flush"
  <2>1. batch' \in Seq(Entry) /\ Entries(batch') \subseteq Entries(rows)
    BY <1>2, OldestEntries, DeliveryAssumption DEF Inv, Types
  <2> QED
    BY <1>1, <1>2, <2>1, QuietStep DEF Inv
<1>3. CASE batch' = batch /\ pc' = "cycle" /\ pc = "flush"
  <2>1. batch' \in Seq(Entry) /\ Entries(batch') = Entries(batch)
    BY <1>3 DEF Inv, Types
  <2> QED
    BY <1>1, <1>3, <2>1, QuietStep
<1> QED
  BY <1>2, <1>3 DEF FlushRead

LEMMA FlushSendInv == ASSUME Inv, FlushSend PROVE Inv'
<1>1. UNCHANGED <<rows, nextId, got, gone, next, current, received>> /\ pc = "flush"
      /\ batch # <<>>
  BY DEF FlushSend, spoolVars
<1>2. /\ Head(batch) \in Entry /\ Head(batch).msg \in Messages
      /\ Head(batch) \in Entries(batch) /\ Head(batch).msg \in Msgs(batch)
  BY <1>1, TailEntries, MsgsOfEntries, EntriesAreTyped DEF Inv, Types
<1> DEFINE m == Head(batch).msg
<1>3. CASE /\ PahoPublish(m)
           /\ \/ pc' = "flushWait" /\ batch' = batch
              \/ pc' = "cycle" /\ batch' = <<>>
  <2>1. outbox' = Append(outbox, m)
    BY <1>3 DEF PahoPublish
  <2>2. /\ outbox' \in Seq(Messages) /\ Entries(outbox') = Entries(outbox) \cup {m}
        /\ Len(outbox') = Len(outbox) + 1 /\ \A i \in 1 .. Len(outbox) : outbox'[i] = outbox[i]
        /\ Len(outbox) \in Nat
    BY <2>1, <1>2, AppendEntries DEF Inv, Types
  <2>3. batch' \in Seq(Entry) /\ Entries(batch') \subseteq Entries(batch)
        /\ Msgs(batch') \subseteq Msgs(batch)
    <3>1. <<>> \in Seq(Entry) /\ Entries(<<>>) = {} /\ Msgs(<<>>) = {}
      BY EmptySeq DEF Entries, Msgs
    <3> QED
      BY <1>3, <3>1 DEF Inv, Types
  <2>4. Types'
    BY <1>1, <2>2, <2>3 DEF Inv, Types
  <2>5. Named'
    BY <1>1, <2>3 DEF Inv, Named
  <2>6. Sent'
    <3>1. \A i \in 1 .. received : i \in 1 .. Len(outbox)
      BY <2>2 DEF Inv, Types
    <3> QED
      BY <1>1, <2>2, <3>1 DEF Inv, Sent
  <2>7. InHand'
    BY <1>1, <1>3, <2>2 DEF Inv, InHand
  <2>8. Known'
    BY <1>1, <1>2, <2>2, <2>3 DEF Inv, Known
  <2>9. NothingLost'
    BY <1>1 DEF Inv, NothingLost, Spooled
  <2> QED
    BY <2>4, <2>5, <2>6, <2>7, <2>8, <2>9 DEF Inv
<1>4. CASE outbox' = outbox /\ pc' = "cycle" /\ batch' = <<>>
  <2>1. batch' \in Seq(Entry) /\ Entries(batch') = {}
    BY <1>4, EmptySeq DEF Entries
  <2> QED
    BY <1>1, <1>4, <2>1, QuietStep
<1> QED
  BY <1>3, <1>4 DEF FlushSend

LEMMA FlushAcknowledgedInv == ASSUME Inv, FlushAcknowledged PROVE Inv'
<1>1. /\ UNCHANGED <<outbox, got, gone, next, current, received>> /\ pc = "flushWait"
      /\ pc' = "flush" /\ batch' = Tail(batch) /\ outbox = <<>>
      /\ Spool!Delete(Head(batch).id)
  BY DEF FlushAcknowledged, IsPublished, clientVars
<1>2. batch # <<>> /\ Head(batch).msg \in got
  BY <1>1 DEF Inv, InHand, Entries
<1>3. /\ batch' \in Seq(Entry) /\ Entries(batch') \subseteq Entries(batch)
      /\ Head(batch) \in Entries(batch)
  BY <1>1, <1>2, TailEntries DEF Inv, Types
<1>4. /\ rows' \in Seq(Entry) /\ nextId' = nextId /\ Entries(rows') \subseteq Entries(rows)
      /\ \A r \in Entries(rows) : r \in Entries(rows') \/ r.id = Head(batch).id
  BY <1>1, DeleteEntries DEF Inv, Types
<1>5. Msgs(rows') \subseteq Msgs(rows) /\ Msgs(batch') \subseteq Msgs(batch)
  BY <1>3, <1>4, MsgsOfEntries
<1>6. Types'
  BY <1>1, <1>3, <1>4 DEF Inv, Types
<1>7. Named'
  BY <1>3, <1>4 DEF Inv, Named
<1>8. Sent' /\ InHand'
  BY <1>1 DEF Inv, Sent, InHand
<1>9. Known'
  BY <1>1, <1>5 DEF Inv, Known
<1>10. NothingLost'
  <2>1. Msgs(rows) \subseteq Msgs(rows') \cup got
    <3> SUFFICES ASSUME NEW m \in Msgs(rows) PROVE m \in Msgs(rows') \cup got
      OBVIOUS
    <3>1. PICK r \in Entries(rows) : r.msg = m
      BY MsgsOfEntries
    <3>2. CASE r \in Entries(rows')
      BY <3>1, <3>2, MsgsOfEntries
    <3>3. CASE r.id = Head(batch).id
      <4>1. Head(batch) = r
        BY <1>3, <3>3 DEF Inv, Named
      <4> QED
        BY <1>2, <3>1, <4>1
    <3> QED
      BY <1>4, <3>2, <3>3
  <2>2. Spooled = Msgs(rows) /\ Spooled' = Msgs(rows')
    BY DEF Spooled, Msgs
  <2> QED
    BY <1>1, <2>1, <2>2 DEF Inv, NothingLost
<1> QED
  BY <1>6, <1>7, <1>8, <1>9, <1>10 DEF Inv

\* A message that went to paho or to cache_message, or to both (session "lost").
LEMMA PublishInv == ASSUME Inv, Publish PROVE Inv'
<1>1. /\ UNCHANGED <<batch, received, got>> /\ pc = "cycle" /\ next' = next + 1
      /\ next \in Messages
  BY DEF Publish
<1>2. next \in Nat \ {0} /\ outbox \in Seq(Messages) /\ Len(outbox) \in Nat /\ current = 0
  BY <1>1 DEF Inv, Types, InHand
<1>3. ASSUME outbox' \in {outbox, Append(outbox, next)}
      PROVE  /\ outbox' \in Seq(Messages) /\ received' \in 0 .. Len(outbox') /\ Sent'
             /\ Entries(outbox') \subseteq Entries(outbox) \cup {next}
  <2>1. CASE outbox' = outbox
    BY <1>1, <2>1 DEF Inv, Types, Sent
  <2>2. CASE outbox' = Append(outbox, next)
    <3>1. /\ outbox' \in Seq(Messages) /\ Entries(outbox') = Entries(outbox) \cup {next}
          /\ Len(outbox') = Len(outbox) + 1 /\ \A i \in 1 .. Len(outbox) : outbox'[i] = outbox[i]
      BY <1>1, <1>2, <2>2, AppendEntries
    <3>2. received \in 0 .. Len(outbox) /\ \A i \in 1 .. received : i \in 1 .. Len(outbox)
      BY <1>2 DEF Inv, Types
    <3> QED
      BY <1>1, <1>2, <3>1, <3>2 DEF Inv, Sent
  <2> QED
    BY <1>3, <2>1, <2>2
<1>4. \A m \in 1 .. next' - 1 : m \in 1 .. next - 1 \/ m = next
  BY <1>1, <1>2
<1>5. \A m \in Messages : m < next => m < next'
  BY <1>1, <1>2 DEF Messages
<1>6. next < next'
  BY <1>1, <1>2
<1>7. CASE /\ PahoPublish(next) /\ current' = next /\ pc' = "wait"
           /\ UNCHANGED <<spoolVars, gone>>
  <2>1. outbox' = Append(outbox, next) /\ next \in Entries(outbox')
    BY <1>1, <1>2, <1>7, AppendEntries DEF PahoPublish
  <2>2. Types' /\ Named' /\ Sent'
    BY <1>1, <1>2, <1>3, <1>7, <2>1 DEF Inv, Types, Named, spoolVars
  <2>3. InHand'
    BY <1>1, <1>7, <2>1 DEF InHand
  <2>4. Known'
    BY <1>1, <1>3, <1>5, <1>6, <1>7, <2>1 DEF Inv, Known, spoolVars
  <2>5. NothingLost'
    BY <1>1, <1>2, <1>4, <1>7 DEF Inv, NothingLost, Spooled, spoolVars
  <2> QED
    BY <2>2, <2>3, <2>4, <2>5 DEF Inv
<1>8. CASE /\ CacheMessage(next) /\ current' = current
           /\ outbox' \in {outbox, Append(outbox, next)}
  <2>1. /\ rows' \in Seq(Entry) /\ nextId' \in Nat /\ Named'
        /\ Msgs(rows) \cup {next} \subseteq Msgs(rows') \cup gone' \cup got
        /\ Msgs(rows') \subseteq Msgs(rows) \cup {next}
        /\ gone \subseteq gone' /\ gone' \subseteq gone \cup Msgs(rows) \cup {next}
        /\ pc' \in {"cycle", "sleep"}
    BY <1>1, <1>8, CacheKeeps DEF Inv
  <2>2. Types' /\ Sent'
    BY <1>1, <1>2, <1>3, <1>8, <2>1 DEF Inv, Types
  <2>3. InHand'
    BY <1>2, <1>8, <2>1 DEF InHand
  <2>4. Known'
    BY <1>1, <1>3, <1>5, <1>6, <1>8, <2>1 DEF Inv, Known
  <2>5. NothingLost'
    <3>1. Spooled = Msgs(rows) /\ Spooled' = Msgs(rows')
      BY DEF Spooled, Msgs
    <3>2. ASSUME NEW m \in 1 .. next - 1 PROVE m \in got \cup gone \cup Msgs(rows)
      <4>1. m # 0
        BY <1>2
      <4> QED
        BY <1>2, <3>1, <4>1 DEF Inv, NothingLost
    <3> QED
      BY <1>1, <1>4, <2>1, <3>1, <3>2 DEF NothingLost
  <2> QED
    BY <2>1, <2>2, <2>3, <2>4, <2>5 DEF Inv
<1> QED
  BY <1>7, <1>8 DEF Publish, PahoPublish

LEMMA PublishAcknowledgedInv == ASSUME Inv, PublishAcknowledged PROVE Inv'
<1>1. /\ UNCHANGED <<rows, nextId, batch, next, outbox, received, got, gone>>
      /\ pc = "wait" /\ pc' = "cycle" /\ current' = 0 /\ outbox = <<>>
  BY DEF PublishAcknowledged, IsPublished, spoolVars, clientVars
<1>2. current \in got
  BY <1>1 DEF Inv, InHand, Entries
<1>3. Types' /\ Named' /\ Sent' /\ InHand' /\ Known'
  BY <1>1 DEF Inv, Types, Named, Sent, InHand, Known
<1>4. NothingLost'
  BY <1>1, <1>2 DEF Inv, NothingLost, Spooled
<1> QED
  BY <1>3, <1>4 DEF Inv

LEMMA PublishTimeoutInv == ASSUME Inv, PublishTimeout PROVE Inv'
<1>1. /\ UNCHANGED <<batch, next, outbox, received, got>> /\ pc = "wait" /\ current' = 0
      /\ CacheMessage(current)
  BY DEF PublishTimeout, clientVars
<1>2. current \in Messages /\ current < next
  BY <1>1 DEF Inv, InHand, Known
<1>3. /\ rows' \in Seq(Entry) /\ nextId' \in Nat /\ Named'
      /\ Msgs(rows) \cup {current} \subseteq Msgs(rows') \cup gone' \cup got
      /\ Msgs(rows') \subseteq Msgs(rows) \cup {current}
      /\ gone \subseteq gone' /\ gone' \subseteq gone \cup Msgs(rows) \cup {current}
      /\ pc' \in {"cycle", "sleep"}
  BY <1>1, <1>2, CacheKeeps DEF Inv
<1>4. Types' /\ Sent' /\ InHand'
  BY <1>1, <1>3 DEF Inv, Types, Sent, InHand
<1>5. Known'
  BY <1>1, <1>2, <1>3 DEF Inv, Known
<1>6. NothingLost'
  <2>1. Spooled = Msgs(rows) /\ Spooled' = Msgs(rows')
    BY DEF Spooled, Msgs
  <2> QED
    BY <1>1, <1>3, <2>1 DEF Inv, NothingLost
<1> QED
  BY <1>3, <1>4, <1>5, <1>6 DEF Inv

-----------------------------------------------------------------------------
LEMMA BrokerReceivesInv == ASSUME Inv, BrokerReceives PROVE Inv'
<1>1. /\ UNCHANGED <<rows, nextId, batch, pc, current, next, outbox, gone>>
      /\ received' = received + 1 /\ received < Len(outbox)
      /\ got' = got \cup {outbox[received + 1]}
  BY DEF BrokerReceives, bridgeVars, spoolVars
<1>2. received \in Nat /\ Len(outbox) \in Nat /\ received + 1 \in 1 .. Len(outbox)
  BY <1>1 DEF Inv, Types
<1>3. outbox[received + 1] \in Entries(outbox)
  BY <1>2 DEF Entries
<1>4. Types' /\ Named'
  BY <1>1, <1>2 DEF Inv, Types, Named
<1>5. Sent'
  <2>1. \A i \in 1 .. received' : i \in 1 .. received \/ i = received + 1
    BY <1>1, <1>2
  <2> QED
    BY <1>1, <2>1 DEF Inv, Sent
<1>6. InHand' /\ Known'
  BY <1>1, <1>3 DEF Inv, InHand, Known
<1>7. NothingLost'
  BY <1>1 DEF Inv, NothingLost, Spooled
<1> QED
  BY <1>4, <1>5, <1>6, <1>7 DEF Inv

LEMMA PubackInv == ASSUME Inv, Puback PROVE Inv'
<1>1. /\ UNCHANGED <<rows, nextId, batch, pc, current, next, got, gone>>
      /\ received' = received - 1 /\ received > 0 /\ outbox' = Tail(outbox)
  BY DEF Puback, bridgeVars, spoolVars
<1>2. outbox \in Seq(Messages) /\ received \in 0 .. Len(outbox) /\ outbox # <<>>
  BY <1>1 DEF Inv, Types
<1>3. /\ outbox' \in Seq(Messages) /\ Len(outbox') = Len(outbox) - 1
      /\ \A i \in 1 .. Len(outbox) - 1 : outbox'[i] = outbox[i + 1]
      /\ Head(outbox) = outbox[1] /\ Len(outbox) \in Nat \ {0}
      /\ Entries(outbox) = {Head(outbox)} \cup Entries(outbox')
  BY <1>1, <1>2, TailEntries
<1>4. Head(outbox) \in got
  <2>1. 1 \in 1 .. received
    BY <1>1, <1>2
  <2> QED
    BY <1>3, <2>1 DEF Inv, Sent
<1>5. Types' /\ Named'
  BY <1>1, <1>2, <1>3 DEF Inv, Types, Named
<1>6. Sent'
  <2>1. \A i \in 1 .. received' : i \in 1 .. Len(outbox) - 1 /\ i + 1 \in 1 .. received
    BY <1>1, <1>2, <1>3
  <2> QED
    BY <1>1, <1>3, <2>1 DEF Inv, Sent
<1>7. InHand' /\ Known'
  BY <1>1, <1>3, <1>4 DEF Inv, InHand, Known
<1>8. NothingLost'
  BY <1>1 DEF Inv, NothingLost, Spooled
<1> QED
  BY <1>5, <1>6, <1>7, <1>8 DEF Inv

LEMMA CrashInv == ASSUME Inv, Crash PROVE Inv'
<1>1. /\ UNCHANGED <<rows, nextId, next, got>>
      /\ pc' = "sleep" /\ current' = 0 /\ batch' = <<>> /\ outbox' = <<>> /\ received' = 0
      /\ gone' = gone \cup ({current} \ ({0} \cup got))
  BY DEF Crash, spoolVars
<1>2. /\ batch' \in Seq(Entry) /\ Entries(batch') = {} /\ Msgs(batch') = {}
      /\ outbox' \in Seq(Messages) /\ Entries(outbox') = {} /\ Len(outbox') = 0
  BY <1>1, EmptySeq DEF Entries, Msgs
<1>3. Types' /\ Named' /\ Sent' /\ InHand'
  BY <1>1, <1>2 DEF Inv, Types, Named, Sent, InHand
<1>4. Known'
  <2>1. current # 0 => current \in Messages /\ current < next
    BY DEF Inv, InHand, Known
  <2> QED
    BY <1>1, <1>2, <2>1 DEF Inv, Known
<1>5. NothingLost'
  <2>1. \A m \in 1 .. next - 1 : m # 0
    BY DEF Inv, Types
  <2> QED
    BY <1>1, <2>1 DEF Inv, NothingLost, Spooled
<1> QED
  BY <1>3, <1>4, <1>5 DEF Inv

\* What is left changes neither the table nor a queue.
LEMMA OtherInv ==
  ASSUME Inv,
         \/ StartCycle \/ FlushTimeout \/ EndCycle \/ OnConnect \/ OnDisconnect
         \/ DropLink \/ UNCHANGED vars
  PROVE  Inv'
<1>1. UNCHANGED <<rows, nextId, outbox, got, gone, next, current>>
      /\ received' \in {0, received} /\ batch' \in {batch, <<>>}
  BY DEF StartCycle, FlushTimeout, EndCycle, OnConnect, OnDisconnect, DropLink,
         vars, spoolVars, clientVars, bridgeVars
<1>2. \/ pc # "wait" /\ pc' \notin {"wait", "flushWait"}
      \/ pc' = pc /\ batch' = batch
  BY DEF StartCycle, FlushTimeout, EndCycle, OnConnect, OnDisconnect, DropLink,
         vars, bridgeVars
<1>3. batch' \in Seq(Entry) /\ Entries(batch') \subseteq Entries(batch)
  <2>1. <<>> \in Seq(Entry) /\ Entries(<<>>) = {}
    BY EmptySeq DEF Entries
  <2> QED
    BY <1>1, <2>1 DEF Inv, Types
<1> QED
  BY <1>1, <1>2, <1>3, QuietStep

LEMMA NextInv == Inv /\ [Next]_vars => Inv'
  BY OtherInv, FlushReadInv, FlushSendInv, FlushAcknowledgedInv, PublishInv,
     PublishAcknowledgedInv, PublishTimeoutInv, BrokerReceivesInv, PubackInv, CrashInv
     DEF Next, Bridge, Network

LEMMA SpecInv == Spec => []Inv
  BY InitInv, NextInv, PTL DEF Spec

-----------------------------------------------------------------------------
\* No message that was handed to publish_or_cache is lost, whatever the link, the
\* acknowledgements and the process do and in whatever order: it is with the broker, on
\* disk, in the hand of the waiting call, or it was given up for want of room or in a
\* crash (cli.py:781-838).
THEOREM NoMessageIsLost == Spec => []NothingLost
<1>1. Inv => NothingLost
  BY DEF Inv
<1> QED
  BY <1>1, SpecInv, PTL

-----------------------------------------------------------------------------
(* The promise, without what must happen in the end.                        *)

\* Knowledge grows: nothing is unpublished, undelivered or taken back, and only what
\* paho holds can arrive.
LEMMA OnlyForward ==
  ASSUME Inv, [Next]_vars
  PROVE  /\ got \subseteq got' /\ gone \subseteq gone' /\ next \in Nat
         /\ next' \in {next, next + 1} /\ got' \subseteq got \cup Entries(outbox)
<1>1. next \in Nat
  BY DEF Inv, Types
<1>2. CASE BrokerReceives
  <2>1. received + 1 \in 1 .. Len(outbox)
    BY <1>2 DEF BrokerReceives, Inv, Types
  <2>2. outbox[received + 1] \in Entries(outbox)
    BY <2>1 DEF Entries
  <2> QED
    BY <1>1, <1>2, <2>2 DEF BrokerReceives, bridgeVars
<1>3. ASSUME NEW m, CacheMessage(m) PROVE gone \subseteq gone'
  BY <1>3 DEF CacheMessage
<1>4. CASE Publish \/ PublishTimeout
  BY <1>1, <1>3, <1>4 DEF Publish, PublishTimeout
<1>5. CASE Crash \/ UNCHANGED vars
  BY <1>1, <1>5 DEF Crash, vars
<1>6. CASE \/ StartCycle \/ FlushRead \/ FlushSend \/ FlushAcknowledged \/ FlushTimeout
           \/ PublishAcknowledged \/ EndCycle \/ OnConnect \/ OnDisconnect \/ Puback
           \/ DropLink
  BY <1>1, <1>6 DEF StartCycle, FlushRead, FlushSend, FlushAcknowledged, FlushTimeout,
     PublishAcknowledged, EndCycle, OnConnect, OnDisconnect, Puback, DropLink, bridgeVars
<1> QED
  BY <1>2, <1>4, <1>5, <1>6 DEF Next, Bridge, Network

LEMMA PromiseStep == Inv /\ [Next]_vars => [Promise!Next]_Status
<1> SUFFICES ASSUME Inv, [Next]_vars PROVE Promise!Next
  OBVIOUS
<1>1. /\ got \subseteq got' /\ gone \subseteq gone' /\ next \in Nat
      /\ next' \in {next, next + 1} /\ got' \subseteq got \cup Entries(outbox)
  BY OnlyForward
<1>2. \A m \in Messages : m \in got' => m \in got \/ m < next
  BY <1>1 DEF Inv, Known
<1>3. \A m \in Messages : m < next => m < next'
  BY <1>1 DEF Messages
<1>4. Status' \in [Messages -> {"new", "owed", "delivered", "given_up"}]
  BY DEF Status
<1>5. ASSUME NEW m \in Messages
      PROVE  Status'[m] = Status[m] \/ <<Status[m], Status'[m]>> \in Promise!Moves
  <2>1. Status[m] = IF m \in got THEN "delivered"
                    ELSE IF m \in gone THEN "given_up"
                    ELSE IF m < next THEN "owed" ELSE "new"
    BY DEF Status
  <2>2. Status'[m] = IF m \in got' THEN "delivered"
                     ELSE IF m \in gone' THEN "given_up"
                     ELSE IF m < next' THEN "owed" ELSE "new"
    BY DEF Status
  <2> QED
    BY <1>1, <1>2, <1>3, <2>1, <2>2 DEF Promise!Moves
<1> QED
  BY <1>4, <1>5 DEF Promise!Next

\* Each message moves forward only, from the hand of publish_or_cache to delivery or
\* to being given up, and nothing arrives that was not handed over
\* (docs/PRODUCTION.en.md:40, cli.py:781-838).
THEOREM PromiseIsKept == Spec => Promise!Safety
<1>1. Init => Promise!Init
  BY DEF Init, Promise!Init, Status, Messages
<1> QED
  BY <1>1, SpecInv, PromiseStep, PTL DEF Spec, Promise!Safety

-----------------------------------------------------------------------------
(* Nothing is sent twice as long as nothing fails.                          *)

Distinct(s) == \A i, j \in 1 .. Len(s) : s[i].msg = s[j].msg => i = j

\* Before the first fault paho holds at most the message that is waited for, the broker
\* has nothing of what is on disk but the head of the batch, and every message is in one
\* row at most.
Calm ==
    faults = 0 =>
        /\ session # "lost"
        /\ session = "offline" => outbox = <<>>
        /\ pc \notin {"wait", "flushWait"} => outbox = <<>>
        /\ pc = "wait" => outbox \in {<<>>, <<current>>} /\ current \notin Msgs(rows)
        /\ pc = "flushWait" => outbox \in {<<>>, <<Head(batch).msg>>}
        /\ \A i \in received + 1 .. Len(outbox) : outbox[i] \notin got
        /\ \A m \in Msgs(rows) \cap got : pc = "flushWait" /\ m = Head(batch).msg
        /\ \A i \in 1 .. Len(batch) : batch[i].msg \in got => pc = "flushWait" /\ i = 1
        /\ pc \notin {"flush", "flushWait"} => batch = <<>>
        /\ Distinct(rows) /\ Distinct(batch)
        /\ \A a \in Entries(batch), b \in Entries(rows) : a.msg = b.msg => a.id = b.id

CalmInv == Inv /\ faults \in Nat /\ Calm

LEMMA DistinctPart ==
  ASSUME NEW s \in Seq(Entry), NEW a \in 1 .. Len(s) + 1, NEW b \in 0 .. Len(s), Distinct(s)
  PROVE  Distinct(SubSeq(s, a, b))
<1> DEFINE t == SubSeq(s, a, b)
<1>1. Len(s) \in Nat /\ \A i \in a .. b : i \in 1 .. Len(s) /\ s[i] \in Entry
  OBVIOUS
<1>2. \A i \in 1 .. b - a + 1 : t[i] = s[a + i - 1]
  BY <1>1, SubSeqProperties
<1>3. Len(t) = IF a <= b THEN b - a + 1 ELSE 0
  BY <1>1, SubSeqProperties
<1> HIDE DEF t
<1>4. \A i \in 1 .. Len(t) : a + i - 1 \in 1 .. Len(s) /\ t[i] = s[a + i - 1]
  BY <1>1, <1>2, <1>3
<1>5. Distinct(t)
  <2> SUFFICES ASSUME NEW i \in 1 .. Len(t), NEW j \in 1 .. Len(t), t[i].msg = t[j].msg
               PROVE  i = j
    BY DEF Distinct
  <2>1. a + i - 1 = a + j - 1
    BY <1>4 DEF Distinct
  <2>2. a \in Int /\ i \in Int /\ j \in Int
    BY <1>3
  <2> QED
    BY <2>1, <2>2
<1> QED
  BY <1>5 DEF t

LEMMA DistinctAppend ==
  ASSUME NEW s \in Seq(Entry), NEW e \in Entry, Distinct(s), e.msg \notin Msgs(s)
  PROVE  Distinct(Append(s, e))
<1> DEFINE t == Append(s, e)
<1>1. /\ Len(t) = Len(s) + 1 /\ Len(s) \in Nat
      /\ t[Len(s) + 1] = e /\ \A i \in 1 .. Len(s) : t[i] = s[i]
  OBVIOUS
<1> HIDE DEF t
<1>2. \A i \in 1 .. Len(t) : i \in 1 .. Len(s) \/ i = Len(s) + 1
  BY <1>1
<1>3. \A i \in 1 .. Len(s) : t[i].msg # e.msg
  BY <1>1 DEF Msgs
<1> QED
  BY <1>1, <1>2, <1>3 DEF Distinct, t

\* A message that is new to the table stays in one row.
LEMMA EnqueueDistinct ==
  ASSUME NEW m \in Messages, rows \in Seq(Entry), nextId \in Nat, Spool!Enqueue(m),
         Distinct(rows), m \notin Msgs(rows)
  PROVE  Distinct(rows')
<1> DEFINE row == [id |-> nextId, msg |-> m]
<1>1. PICK k \in Spool!Evictions(rows, Size[m], MaxBytes) :
         rows' = Append(Spool!WithoutOldest(rows, k), row)
  BY DEF Spool!Enqueue
<1>2. k + 1 \in 1 .. Len(rows) + 1 /\ Len(rows) \in 0 .. Len(rows)
  BY <1>1 DEF Spool!Evictions
<1> DEFINE kept == SubSeq(rows, k + 1, Len(rows))
<1>3. /\ kept \in Seq(Entry) /\ Distinct(kept)
      /\ Entries(kept) = {rows[i] : i \in k + 1 .. Len(rows)}
  BY <1>2, PartEntries, DistinctPart
<1>4. row \in Entry /\ row.msg = m /\ rows' = Append(kept, row)
  BY <1>1 DEF Entry, Spool!WithoutOldest
<1> HIDE DEF kept, row
<1>5. m \notin Msgs(kept)
  <2>1. k + 1 .. Len(rows) \subseteq 1 .. Len(rows)
    BY <1>2
  <2>2. Entries(kept) \subseteq Entries(rows)
    BY <1>3, <2>1 DEF Entries
  <2> QED
    BY <2>2, MsgsOfEntries
<1> QED
  BY <1>3, <1>4, <1>5, DistinctAppend

\* A deleted message is in no row any more.
LEMMA DeleteDistinct ==
  ASSUME NEW id, rows \in Seq(Entry), Spool!Delete(id), Distinct(rows)
  PROVE  /\ Distinct(rows')
         /\ \A e \in Entries(rows) : e.id = id => \E d \in Entries(rows) :
                d.id = id /\ d.msg \notin Msgs(rows')
<1>1. CASE rows' = rows /\ \A i \in 1 .. Len(rows) : rows[i].id # id
  BY <1>1 DEF Entries
<1>2. ASSUME NEW k \in 1 .. Len(rows), rows[k].id = id,
             rows' = SubSeq(rows, 1, k - 1) \o SubSeq(rows, k + 1, Len(rows))
      PROVE  Distinct(rows') /\ rows[k].msg \notin Msgs(rows')
  <2> DEFINE a == SubSeq(rows, 1, k - 1)
             b == SubSeq(rows, k + 1, Len(rows))
  <2>1. /\ Len(rows) \in Nat /\ \A i \in 1 .. k - 1 : rows[i] \in Entry
        /\ \A i \in k + 1 .. Len(rows) : rows[i] \in Entry
    OBVIOUS
  <2>2. a \in Seq(Entry) /\ Len(a) = k - 1 /\ \A i \in 1 .. k - 1 : a[i] = rows[i]
    BY <2>1, SubSeqProperties
  <2>3. /\ b \in Seq(Entry) /\ Len(b) = Len(rows) - k
        /\ \A i \in 1 .. Len(rows) - k : b[i] = rows[k + i]
    BY <2>1, SubSeqProperties
  <2>4. rows' = a \o b
    BY <1>2
  <2> HIDE DEF a, b
  <2>5. /\ Len(rows') = Len(a) + Len(b)
        /\ \A i \in 1 .. Len(rows') : rows'[i] = IF i <= Len(a) THEN a[i] ELSE b[i - Len(a)]
    <3>1. /\ Len(a \o b) = Len(a) + Len(b)
          /\ \A i \in 1 .. Len(a) + Len(b) :
                (a \o b)[i] = IF i <= Len(a) THEN a[i] ELSE b[i - Len(a)]
      BY <2>2, <2>3, ConcatProperties
    <3> QED
      BY <2>4, <3>1
  <2> DEFINE from(i) == IF i < k THEN i ELSE i + 1
  <2>6. \A i \in 1 .. Len(rows') :
           from(i) \in 1 .. Len(rows) /\ from(i) # k /\ rows'[i] = rows[from(i)]
    BY <2>1, <2>2, <2>3, <2>5
  <2>7. \A i, j \in 1 .. Len(rows') : from(i) = from(j) => i = j
    BY <2>1, <2>2, <2>3, <2>5
  <2> HIDE DEF from
  <2>8. Distinct(rows')
    BY <2>6, <2>7 DEF Distinct
  <2>9. \A i \in 1 .. Len(rows') : rows'[i].msg # rows[k].msg
    BY <2>6 DEF Distinct
  <2> QED
    BY <2>8, <2>9 DEF Msgs
<1>3. CASE \E k \in 1 .. Len(rows) :
              /\ rows[k].id = id
              /\ rows' = SubSeq(rows, 1, k - 1) \o SubSeq(rows, k + 1, Len(rows))
  <2>1. PICK k \in 1 .. Len(rows) :
              /\ rows[k].id = id
              /\ rows' = SubSeq(rows, 1, k - 1) \o SubSeq(rows, k + 1, Len(rows))
    BY <1>3
  <2> QED
    BY <1>2, <2>1 DEF Entries
<1> QED
  BY <1>1, <1>3 DEF Spool!Delete

-----------------------------------------------------------------------------
LEMMA CalmInit == Init => CalmInv
<1> SUFFICES ASSUME Init PROVE CalmInv
  OBVIOUS
<1>1. /\ rows = <<>> /\ batch = <<>> /\ outbox = <<>> /\ received = 0 /\ got = {}
      /\ pc = "sleep" /\ session = "offline" /\ faults = 0
  BY DEF Init
<1>2. Distinct(<<>>)
  BY DEF Distinct
<1>3. Msgs(rows) = {} /\ Entries(rows) = {}
  BY <1>1 DEF Msgs, Entries
<1> QED
  BY <1>1, <1>2, <1>3, InitInv DEF CalmInv, Calm

LEMMA CalmFlushRead == ASSUME CalmInv, faults = 0, FlushRead PROVE Calm'
<1> USE DEF CalmInv
<1>1. /\ UNCHANGED <<rows, outbox, received, got, current, session>>
      /\ pc = "flush" /\ outbox = <<>>
  BY DEF FlushRead, spoolVars, clientVars, Calm
<1>2. CASE batch' = Spool!Oldest(BatchLimit) /\ pc' = pc
  <2> DEFINE last == IF BatchLimit < Len(rows) THEN BatchLimit ELSE Len(rows)
  <2>1. /\ rows \in Seq(Entry) /\ 1 \in 1 .. Len(rows) + 1 /\ last \in 0 .. Len(rows)
        /\ BatchLimit \in Nat \ {0}
    BY DeliveryAssumption DEF Inv, Types
  <2>2. batch' = SubSeq(rows, 1, last)
    BY <1>2 DEF Spool!Oldest
  <2> HIDE DEF last
  <2>3. Distinct(rows) /\ Distinct(batch')
    BY <2>1, <2>2, DistinctPart DEF Calm
  <2>4. Entries(batch') \subseteq Entries(rows)
    BY <1>2, <2>1, OldestEntries
  <2>5. \A a \in Entries(batch'), b \in Entries(rows) : a.msg = b.msg => a.id = b.id
    <3> SUFFICES ASSUME NEW a \in Entries(rows), NEW b \in Entries(rows), a.msg = b.msg
                 PROVE  a.id = b.id
      BY <2>4
    <3>1. PICK i \in 1 .. Len(rows), j \in 1 .. Len(rows) : a = rows[i] /\ b = rows[j]
      BY DEF Entries
    <3> QED
      BY <2>3, <3>1 DEF Distinct
  <2>6. Msgs(rows) \cap got = {}
    BY <1>1 DEF Calm
  <2>7. \A i \in 1 .. Len(batch') : batch'[i].msg \notin got
    <3>1. \A i \in 1 .. Len(batch') : batch'[i] \in Entries(batch')
      BY DEF Entries
    <3> QED
      BY <2>4, <2>6, <3>1, MsgsOfEntries
  <2> QED
    BY <1>1, <1>2, <2>3, <2>5, <2>6, <2>7 DEF Calm
<1>3. CASE batch' = batch /\ pc' = "cycle" /\ batch = <<>>
  BY <1>1, <1>3 DEF Calm
<1> QED
  BY <1>2, <1>3 DEF FlushRead

LEMMA CalmFlushSend == ASSUME CalmInv, faults = 0, FlushSend PROVE Calm'
<1> USE DEF CalmInv
<1>1. /\ UNCHANGED <<rows, received, got, current, session>>
      /\ pc = "flush" /\ batch # <<>> /\ outbox = <<>> /\ session # "lost"
      /\ batch \in Seq(Entry)
  BY DEF FlushSend, spoolVars, Calm, Inv, Types
<1>2. CASE PahoPublish(Head(batch).msg) /\ pc' = "flushWait" /\ batch' = batch
           /\ session = "online"
  <2> DEFINE m == Head(batch).msg
  <2>1. Head(batch) = batch[1] /\ 1 \in 1 .. Len(batch)
    BY <1>1, TailEntries
  <2>2. m \notin got
    BY <1>1, <2>1 DEF Calm
  <2>3. outbox' = <<m>> /\ received = 0
    BY <1>1, <1>2 DEF PahoPublish, Inv, Types
  <2>4. \A i \in received' + 1 .. Len(outbox') : outbox'[i] \notin got'
    BY <1>1, <2>2, <2>3
  <2> QED
    BY <1>1, <1>2, <2>3, <2>4 DEF Calm
<1>3. CASE outbox' = outbox /\ pc' = "cycle" /\ batch' = <<>>
  <2>1. Distinct(<<>>) /\ Entries(<<>>) = {}
    BY DEF Distinct, Entries
  <2> QED
    BY <1>1, <1>3, <2>1 DEF Calm
<1> QED
  BY <1>1, <1>2, <1>3 DEF FlushSend

LEMMA CalmFlushAcknowledged == ASSUME CalmInv, faults = 0, FlushAcknowledged PROVE Calm'
<1> USE DEF CalmInv
<1>1. /\ UNCHANGED <<outbox, received, got, current, session>> /\ pc = "flushWait"
      /\ pc' = "flush" /\ batch' = Tail(batch) /\ outbox = <<>>
      /\ Spool!Delete(Head(batch).id)
  BY DEF FlushAcknowledged, IsPublished, clientVars
<1>2. batch \in Seq(Entry) /\ batch # <<>> /\ rows \in Seq(Entry) /\ Distinct(rows)
      /\ Distinct(batch)
  BY <1>1 DEF Inv, InHand, Types, Calm
<1>3. /\ Head(batch) = batch[1] /\ Len(batch') = Len(batch) - 1 /\ Len(batch) \in Nat \ {0}
      /\ \A i \in 1 .. Len(batch) - 1 : batch'[i] = batch[i + 1]
      /\ Head(batch) \in Entries(batch) /\ Entries(batch') \subseteq Entries(batch)
  BY <1>1, <1>2, TailEntries
<1>4. \A i \in 1 .. Len(batch') : i + 1 \in 1 .. Len(batch) /\ batch'[i] = batch[i + 1]
  BY <1>3
<1>5. \A i \in 1 .. Len(batch') : batch'[i].msg \notin got
  BY <1>3, <1>4 DEF Calm
<1>6. Distinct(batch')
  BY <1>2, <1>3, <1>4 DEF Distinct
<1>7. /\ Distinct(rows') /\ Entries(rows') \subseteq Entries(rows)
      /\ \A e \in Entries(rows) : e.id = Head(batch).id => \E d \in Entries(rows) :
             d.id = Head(batch).id /\ d.msg \notin Msgs(rows')
  BY <1>1, <1>2, DeleteDistinct, DeleteEntries
<1>8. Head(batch).msg \notin Msgs(rows')
  <2> SUFFICES ASSUME Head(batch).msg \in Msgs(rows') PROVE FALSE
    OBVIOUS
  <2>1. PICK e \in Entries(rows') : e.msg = Head(batch).msg
    BY MsgsOfEntries
  <2>2. e \in Entries(rows) /\ e.id = Head(batch).id
    BY <1>3, <1>7, <2>1 DEF Calm
  <2>3. PICK d \in Entries(rows) : d.id = Head(batch).id /\ d.msg \notin Msgs(rows')
    BY <1>7, <2>2
  <2>4. d = Head(batch)
    BY <1>3, <2>3 DEF Inv, Named
  <2> QED
    BY <2>3, <2>4
<1>9. Msgs(rows') \cap got = {}
  <2>1. Msgs(rows') \subseteq Msgs(rows)
    BY <1>7, MsgsOfEntries
  <2> QED
    BY <1>8, <2>1 DEF Calm
<1> QED
  BY <1>1, <1>3, <1>5, <1>6, <1>7, <1>9 DEF Calm

LEMMA CalmPublish == ASSUME CalmInv, faults = 0, Publish PROVE Calm'
<1> USE DEF CalmInv
<1>1. /\ UNCHANGED <<batch, received, got, session>> /\ pc = "cycle" /\ next \in Messages
      /\ outbox = <<>> /\ batch = <<>> /\ session # "lost" /\ received = 0
      /\ outbox \in Seq(Messages)
  BY DEF Publish, Calm, Inv, Types
<1>2. next \notin Msgs(rows) /\ next \notin got
  BY <1>1 DEF Inv, Known, Types
<1>3. CASE /\ session = "online" /\ PahoPublish(next) /\ current' = next /\ pc' = "wait"
           /\ UNCHANGED <<spoolVars, gone>>
  <2>1. outbox' = <<next>> /\ rows' = rows
    BY <1>1, <1>3 DEF PahoPublish, spoolVars
  <2>2. \A i \in received' + 1 .. Len(outbox') : outbox'[i] \notin got'
    BY <1>1, <1>2, <2>1
  <2> QED
    BY <1>1, <1>2, <1>3, <2>1, <2>2 DEF Calm
<1>4. CASE session = "offline" /\ CacheMessage(next) /\ UNCHANGED <<current, outbox>>
  <2>1. pc' \in {"cycle", "sleep"}
    BY <1>4 DEF CacheMessage
  <2>2. /\ Distinct(rows') /\ Msgs(rows') \subseteq Msgs(rows) \cup {next}
    <3>1. CASE Spool!Enqueue(next)
      BY <1>1, <1>2, <1>4, <3>1, EnqueueDistinct, CacheKeeps DEF Calm, Inv, Types
    <3>2. CASE UNCHANGED spoolVars
      BY <3>2 DEF Calm, spoolVars
    <3> QED
      BY <1>4, <3>1, <3>2 DEF CacheMessage
  <2>3. Msgs(rows') \cap got = {}
    BY <1>1, <1>2, <2>2 DEF Calm
  <2>4. Entries(batch) = {}
    BY <1>1 DEF Entries
  <2> QED
    BY <1>1, <1>4, <2>1, <2>2, <2>3, <2>4 DEF Calm
<1> QED
  BY <1>1, <1>3, <1>4 DEF Publish

LEMMA CalmBrokerReceives == ASSUME CalmInv, faults = 0, BrokerReceives PROVE Calm'
<1> USE DEF CalmInv
<1>1. /\ UNCHANGED <<rows, batch, pc, current, outbox, session>>
      /\ received' = received + 1 /\ received < Len(outbox) /\ session = "online"
      /\ got' = got \cup {outbox[received + 1]}
  BY DEF BrokerReceives, bridgeVars, spoolVars
<1>2. /\ received \in Nat /\ Len(outbox) = 1 /\ received = 0
      /\ \/ pc = "wait" /\ outbox = <<current>>
         \/ pc = "flushWait" /\ outbox = <<Head(batch).msg>>
  BY <1>1 DEF Calm, Inv, Types
<1>3. \A i \in received' + 1 .. Len(outbox) : FALSE
  BY <1>1, <1>2
<1>4. CASE pc = "wait" /\ outbox = <<current>>
  <2>1. got' = got \cup {current} /\ batch = <<>>
    BY <1>1, <1>2, <1>4 DEF Calm
  <2> QED
    BY <1>1, <1>3, <1>4, <2>1 DEF Calm
<1>5. CASE pc = "flushWait" /\ outbox = <<Head(batch).msg>>
  <2>1. got' = got \cup {Head(batch).msg} /\ batch # <<>> /\ batch \in Seq(Entry)
    BY <1>1, <1>2, <1>5 DEF Inv, InHand, Types
  <2>2. Head(batch) = batch[1] /\ 1 \in 1 .. Len(batch)
    BY <2>1, TailEntries
  <2>3. \A i \in 1 .. Len(batch) : batch[i].msg = Head(batch).msg => i = 1
    BY <2>2 DEF Calm, Distinct
  <2> QED
    BY <1>1, <1>3, <1>5, <2>1, <2>3 DEF Calm
<1> QED
  BY <1>2, <1>4, <1>5

LEMMA CalmOther ==
  ASSUME CalmInv, faults = 0,
         \/ StartCycle \/ PublishAcknowledged \/ EndCycle \/ OnConnect \/ OnDisconnect
         \/ Puback \/ UNCHANGED vars
  PROVE  Calm'
<1> USE DEF CalmInv
<1>1. CASE UNCHANGED vars
  BY <1>1 DEF Calm, vars, spoolVars, clientVars
<1>2. CASE StartCycle \/ EndCycle
  BY <1>2 DEF StartCycle, EndCycle, Calm, spoolVars, clientVars
<1>3. CASE PublishAcknowledged
  BY <1>3 DEF PublishAcknowledged, IsPublished, Calm, spoolVars, clientVars
<1>4. CASE OnConnect \/ OnDisconnect
  BY <1>4 DEF OnConnect, OnDisconnect, Calm, bridgeVars, spoolVars
<1>5. CASE Puback
  <2>1. UNCHANGED <<rows, batch, pc, current, session, got>> /\ outbox' = Tail(outbox)
        /\ received > 0 /\ received' = received - 1
    BY <1>5 DEF Puback, bridgeVars, spoolVars
  <2>2. outbox # <<>> /\ received \in Nat
    BY <2>1 DEF Inv, Types
  <2>3. outbox' = <<>>
    <3>1. \E m : outbox = <<m>>
      BY <2>2 DEF Calm
    <3> QED
      BY <2>1, <3>1
  <2>4. received' \in Nat
    BY <2>1, <2>2
  <2>5. Len(outbox') = 0
    BY <2>3
  <2>6. \A i \in received' + 1 .. Len(outbox') : FALSE
    <3>1. \A n \in Nat : \A i \in n + 1 .. 0 : FALSE
      OBVIOUS
    <3> QED
      BY <2>4, <2>5, <3>1
  <2> QED
    BY <2>1, <2>3, <2>6 DEF Calm
<1> QED
  BY <1>1, <1>2, <1>3, <1>4, <1>5

LEMMA CalmNext == CalmInv /\ [Next]_vars => CalmInv'
<1> SUFFICES ASSUME CalmInv, [Next]_vars PROVE CalmInv'
  OBVIOUS
<1>1. Inv'
  BY NextInv DEF CalmInv
<1>2. faults' \in Nat /\ (faults' = 0 => faults = 0)
  BY DEF CalmInv, Next, Bridge, Network, StartCycle, FlushRead, FlushSend,
     FlushAcknowledged, FlushTimeout, Publish, PublishAcknowledged, PublishTimeout,
     EndCycle, OnConnect, OnDisconnect, BrokerReceives, Puback, DropLink, Crash, Fault,
     vars
<1>3. ASSUME faults' # 0 PROVE Calm'
  BY <1>3 DEF Calm
<1>4. ASSUME faults' = 0 PROVE Calm'
  <2>1. faults = 0 /\ ~(FlushTimeout \/ PublishTimeout \/ DropLink \/ Crash)
    BY <1>2, <1>4 DEF FlushTimeout, PublishTimeout, DropLink, Crash, Fault, CalmInv
  <2> QED
    BY <2>1, CalmFlushRead, CalmFlushSend, CalmFlushAcknowledged, CalmPublish,
       CalmBrokerReceives, CalmOther DEF Next, Bridge, Network
<1> QED
  BY <1>1, <1>2, <1>3, <1>4 DEF CalmInv

\* While nothing fails no message reaches the broker twice, for any number of messages and
\* any batches: what the flush sends is deleted before it is read again, and only what
\* could not be sent is on disk (cli.py:781-838, mqtt_cache.py:101-122).
THEOREM SentOnce == Spec => OnceWithoutFaults
<1>1. CalmInv /\ [Next]_vars =>
        [received' = received + 1 /\ faults = 0 => outbox[received'] \notin got]_vars
  <2> SUFFICES ASSUME CalmInv, [Next]_vars, received' = received + 1, faults = 0
               PROVE  outbox[received'] \notin got
    OBVIOUS
  <2>1. received \in Nat
    BY DEF CalmInv, Inv, Types
  <2>2. BrokerReceives
    BY <2>1 DEF Next, Bridge, Network, StartCycle, FlushRead, FlushSend,
       FlushAcknowledged, FlushTimeout, Publish, PublishAcknowledged, PublishTimeout,
       EndCycle, OnConnect, OnDisconnect, Puback, DropLink, Crash, vars, clientVars
  <2>3. received' \in received + 1 .. Len(outbox)
    BY <2>1, <2>2 DEF BrokerReceives, CalmInv, Inv, Types
  <2> QED
    BY <2>3 DEF CalmInv, Calm
<1> QED
  BY <1>1, CalmInit, CalmNext, PTL DEF Spec, OnceWithoutFaults
=============================================================================
