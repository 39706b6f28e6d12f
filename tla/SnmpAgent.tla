----------------------------- MODULE SnmpAgent -----------------------------
(***************************************************************************)
(* The SNMP responder of snmp.py: the table built from the current         *)
(* snapshot (mib), GET and GETNEXT on it (respond) and the BER forms of    *)
(* object identifiers and integers, under a manager that walks the subtree *)
(* while polling cycles replace the snapshot.                              *)
(*                                                                         *)
(* Of a device the table needs its address, its rssi, which of the other   *)
(* columns have a value, and how many scalars its data holds.              *)
(***************************************************************************)
EXTENDS Integers, Sequences, FiniteSetsExt

CONSTANTS
    Addresses,      \* in the order of sorted(devices.items())
    Numbers, Absent,    \* rssi values; Absent when there is none
    Identity,       \* columns every row has: index, address, name, ...
    Measured,       \* columns a row may lack: temperature, presence, ...
    ScalarColumns,  \* of the generic table: key, rendered value, ...
    MaxScalars,     \* scalar values per device
    Bases           \* values of --snmp-base-oid

\* What parse_oid admits.
ParsedOids ==
    {oid \in Seq(Nat) : /\ Len(oid) >= 3
                        /\ oid[1] \in 0 .. 2
                        /\ oid[1] < 2 => oid[2] <= 39
                        /\ \A i \in 1 .. Len(oid) : oid[i] <= 2147483647}

ASSUME AgentAssumption ==
    /\ Addresses \subseteq Nat /\ IsFiniteSet(Addresses)
    /\ Numbers \subseteq Int /\ Absent \notin Numbers
    /\ Identity \cup Measured \subseteq Nat \ {0, 4} /\ 2 \in Identity
    /\ ScalarColumns \subseteq Nat \ {0}
    /\ IsFiniteSet(Identity) /\ IsFiniteSet(Measured) /\ IsFiniteSet(ScalarColumns)
    /\ MaxScalars \in Nat
    /\ Bases \subseteq ParsedOids

VARIABLES
    base,       \* the configured base OID
    snapshot,   \* the devices in the SensorStore
    cursor,     \* the OID the manager asks from; Silence between two walks
    walked,     \* <<OID, cell>> answers of this walk
    still,      \* the snapshot was not replaced since the walk began
    complete    \* the last walk of a still snapshot gave all of the table

Silence == <<>>     \* no OID, no answer

snmpVars == <<base, snapshot, cursor, walked, still, complete>>

Payload == [rssi : Numbers \cup {Absent}, columns : SUBSET Measured, scalars : 0 .. MaxScalars]
Snapshots == UNION {[found -> Payload] : found \in SUBSET Addresses}

-----------------------------------------------------------------------------
(* BER, as sequences of bytes.                                              *)

\* One arc: base 128, most significant first, all bytes but the last marked.
ArcBytes(n) ==
    LET marked[k \in 0 .. n] ==
            IF k = 0 THEN <<>> ELSE Append(marked[k \div 128], 128 + (k % 128))
    IN  Append(marked[n \div 128], n % 128)

\* The arcs from the third on, behind what stands for the first two.
Body(start, oid) ==
    LET body[i \in 0 .. Len(oid) - 2] ==
            IF i = 0 THEN start ELSE body[i - 1] \o ArcBytes(oid[i + 2])
    IN  body[Len(oid) - 2]

\* _oid: the first two arcs share one byte; bytearray() raises above 255.
Root(oid) == 40 * oid[1] + oid[2]
Encodable(oid) == Root(oid) <= 255
EncodeOid(oid) == Body(<<Root(oid)>>, oid)

\* The loop of _decode_oid: the values so far and the one that is being read.
Reading(sofar, byte) ==
    LET value == sofar.value * 128 + (byte % 128)
    IN  IF byte >= 128 THEN [sofar EXCEPT !.value = value]
        ELSE [values |-> Append(sofar.values, value), value |-> 0]

Arcs(bytes) ==
    LET sofar[i \in 0 .. Len(bytes)] ==
            IF i = 0 THEN [values |-> <<>>, value |-> 0]
            ELSE Reading(sofar[i - 1], bytes[i])
    IN  sofar[Len(bytes)].values

DecodeOidByteArcs(bytes) == \* mutant: the continuation bit is ignored
    <<bytes[1] \div 40, bytes[1] % 40>> \o [i \in 1 .. Len(bytes) - 1 |-> bytes[i + 1] % 128]

\* _decode_oid.
DecodeOid(bytes) == <<bytes[1] \div 40, bytes[1] % 40>> \o Arcs(Tail(bytes))

\* What a manager sends and understands (X.690 8.19): the first two arcs are
\* one subidentifier like the others.
ManagerEncodes(oid) == Body(ArcBytes(Root(oid)), oid)

ManagerDecodes(bytes) ==
    LET arcs  == Arcs(bytes)
        first == Min({2, arcs[1] \div 40})
    IN  <<first, arcs[1] - 40 * first>> \o Tail(arcs)

BitLength(v) ==
    LET size == IF v < 0 THEN -v ELSE v
        bits[n \in 0 .. size] == IF n = 0 THEN 0 ELSE 1 + bits[n \div 2]
    IN  bits[size]

WidthUnsigned(v) == Max({1, (BitLength(v) + 7) \div 8}) \* mutant: no room for the sign
Width(v) == Max({1, (BitLength(v) + 8) \div 8})

\* int.to_bytes(width, "big", signed=True), of a number that fits.
ToBytes(v, width) ==
    LET shifted[i \in 0 .. width] == IF i = 0 THEN v ELSE shifted[i - 1] \div 256
    IN  [i \in 1 .. width |-> shifted[width - i] % 256]

\* _integer: leading bytes go as long as they only repeat the sign.
EncodeInteger(v) ==
    LET raw == ToBytes(v, Width(v))
        Redundant(i) == \/ raw[i] = 0 /\ raw[i + 1] < 128
                        \/ raw[i] = 255 /\ raw[i + 1] >= 128
        dropped == Min({k \in 0 .. Len(raw) - 1 : k = Len(raw) - 1 \/ ~Redundant(k + 1)})
    IN  SubSeq(raw, dropped + 1, Len(raw))

\* int.from_bytes(bytes, "big", signed=True), as _decode_int and a manager read.
DecodeInteger(bytes) ==
    LET value[i \in 0 .. Len(bytes)] ==
            IF i = 0 THEN (IF bytes[1] >= 128 THEN -1 ELSE 0)
            ELSE value[i - 1] * 256 + bytes[i]
    IN  value[Len(bytes)]

-----------------------------------------------------------------------------
\* The row index of a device: its place in the sorted snapshot.
Index(d) == Cardinality({e \in DOMAIN snapshot : e <= d})

Columns(d) ==
    Identity \cup snapshot[d].columns \cup (IF snapshot[d].rssi = Absent THEN {} ELSE {4})

\* mib(): the device table below .10.1, the generic table below .20.1.  A cell
\* names what it shows; rssi stands for the numeric ones.
Mib ==
    LET cell(d, c) == IF c = 4 THEN <<"integer", EncodeInteger(snapshot[d].rssi)>>
                      ELSE <<"octets", d, c>>
        row(d) == {<<base \o <<10, 1, c, Index(d)>>, cell(d, c)>> : c \in Columns(d)}
        values(d) == {<<base \o <<20, 1, c, Index(d), v>>, <<"octets", d, c, v>>>> :
                         c \in ScalarColumns, v \in 1 .. snapshot[d].scalars}
    IN  {<<base \o <<1, 0>>, <<"version">>>>,
         <<base \o <<2, 0>>, <<"integer", EncodeInteger(Cardinality(DOMAIN snapshot))>>>>}
        \cup UNION {row(d) \cup values(d) : d \in DOMAIN snapshot}

\* Python compares tuples: at the first difference, else by length.
Before(a, b) ==
    \E i \in 1 .. Len(b) :
        /\ \A j \in 1 .. i - 1 : j <= Len(a) /\ a[j] = b[j]
        /\ i = Len(a) + 1 \/ (i <= Len(a) /\ a[i] < b[i])

\* The row GETNEXT selects, if there is one.
Successor(table, oid) ==
    {row \in table : Before(oid, row[1]) /\ \A other \in table :
                        Before(oid, other[1]) => ~Before(other[1], row[1])}

\* respond() to a GETNEXT: <<OID, cell>> in bytes, or Silence if _oid raises.
EndOfMibView == <<"endOfMibView">>
GetNext(table, bytes) ==
    LET requested == DecodeOid(bytes)
        selected  == Successor(table, requested)
        answer(oid, cell) ==
            IF Encodable(oid) THEN <<EncodeOid(oid), cell>> ELSE Silence
    IN  IF selected = {} THEN answer(requested, EndOfMibView)
        ELSE LET row == CHOOSE row \in selected : TRUE IN answer(row[1], row[2])

\* ... and to a GET.
NoSuchObject == <<"noSuchObject">>
Get(table, bytes) ==
    LET oid  == DecodeOid(bytes)
        rows == {row \in table : row[1] = oid}
    IN  IF rows = {} THEN NoSuchObject ELSE (CHOOSE row \in rows : TRUE)[2]

-----------------------------------------------------------------------------
SnmpInit ==
    /\ base \in Bases
    /\ snapshot \in Snapshots
    /\ cursor = Silence
    /\ walked = <<>>
    /\ still = TRUE
    /\ complete = TRUE

\* SensorStore.replace, by the polling cycle.
ReplaceSnapshot ==
    /\ snapshot' \in Snapshots
    /\ still' = FALSE
    /\ walked' = <<>>
    /\ UNCHANGED <<base, cursor, complete>>

StartWalk ==
    /\ cursor = Silence
    /\ cursor' = base
    /\ walked' = <<>>
    /\ still' = TRUE
    /\ UNCHANGED <<base, snapshot, complete>>

\* What a walk of a snapshot that stays must have given: the whole table in order,
\* each cell also what GET answers for it.
Complete(answers) ==
    LET table == Mib
        Place(row) == Cardinality({other \in table : ~Before(row[1], other[1])})
    IN  /\ Len(answers) = Cardinality(table)
        /\ \A row \in table : answers[Place(row)] = row
        /\ \A row \in table : Get(table, ManagerEncodes(row[1])) = row[2]

\* One datagram and its answer.  The manager's walk ends where an answer says
\* so or is missing, or does not increase; what was lost on the way it repeats.
WalkStep ==
    /\ cursor # Silence
    /\ LET answer == GetNext(Mib, ManagerEncodes(cursor))
           oid    == ManagerDecodes(answer[1])
           last   == IF answer = Silence THEN TRUE
                     ELSE answer[2] = EndOfMibView \/ ~Before(cursor, oid)
       IN  IF last
           THEN /\ cursor' = Silence
                /\ complete' = (still => Complete(walked))
                /\ walked' = <<>>
           ELSE /\ cursor' = oid
                /\ walked' = IF still THEN Append(walked, <<oid, answer[2]>>) ELSE walked
                /\ UNCHANGED complete
    /\ UNCHANGED <<base, snapshot, still>>

SnmpNext == ReplaceSnapshot \/ StartWalk \/ WalkStep

SnmpSpec == SnmpInit /\ [][SnmpNext]_snmpVars

-----------------------------------------------------------------------------
\* Under root 2 parse_oid lets the second arc exceed what _oid and _decode_oid
\* can keep in the byte it shares; such a subtree cannot be read.
SharedByteFits == base[2] < 40

\* A walk of the configured subtree returns every row of the table once and in
\* order, if no cycle ends meanwhile, and GET agrees with it (README.md:348,
\* "Export subtree"; snmp.py:45-56, 84-98, 231-249).
WalkIsComplete == SharedByteFits => complete

\* No two rows share an OID, and each number a manager reads is the one the
\* snapshot holds, of the device that the row's address column names
\* (snmp.py:33-38, 122-183).
RowsAreConsistent ==
    LET table == Mib IN
    /\ \A r, s \in table : r[1] = s[1] => r = s
    /\ SharedByteFits => \A d \in DOMAIN snapshot :
          LET cell(c) == Get(table, ManagerEncodes(base \o <<10, 1, c, Index(d)>>))
          IN  /\ cell(2) = <<"octets", d, 2>>
              /\ snapshot[d].rssi # Absent => DecodeInteger(cell(4)[2]) = snapshot[d].rssi
              /\ snapshot[d].rssi = Absent => cell(4) = NoSuchObject
=============================================================================
