------------------------------ MODULE MQTTCache ------------------------------
(***************************************************************************)
(* The on-disk spool of mqtt_cache.py: one SQLite table, ordered by an     *)
(* AUTOINCREMENT key, bounded by the sum of its rows' logical sizes.       *)
(*                                                                         *)
(* A message is abstract (topic, payload, qos and retain flag together);   *)
(* Size is what message_size computes for it and what the row's `size`     *)
(* column holds.  Every operation of the class is one transaction on one   *)
(* connection, so each is one action here.                                 *)
(***************************************************************************)
EXTENDS Integers, Sequences

CONSTANTS
    Messages,   \* what may be spooled
    Size,       \* logical bytes of each message
    Limits,     \* values of max_bytes the process is started with
    BatchLimit, \* the `limit` that oldest() is called with (256 in the code)
    Archives,   \* message sequences of backups made by other instances
    MaxId       \* bound on the AUTOINCREMENT counter

ASSUME CacheAssumption ==
    /\ Size \in [Messages -> Nat \ {0}]
    /\ Limits \subseteq Nat \ {0}
    /\ BatchLimit \in Nat \ {0}
    /\ Archives \subseteq Seq(Messages)
    /\ MaxId \in Nat

VARIABLES
    rows,       \* table `messages`, ORDER BY id
    nextId,     \* sqlite_sequence: the id of the next INSERT
    limit,      \* self.max_bytes
    batch,      \* rows the caller last read with oldest() and still works on
    archive     \* messages of the last snapshot_to file

cacheVars == <<rows, nextId, limit, batch, archive>>

Row == [id : Nat, msg : Messages]

-----------------------------------------------------------------------------
\* SELECT COALESCE(SUM(size), 0): the running total after the last row.
Used(s) ==
    LET total[i \in 0 .. Len(s)] ==
            IF i = 0 THEN 0 ELSE total[i - 1] + Size[s[i].msg]
    IN  total[Len(s)]

\* The table after its k oldest rows are deleted.
WithoutOldest(s, k) == SubSeq(s, k + 1, Len(s))

\* How many deletions the eviction loop makes before `need` more bytes fit
\* (the loop also ends on an empty table).
FitsWithoutNew(s, k, need, max) == Used(WithoutOldest(s, k)) <= max \* mutant
FitsStrictly(s, k, need, max) == Used(WithoutOldest(s, k)) + need < max \* mutant
Fits(s, k, need, max) == Used(WithoutOldest(s, k)) + need <= max
Evictions(s, need, max) ==
    {k \in 0 .. Len(s) : /\ Fits(s, k, need, max) \/ k = Len(s)
                         /\ \A j \in 0 .. k - 1 : ~Fits(s, j, need, max)}

\* Inserting messages gives them consecutive new ids.
Numbered(msgs, first) ==
    [i \in 1 .. Len(msgs) |-> [id |-> first + i - 1, msg |-> msgs[i]]]

\* What restore_from() keeps of a backup: each message within the limit, in
\* order.  (SelectSeq, as the recursive function that proofs can expand.)
Fitting(source, max) ==
    LET kept[i \in 0 .. Len(source)] ==
            IF i = 0 THEN <<>>
            ELSE IF Size[source[i]] <= max THEN Append(kept[i - 1], source[i])
                                           ELSE kept[i - 1]
    IN  kept[Len(source)]

Payloads(s) == [i \in 1 .. Len(s) |-> s[i].msg]

Oldest(n) == SubSeq(rows, 1, IF n < Len(rows) THEN n ELSE Len(rows))

-----------------------------------------------------------------------------
(* Operations, on the table only: a module that composes the spool with its *)
(* callers conjoins what they do to the rest of the state.                  *)

\* enqueue(): a message larger than the limit raises before the transaction.
Enqueue(m) ==
    /\ Size[m] <= limit
    /\ \E k \in Evictions(rows, Size[m], limit) :
          rows' = Append(WithoutOldest(rows, k), [id |-> nextId, msg |-> m])
    /\ nextId' = nextId + 1

\* delete(): no row has the id when the table was restored in between.
Delete(id) ==
    /\ \/ \E i \in 1 .. Len(rows) :
             /\ rows[i].id = id
             /\ rows' = SubSeq(rows, 1, i - 1) \o SubSeq(rows, i + 1, Len(rows))
       \/ (\A i \in 1 .. Len(rows) : rows[i].id # id) /\ rows' = rows
    /\ UNCHANGED nextId

\* restore_from(): rows above the limit are skipped, the rest inserted after
\* the old ones are gone, then the oldest are dropped until the sum fits.
Restore(source) ==
    LET kept   == Fitting(source, limit)
        loaded == Numbered(kept, nextId)
    IN  /\ \E k \in Evictions(loaded, 0, limit) : rows' = WithoutOldest(loaded, k)
        /\ nextId' = nextId + Len(kept)

-----------------------------------------------------------------------------
Init ==
    /\ rows = <<>>
    /\ nextId = 1
    /\ limit \in Limits
    /\ batch = <<>>
    /\ archive = <<>>

EnqueueStep(m) ==
    /\ nextId < MaxId
    /\ Enqueue(m)
    /\ UNCHANGED <<limit, batch, archive>>

OldestStep ==
    /\ batch' = Oldest(BatchLimit)
    /\ UNCHANGED <<rows, nextId, limit, archive>>

\* The caller deletes rows of its batch by id, first to last.
DeleteStep ==
    /\ batch # <<>>
    /\ Delete(Head(batch).id)
    /\ batch' = Tail(batch)
    /\ UNCHANGED <<limit, archive>>

SnapshotTo ==
    /\ archive' = Payloads(rows)
    /\ UNCHANGED <<rows, nextId, limit, batch>>

RestoreFrom(source) ==
    /\ nextId + Len(source) <= MaxId
    /\ Restore(source)
    /\ UNCHANGED <<limit, batch, archive>>

\* The process ends or dies and is started again, maybe with another limit:
\* the table and its counter are on disk, the caller's batch is not.
Reopen ==
    /\ limit' \in Limits
    /\ batch' = <<>>
    /\ UNCHANGED <<rows, nextId, archive>>

Next ==
    \/ \E m \in Messages : EnqueueStep(m)
    \/ OldestStep
    \/ DeleteStep
    \/ SnapshotTo
    \/ \E source \in Archives \cup {archive} : RestoreFrom(source)
    \/ Reopen

Spec == Init /\ [][Next]_cacheVars

-----------------------------------------------------------------------------
TypeOK ==
    /\ rows \in Seq(Row)
    /\ nextId \in Nat \ {0}
    /\ limit \in Limits
    /\ batch \in Seq(Row)
    /\ archive \in Seq(Messages)

\* FIFO is ORDER BY id: ids grow along the table and along a batch, and no id
\* at or above the counter has been given out (mqtt_cache.py:39, 101-107).
IdsOrdered ==
    /\ \A i, j \in 1 .. Len(rows) : i < j => rows[i].id < rows[j].id
    /\ \A i \in 1 .. Len(rows) : rows[i].id < nextId
    /\ \A i \in 1 .. Len(batch) : batch[i].id < nextId

\* Every transaction that inserts leaves the table within the limit of the
\* running instance, also when the table came from an instance with a larger
\* one (mqtt_cache.py:75-85, 153-160).
InsertsStayWithinLimit == [][nextId' # nextId => Used(rows') <= limit]_cacheVars

\* enqueue() gives up the oldest rows and no more of them than it must: each
\* displaced row is older than each row kept, and the table would be over the
\* limit with the youngest displaced row still in it (mqtt_cache.py:77-85).
DisplacesOldestOnly ==
    [][ \A m \in Messages : EnqueueStep(m) =>
          \E k \in 0 .. Len(rows) :
             /\ SubSeq(rows', 1, Len(rows') - 1) = WithoutOldest(rows, k)
             /\ k > 0 => Used(rows') + Size[rows[k].msg] > limit ]_cacheVars
=============================================================================
