---------------------------- MODULE HistoryStore ----------------------------
(***************************************************************************)
(* The sample database of history.py: the bridge appends a snapshot per    *)
(* cycle and purges what has expired, the web pages query, delete, change  *)
(* the retention and restore backups.                                      *)
(*                                                                         *)
(* Time is relative: a sample carries its age, in ticks of one polling     *)
(* cycle, instead of recorded_at.  Ages beyond MaxAge are not told apart.  *)
(* The content of a sample is its data_json and stale flag together, and a *)
(* sensor is the place of its id in the order of the strings.              *)
(*                                                                         *)
(* The names of the specification (HistoryInit, DeleteSamples, ...) differ *)
(* from those of MQTTCache, so that one module can extend both.            *)
(***************************************************************************)
EXTENDS Integers, Sequences, FiniteSets, SequencesExt

CONSTANTS
    SensorCount,
    Contents, None,
    Snapshots,  \* what cycles export: from sensors to contents
    Retentions, \* values of retention_days, in ticks
    Throttle,   \* the 3600 s between two purges, in ticks
    QueryLimit, \* bounded_limit of query()
    Databases,  \* sample tables of backups
    MaxAge, MaxUpsets \* bounds

Sensors == 1 .. SensorCount
Sample == [sensor : Sensors, content : Contents, age : 0 .. MaxAge]

ASSUME HistoryAssumption ==
    /\ SensorCount \in Nat
    /\ None \notin Contents \cup Nat
    /\ Snapshots \subseteq UNION {[found -> Contents] : found \in SUBSET Sensors}
    /\ Databases \subseteq Seq(Sample)
    /\ Throttle \in Nat \ {0} /\ QueryLimit \in Nat \ {0}
    /\ MaxAge \in Nat /\ MaxUpsets \in Nat
    /\ Retentions \subseteq 1 .. MaxAge - Throttle

VARIABLES
    samples,    \* table `samples`, ORDER BY recorded_at, id
    retention,  \* self.retention_days
    sincePurge, \* time.monotonic() - self._last_purge, up to Throttle
    stage,      \* per thread: where it is in purge_expired, see Threads
    keep,       \* per thread in "delete": the retention its threshold is made of
    recorded,   \* the bridge has appended in this tick
    upsets      \* restores, restarts and changes of the retention so far

historyVars == <<samples, retention, sincePurge, stage, keep, recorded, upsets>>

Threads == {"bridge", "settings"}
Upset == upsets < MaxUpsets /\ upsets' = upsets + 1

\* time.monotonic() counts from the start of the host and _last_purge starts at
\* 0.0: how much of the throttle has passed depends on the host.
HistoryInit ==
    /\ samples \in Databases
    /\ retention \in Retentions
    /\ sincePurge \in 0 .. Throttle
    /\ stage = [t \in Threads |-> "idle"]
    /\ keep = [t \in Threads |-> None]
    /\ recorded = FALSE
    /\ upsets = 0

-----------------------------------------------------------------------------
\* The rows of a table that a statement's WHERE selects, in their order.
\* (SelectSeq, as the recursive function that proofs can expand.)
Only(rows, wanted) ==
    LET kept[i \in 0 .. Len(rows)] ==
            IF i = 0 THEN <<>>
            ELSE IF rows[i] \in wanted THEN Append(kept[i - 1], rows[i])
                 ELSE kept[i - 1]
    IN  kept[Len(rows)]

\* append_snapshot: one transaction, then purge_expired().
NewSamples(devices) ==
    LET inserted[s \in 0 .. SensorCount] ==
            IF s = 0 THEN <<>>
            ELSE IF s \in DOMAIN devices
                 THEN Append(inserted[s - 1], [sensor |-> s, content |-> devices[s], age |-> 0])
                 ELSE inserted[s - 1]
    IN  inserted[SensorCount]

AppendSnapshotEmptyReturns(devices) == \* mutant: nothing to insert, nothing to do
    /\ stage["bridge"] = "idle" /\ ~recorded
    /\ samples' = samples \o NewSamples(devices)
    /\ stage' = [stage EXCEPT !["bridge"] =
                    IF devices = [s \in {} |-> None] THEN "idle" ELSE "purge"]
    /\ recorded' = TRUE
    /\ UNCHANGED <<retention, sincePurge, keep, upsets>>

AppendSnapshot(devices) ==
    /\ stage["bridge"] = "idle" /\ ~recorded
    /\ samples' = samples \o NewSamples(devices)
    /\ stage' = [stage EXCEPT !["bridge"] = "purge"]
    /\ recorded' = TRUE
    /\ UNCHANGED <<retention, sincePurge, keep, upsets>>

\* purge_expired computes its threshold before it takes the lock.
Forced(t) == t = "settings"

PurgeExpired(t) ==
    /\ stage[t] = "purge"
    /\ IF Forced(t) \/ sincePurge >= Throttle
       THEN /\ stage' = [stage EXCEPT ![t] = "delete"]
            /\ keep' = [keep EXCEPT ![t] = retention]
       ELSE /\ stage' = [stage EXCEPT ![t] = "idle"]
            /\ UNCHANGED keep
    /\ UNCHANGED <<samples, retention, sincePurge, recorded, upsets>>

PurgeDelete(t) ==
    /\ stage[t] = "delete"
    /\ samples' = Only(samples, {r \in Sample : r.age <= keep[t]})
    /\ sincePurge' = 0
    /\ stage' = [stage EXCEPT ![t] = "idle"]
    /\ keep' = [keep EXCEPT ![t] = None]
    /\ UNCHANGED <<retention, recorded, upsets>>

\* The settings page: set_retention_days, then a forced purge.
SetRetentionDays ==
    /\ stage["settings"] = "idle" /\ Upset
    /\ retention' \in Retentions
    /\ stage' = [stage EXCEPT !["settings"] = "purge"]
    /\ UNCHANGED <<samples, sincePurge, keep, recorded>>

-----------------------------------------------------------------------------
(* A range keeps the samples recorded at or after `start` and at or before  *)
(* `end`, both ages; MaxAge and 0 stand for a bound that is not given.  The *)
(* query and the deletion each build their own WHERE.                       *)

Selected(sensors, start, end) ==
    {r \in Sample : r.sensor \in sensors /\ r.age <= start /\ r.age >= end}

DeletedOpenEnd(sensors, start, end) == \* mutant: recorded_at < end
    {r \in Sample : r.sensor \in sensors /\ r.age <= start /\ r.age > end}
Deleted(sensors, start, end) ==
    {r \in Sample : r.sensor \in sensors /\ r.age <= start /\ r.age >= end}

Take(rows, n) == IF Len(rows) <= n THEN rows ELSE SubSeq(rows, 1, n)

\* query(): the first rows of each sensor, sorted by sensor and time, and the
\* first of those again.
Page(sensors, start, end) ==
    LET joined[s \in 0 .. SensorCount] ==
            IF s = 0 THEN <<>>
            ELSE IF s \in sensors
                 THEN joined[s - 1] \o Take(Only(samples, Selected({s}, start, end)), QueryLimit)
                 ELSE joined[s - 1]
    IN  Take(joined[SensorCount], QueryLimit)

\* ... without the rows that repeat the content of their sensor's last one.
NothingShown == [result |-> <<>>, previous |-> [s \in Sensors |-> None]]

ShownOnce(shown, r) == \* mutant: compared with all contents seen so far
    IF \E q \in Range(shown.result) : q.sensor = r.sensor /\ q.content = r.content
    THEN shown ELSE [shown EXCEPT !.result = Append(@, r)]
Shown(shown, r) ==
    IF shown.previous[r.sensor] = r.content THEN shown
    ELSE [result |-> Append(shown.result, r),
          previous |-> [shown.previous EXCEPT ![r.sensor] = r.content]]

Deduplicated(rows) ==
    LET shown[i \in 0 .. Len(rows)] ==
            IF i = 0 THEN NothingShown ELSE Shown(shown[i - 1], rows[i])
    IN  shown[Len(rows)].result

\* The admin's delete form.
Remaining(sensors, start, end) == Only(samples, Sample \ Deleted(sensors, start, end))

DeleteSamples(sensors, start, end) ==
    /\ samples' = Remaining(sensors, start, end)
    /\ UNCHANGED <<retention, sincePurge, stage, keep, recorded, upsets>>

\* A backup replaces the whole database; nothing is purged for it.
RestoreSamples(table) ==
    /\ Upset
    /\ samples' = table
    /\ UNCHANGED <<retention, sincePurge, stage, keep, recorded>>

-----------------------------------------------------------------------------
\* One cycle later: the bridge has appended, its calls have returned.
Tick ==
    /\ recorded /\ stage["bridge"] = "idle"
    /\ recorded' = FALSE
    /\ samples' = [i \in DOMAIN samples |->
                      [samples[i] EXCEPT !.age = IF @ < MaxAge THEN @ + 1 ELSE @]]
    /\ sincePurge' = IF sincePurge < Throttle THEN sincePurge + 1 ELSE sincePurge
    /\ UNCHANGED <<retention, stage, keep, upsets>>

\* The process, or the host with it, is started again.
Restart ==
    /\ Upset
    /\ retention' \in Retentions
    /\ sincePurge' \in 0 .. Throttle
    /\ stage' = [t \in Threads |-> "idle"]
    /\ keep' = [t \in Threads |-> None]
    /\ UNCHANGED <<samples, recorded>>

Ranges == {range \in (0 .. MaxAge) \X (0 .. MaxAge) : range[2] <= range[1]}

Bridge ==
    \/ \E devices \in Snapshots : AppendSnapshot(devices)
    \/ PurgeExpired("bridge") \/ PurgeDelete("bridge")
    \/ Tick

Settings == PurgeExpired("settings") \/ PurgeDelete("settings")

HistoryNext ==
    \/ Bridge
    \/ SetRetentionDays \/ Settings
    \/ \E sensors \in SUBSET Sensors, range \in Ranges :
          DeleteSamples(sensors, range[1], range[2])
    \/ \E table \in Databases : RestoreSamples(table)
    \/ Restart

\* The polling loop goes on, and a request that has begun ends.
HistorySpec ==
    HistoryInit /\ [][HistoryNext]_historyVars /\ WF_historyVars(Bridge) /\ WF_historyVars(Settings)

-----------------------------------------------------------------------------
\* What is shown of the first n rows of a page, for each n.
LosesNothing(page) ==
    LET shown(n) == Deduplicated(SubSeq(page, 1, n))
        all == shown(Len(page))
        Shows(r, q) == r.sensor = q.sensor /\ r.content = q.content
    IN  /\ \A n \in DOMAIN page : /\ shown(n) # <<>> /\ IsPrefix(shown(n), all)
                                 /\ Shows(Last(shown(n)), page[n])
        /\ \A k \in 2 .. Len(all) : ~Shows(all[k], all[k - 1])

\* Whatever is queried, the table that suppresses repeated rows loses nothing: read
\* row by row, it ends after each row of the page with the content of that row, and no
\* shown row repeats the one before it (docs/FRONTEND.en.md:88, history.py:209-218).
DeduplicationLosesNothing ==
    \A sensors \in SUBSET Sensors, range \in Ranges :
        LosesNothing(Page(sensors, range[1], range[2]))

\* Deleting a range removes what a query of that range shows, and nothing that
\* a query of another sensor or of the time before or after it shows
\* (history.py:158-206, 241-261).
DeleteMatchesQuery ==
    \A sensors \in SUBSET Sensors, range \in Ranges :
        LET query(ids, start, end) == Range(Only(samples, Selected(ids, start, end)))
            remaining == Range(Remaining(sensors, range[1], range[2]))
        IN  /\ remaining \cap query(sensors, range[1], range[2]) = {}
            /\ query(Sensors \ sensors, MaxAge, 0) \subseteq remaining
            /\ query(Sensors, MaxAge, range[1] + 1) \subseteq remaining
            /\ query(Sensors, range[2] - 1, 0) \subseteq remaining

\* Whatever was restored, and however the throttle stood when the process
\* started, once that is over no sample outlives the retention by more than the
\* time between two purges (docs/FRONTEND.en.md:86, history.py:105-129).
RetentionIsEnforced == <>[](\A i \in DOMAIN samples : samples[i].age <= retention + Throttle)
=============================================================================
