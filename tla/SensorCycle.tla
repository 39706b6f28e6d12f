----------------------------- MODULE SensorCycle -----------------------------
(***************************************************************************)
(* What one polling cycle exports for each sensor: acquisition with retry  *)
(* windows (discover_cycle_with_retries), the allow-list and the reuse of  *)
(* the last reading (apply_stale_fallback), as cli.bridge() runs them one  *)
(* after the other while the web settings change their parameters.         *)
(*                                                                         *)
(* The content of a reading is one of Values, or Empty when its `data` has *)
(* nothing in it (has_sensor_data).                                        *)
(***************************************************************************)
EXTENDS Integers, FiniteSets, FiniteSetsExt

CONSTANTS
    Sensors,
    Cloud,      \* those a cloud provider reports and BLE does not
    Values, Empty,
    Attempts,   \* args.sensor_retry_attempts
    Thresholds, \* values args.sensor_stale_cycles takes
    Selections, \* values args.device takes; {} selects every sensor
    MaxMisses   \* counts beyond this are not told apart

ASSUME CycleAssumption ==
    /\ Cloud \subseteq Sensors
    /\ Empty \notin Values
    /\ Attempts \in Nat \ {0}
    /\ MaxMisses \in Nat
    /\ Thresholds \subseteq 1 .. MaxMisses
    /\ Selections \subseteq SUBSET Sensors

VARIABLES
    pc,         \* "idle" between two cycles, "scan" while acquiring, "export"
    attempt,    \* windows used so far
    expected,   \* expected_ble
    allowed,    \* args.device as read at the start of the cycle
    collected,  \* content per sensor found so far
    exported,   \* previous_exported, which is also what the store holds
    counters,   \* missing_sensor_cycles, 0 for a sensor without an entry
    reuse, threshold, devices,  \* live settings
    applied,    \* the threshold of the latest export
    \* History, to say what the export should be:
    good,       \* latest content a sensor contributed to an export
    run,        \* exports in a row without content from the sensor
    kept        \* sensors for which reuse was on since their latest content

settings == <<reuse, threshold, devices>>
history == <<good, run, kept>>
results == <<exported, counters, applied, history>>
vars == <<pc, attempt, expected, allowed, collected, settings, results>>

Contents == Values \cup {Empty}
Reading == [value : Contents, stale : BOOLEAN, since : 0 .. MaxMisses]
Partial(S) == UNION {[D -> S] : D \in SUBSET Sensors}

\* since is the export, counted from the latest content, at which the reading
\* became stale; 0 when there is no stale_since.
Fresh(v) == [value |-> v, stale |-> FALSE, since |-> 0]

Bounded(n) == IF n < MaxMisses THEN n ELSE MaxMisses

Init ==
    /\ pc = "idle" /\ attempt = 0
    /\ expected = {} /\ allowed = {}
    /\ collected = [s \in {} |-> Empty]
    /\ exported = [s \in {} |-> Fresh(Empty)]
    /\ counters = [s \in Sensors |-> 0]
    /\ reuse \in BOOLEAN /\ threshold \in Thresholds /\ devices \in Selections
    /\ applied = threshold
    /\ good = [s \in Sensors |-> Empty]
    /\ run = [s \in Sensors |-> 0]
    /\ kept = {}

-----------------------------------------------------------------------------
StartCycle ==
    /\ pc = "idle"
    /\ pc' = "scan"
    /\ allowed' = devices
    /\ expected' = DOMAIN exported \ Cloud
    /\ UNCHANGED <<attempt, collected, settings, results>>

\* What a cycle acquired does not outlive it.
EndCycle ==
    /\ pc' = "idle"
    /\ attempt' = 0
    /\ expected' = {} /\ allowed' = {}
    /\ collected' = [s \in {} |-> Empty]

\* The windows end when every expected sensor was found, or after the last.
LastWindow ==
    expected = {} \/ expected \subseteq DOMAIN collected' \/ attempt' = Attempts

\* One call of discover_with_plugins and what is done with its result.  Without
\* expected sensors, or with a single attempt, there is only one; cloud
\* providers are polled in the first.
Window ==
    /\ pc = "scan"
    /\ \E D \in SUBSET (IF attempt = 0 THEN Sensors ELSE Sensors \ Cloud) :
       \E found \in [D -> Contents] :
          collected' = [s \in DOMAIN collected \cup D |->
                           IF s \in D THEN found[s] ELSE collected[s]]
    /\ attempt' = attempt + 1
    /\ pc' = IF LastWindow THEN "export" ELSE "scan"
    /\ UNCHANGED <<expected, allowed, settings, results>>

\* A scan or a configuration file that raises ends the cycle.
FailCycle ==
    /\ pc = "scan"
    /\ EndCycle
    /\ UNCHANGED <<settings, results>>

-----------------------------------------------------------------------------
\* The filtered devices of this cycle.
Current == [s \in {d \in DOMAIN collected : allowed = {} \/ d \in allowed} |-> collected[s]]

WithData == {s \in DOMAIN Current : Current[s] # Empty}

ReusedIfNotFound == IF reuse THEN DOMAIN exported \ DOMAIN Current ELSE {} \* mutant

\* Sensors whose previous reading stands in for the missing one.
Reused == IF reuse THEN DOMAIN exported \ WithData ELSE {}

Misses(s) == Bounded(counters[s] + 1)

RetainedRestamped(s) == \* mutant: stale_since is set anew in every cycle
    LET stale == Misses(s) >= threshold
    IN  [value |-> exported[s].value, stale |-> stale,
         since |-> IF stale THEN Bounded(run[s] + 1) ELSE 0]

Retained(s) ==
    LET stale == Misses(s) >= threshold
    IN  [value |-> exported[s].value,
         stale |-> stale,
         since |-> IF ~stale THEN 0
                   ELSE IF exported[s].stale THEN exported[s].since
                   ELSE Bounded(run[s] + 1)]

CounterNeverReset(s) == IF s \in Reused THEN Misses(s) ELSE counters[s] \* mutant

\* With reuse off the counters of sensors that are not there stay; with it on
\* they go, unless the sensor is reused.
Counter(s) ==
    CASE s \in Reused -> Misses(s)
      [] s \in WithData -> 0
      [] reuse /\ s \notin DOMAIN Current \cup DOMAIN exported -> 0
      [] OTHER -> counters[s]

\* apply_stale_fallback.
ApplyStaleFallback ==
    /\ exported' = [s \in DOMAIN Current \cup Reused |->
                       IF s \in Reused THEN Retained(s) ELSE Fresh(Current[s])]
    /\ counters' = [s \in Sensors |-> Counter(s)]

Remember ==
    /\ applied' = threshold
    /\ good' = [s \in Sensors |-> IF s \in WithData THEN Current[s] ELSE good[s]]
    /\ run' = [s \in Sensors |-> IF s \in WithData THEN 0 ELSE Bounded(run[s] + 1)]
    /\ kept' = WithData \cup (IF reuse THEN kept ELSE {})

\* The publishing that follows may fail too, and changes nothing of this.
Export ==
    /\ pc = "export"
    /\ ApplyStaleFallback
    /\ Remember
    /\ EndCycle
    /\ UNCHANGED settings

-----------------------------------------------------------------------------
\* The settings page runs in threads of its own.
SetRuntime ==
    /\ reuse' \in BOOLEAN /\ threshold' \in Thresholds
    /\ UNCHANGED <<pc, attempt, expected, allowed, collected, devices, results>>

SetDevices ==
    /\ devices' \in Selections
    /\ UNCHANGED <<pc, attempt, expected, allowed, collected, reuse, threshold, results>>

Next == StartCycle \/ Window \/ FailCycle \/ Export \/ SetRuntime \/ SetDevices

Spec == Init /\ [][Next]_vars

-----------------------------------------------------------------------------
TypeOK ==
    /\ pc \in {"idle", "scan", "export"}
    /\ attempt \in 0 .. Attempts
    /\ expected \subseteq Sensors /\ allowed \subseteq Sensors
    /\ collected \in Partial(Contents)
    /\ exported \in Partial(Reading)
    /\ counters \in [Sensors -> 0 .. MaxMisses]
    /\ reuse \in BOOLEAN /\ threshold \in Thresholds /\ devices \in Selections
    /\ applied \in Thresholds
    /\ good \in [Sensors -> Contents]
    /\ run \in [Sensors -> 0 .. MaxMisses]
    /\ kept \subseteq Sensors

\* As long as reuse stays on, a sensor that has once given content is exported
\* in every cycle with its latest content, and as stale exactly when it was
\* missing or empty in at least --sensor-stale-cycles exports in a row, also if
\* the threshold moved meanwhile (cli.py:254-258, 557-584).
ReuseKeepsLatest ==
    \A s \in kept :
        /\ s \in DOMAIN exported
        /\ exported[s].value = good[s]
        /\ exported[s].stale <=> run[s] >= applied

\* Switching reuse off and on leaves counters behind, but never one that runs
\* ahead of the misses: nothing is marked stale before its time (cli.py:547-551).
StaleOnlyAfterMisses ==
    \A s \in DOMAIN exported : exported[s].stale => run[s] >= applied

\* A reading that stays stale keeps its stale_since, and only stale readings
\* have one (cli.py:576-583, comment 919-920).
StaleSinceIsStable ==
    /\ [][ \A s \in DOMAIN exported \cap DOMAIN exported' :
             exported[s].stale /\ exported'[s].stale
               => exported'[s].since = exported[s].since ]_vars
    /\ [](\A s \in DOMAIN exported :
             exported[s].stale <=> exported[s].since # 0)

=============================================================================
