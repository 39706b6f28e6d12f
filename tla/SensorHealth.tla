---------------------------- MODULE SensorHealth ----------------------------
(***************************************************************************)
(* The SensorStore of metrics.py, filled by the polling cycle of           *)
(* cli.bridge() and read by the threads of the Prometheus and health       *)
(* server (prometheus.py): the counters, the age of the latest success and *)
(* the readiness made of it, and the rolling averages with their verdicts, *)
(* while the web settings change the polling interval and the number of    *)
(* attempts under a running cycle.                                         *)
(*                                                                         *)
(* Time is counted in whole units and passes only where a cycle works or   *)
(* sleeps; an answer to a probe can change only there or with a mark.      *)
(***************************************************************************)
EXTENDS Integers, Sequences, FiniteSetsExt

CONSTANTS
    Polls,      \* values of args.poll_interval
    Attempts,   \* values of args.sensor_retry_attempts
    Scan,       \* args.scan_duration
    Durations,  \* what a cycle may take
    Window,     \* maxlen of the deques (30)
    MaxCycles,  \* bound on the cycles of one process
    None

ASSUME HealthAssumption ==
    /\ Polls \subseteq Nat \ {0} /\ Attempts \subseteq Nat \ {0}
    /\ Durations \subseteq Nat /\ Scan \in Nat
    /\ Window \in Nat \ {0} /\ MaxCycles \in Nat
    /\ None \notin Nat

VARIABLES
    poll, attempts,     \* live settings
    phase,      \* of the bridge: "sleep", "scan", "failing", "acquired",
                \* "replaced", "marked"
    limit,      \* the retries this cycle may use
    elapsed,    \* duration of this cycle
    remaining,  \* of the sleep behind it
    \* the SensorStore:
    devices,    \* the cycle whose readings it holds, 0 for none
    total, failed,      \* _cycles_total, _cycles_failed
    age,        \* since _last_success_monotonic; None before the first
    idle, interval,     \* _idle_durations, _poll_interval_seconds
    retries, most,      \* _internal_retries, _max_internal_retries
    \* the exporter:
    horizon,    \* ready_max_age
    page,       \* the snapshot a scrape has read; None when there is no scrape
    \* history:
    nominal,    \* the interval, or longer scan, at the start of the process
    cycle,      \* cycles begun
    steady,     \* all went well since the start, see Undisturbed
    margins, uses   \* the latest cycles of one kind, in a row and under one setting

settings == <<poll, attempts>>
bridgeVars == <<phase, limit, elapsed, remaining>>
timing == <<idle, interval>>
retrying == <<retries, most>>
counts == <<total, failed, age>>
exporter == <<horizon, page>>
history == <<nominal, cycle, steady, margins, uses>>
vars == <<settings, bridgeVars, devices, counts, timing, retrying, exporter, history>>

Nothing == [kind |-> "none", count |-> 0]

\* start_prometheus(ready_max_age=...), once for the process.
HorizonOfTwo == Max({2 * poll, 2 * Scan}) \* mutant: no room for a slow cycle
Horizon == Max({3 * poll, 3 * Scan})

Init ==
    /\ poll \in Polls /\ attempts \in Attempts
    /\ phase = "sleep" /\ limit = 0 /\ elapsed = 0 /\ remaining = 0
    /\ devices = 0 /\ total = 0 /\ failed = 0 /\ age = None
    /\ idle = <<>> /\ interval = None /\ retries = <<>> /\ most = 0
    /\ horizon = Horizon /\ page = None
    /\ nominal = Max({poll, Scan})
    /\ cycle = 0 /\ steady = TRUE /\ margins = Nothing /\ uses = Nothing

-----------------------------------------------------------------------------
(* The polling cycle.                                                       *)

\* Beyond the horizon ages are not told apart.
Later(time) == IF age = None THEN None ELSE Min({age + time, horizon + 1})

\* The sleep is over, however the interval has changed since it began.
Begin ==
    /\ phase = "sleep" /\ cycle < MaxCycles
    /\ phase' = "scan" /\ cycle' = cycle + 1
    /\ limit' = attempts - 1
    /\ age' = Later(remaining) /\ remaining' = 0
    /\ UNCHANGED <<settings, elapsed, devices, total, failed, timing, retrying,
                   exporter, nominal, steady, margins, uses>>

AppendUnbounded(deque, x) == Append(deque, x) \* mutant: no maxlen
AppendBounded(deque, x) ==
    LET all == Append(deque, x)
    IN  IF Len(all) > Window THEN Tail(all) ELSE all

\* The run of cycles of this kind, counted up to Window.
Extend(run, kind) ==
    [kind |-> kind,
     count |-> IF kind # run.kind THEN 1 ELSE Min({Window, run.count + 1})]

Spend(time) == elapsed' = time /\ age' = Later(time)

\* discover_cycle_with_retries returns, and record_internal_retries sets the
\* retries against the attempts that are configured by now.
Acquire(time) ==
    /\ phase = "scan" /\ phase' = "acquired"
    /\ Spend(time)
    /\ most' = attempts - 1
    /\ \E used \in 0 .. limit :
          /\ retries' = AppendBounded(retries, used)
          /\ uses' = IF limit # most' \/ used \notin {0, most'} THEN Nothing
                     ELSE Extend(uses, IF used = 0 THEN "none used" ELSE "all used")
    /\ UNCHANGED <<settings, limit, remaining, devices, total, failed, timing,
                   exporter, nominal, cycle, steady, margins>>

AcquireFails(time) ==
    /\ phase = "scan" /\ phase' = "failing"
    /\ Spend(time)
    /\ UNCHANGED <<settings, limit, remaining, devices, total, failed, timing,
                   retrying, exporter, history>>

\* store.replace(exported).
Replace ==
    /\ phase = "acquired" /\ phase' = "replaced"
    /\ devices' = cycle
    /\ UNCHANGED <<settings, limit, elapsed, remaining, counts, timing, retrying,
                   exporter, history>>

MarkSuccess ==
    /\ phase = "replaced" /\ phase' = "marked"
    /\ total' = total + 1 /\ age' = 0
    /\ UNCHANGED <<settings, limit, elapsed, remaining, devices, failed, timing,
                   retrying, exporter, history>>

MarkFailureUncounted == \* mutant: only the failures are counted
    /\ phase \in {"failing", "replaced"} /\ phase' = "marked"
    /\ failed' = failed + 1
    /\ steady' = FALSE
    /\ UNCHANGED <<settings, limit, elapsed, remaining, devices, total, age, timing,
                   retrying, exporter, nominal, cycle, margins, uses>>

\* A scan that raised, or the history, an oversized payload or the state file after it.
MarkFailure ==
    /\ phase \in {"failing", "replaced"} /\ phase' = "marked"
    /\ total' = total + 1 /\ failed' = failed + 1
    /\ steady' = FALSE
    /\ UNCHANGED <<settings, limit, elapsed, remaining, devices, age, timing,
                   retrying, exporter, nominal, cycle, margins, uses>>

\* What a cycle of these times leaves of its interval.
Kind(left) ==
    CASE left = 0                      -> "overran"
      [] left > 0 /\ 10 * left < poll -> "little"
      [] OTHER                         -> "ample"

\* Slow only by the measure of the interval the process was started with.
Undisturbed == elapsed <= 2 * nominal /\ poll <= nominal

\* record_cycle_timing, and the sleep until the next cycle.
RecordTiming ==
    /\ phase = "marked" /\ phase' = "sleep"
    /\ LET left == Max({0, poll - elapsed})
       IN  /\ remaining' = left
           /\ idle' = AppendBounded(idle, left)
           /\ margins' = Extend(margins, Kind(left))
    /\ interval' = poll
    /\ steady' = (steady /\ Undisturbed)
    /\ elapsed' = 0 /\ limit' = 0
    /\ UNCHANGED <<settings, devices, counts, retrying, exporter, nominal, cycle, uses>>

Work == Replace \/ MarkSuccess \/ MarkFailure \/ RecordTiming
            \/ \E time \in Durations : Acquire(time) \/ AcquireFails(time)

-----------------------------------------------------------------------------
(* The other threads.                                                       *)

\* The settings page.  The interval counts against the next cycle.
SetPoll ==
    /\ poll' \in Polls \ {poll}
    /\ margins' = Nothing
    /\ UNCHANGED <<attempts, bridgeVars, devices, counts, timing, retrying,
                   exporter, nominal, cycle, steady, uses>>

SetAttempts ==
    /\ attempts' \in Attempts \ {attempts}
    /\ uses' = Nothing
    /\ UNCHANGED <<poll, bridgeVars, devices, counts, timing, retrying,
                   exporter, nominal, cycle, steady, margins>>

\* render(): store.snapshot(), and then store.health() takes the lock again; the
\* page shows what both gave.
ReadSnapshot ==
    /\ page = None
    /\ page' = devices
    /\ UNCHANGED <<settings, bridgeVars, devices, counts, timing, retrying, horizon,
                   history>>

ReadHealth ==
    /\ page # None
    /\ page' = None
    /\ UNCHANGED <<settings, bridgeVars, devices, counts, timing, retrying, horizon,
                   history>>

\* The process ends, and the next one starts with the saved settings
\* and a new store.
Restart ==
    /\ phase' = "sleep" /\ limit' = 0 /\ elapsed' = 0 /\ remaining' = 0
    /\ devices' = 0 /\ total' = 0 /\ failed' = 0 /\ age' = None
    /\ idle' = <<>> /\ interval' = None /\ retries' = <<>> /\ most' = 0
    /\ horizon' = Horizon /\ page' = None
    /\ nominal' = Max({poll, Scan})
    /\ cycle' = 0 /\ steady' = TRUE /\ margins' = Nothing /\ uses' = Nothing
    /\ UNCHANGED settings

Next == Begin \/ Work \/ SetPoll \/ SetAttempts \/ ReadSnapshot \/ ReadHealth \/ Restart

Spec == Init /\ [][Next]_vars

-----------------------------------------------------------------------------
(* health().                                                                *)

Ready == age # None /\ age <= horizon

\* sum(deque)
Total(deque) ==
    LET sum[i \in 0 .. Len(deque)] == IF i = 0 THEN 0 ELSE sum[i - 1] + deque[i]
    IN  sum[Len(deque)]

\* polling_margin_status; up to 0.01 s of idle time counts as none.
MarginStatus ==
    CASE idle = <<>> -> "unknown"
      [] idle # <<>> /\ Total(idle) = 0 -> "insufficient"
      [] Total(idle) > 0 /\ 10 * Total(idle) < Len(idle) * interval -> "tight"
      [] OTHER -> "sufficient"

\* internal_retry_status.
RetryStatus ==
    LET sum == Total(retries) IN
    CASE retries = <<>> -> "unknown"
      [] retries # <<>> /\ 4 * sum <= Len(retries) -> "sufficient"
      [] 4 * sum > Len(retries) /\ most > 0 /\ 10 * sum >= 8 * Len(retries) * most ->
            "insufficient"
      [] OTHER -> "tight"

\* As long as every cycle succeeds within twice the interval the process was started
\* with, and nobody raises the interval above that, no probe that comes after the
\* first success finds the gateway unready (cli.py:854, prometheus.py:114-116,
\* README.md:406).
ReadyWhileSucceeding ==
    LET slow == phase # "sleep" /\ ~Undisturbed
        raised == poll > nominal \/ remaining > nominal
    IN  steady /\ phase # "failing" /\ ~slow /\ ~raised /\ age # None => Ready

\* The sensors on a page never come from a cycle beyond the one that follows its
\* counters: whatever cycles end between the two reads of a scrape, in success or
\* not, are counted (prometheus.py:22-23, 96-97; metrics.py:39-53).
PageIsCoherent ==
    page # None => page <= total + 1

\* Once as many cycles as the averages cover went alike under one setting, the verdict
\* is theirs, whatever earlier settings or failures have left in the averages
\* (metrics.py:56-104).
VerdictsFollow ==
    /\ margins.count = Window =>
          MarginStatus = CASE margins.kind = "overran" -> "insufficient"
                           [] margins.kind = "little"  -> "tight"
                           [] margins.kind = "ample"   -> "sufficient"
    /\ uses.count = Window =>
          RetryStatus = IF uses.kind = "none used" THEN "sufficient" ELSE "insufficient"
=============================================================================
