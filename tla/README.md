# BLE Sensors MQTT: TLA+ models and proofs

This directory holds TLA+ specifications of the gateway under `src/`: a daemon
that reads BLE (and cloud) sensors in a polling cycle and exports what it read
over MQTT, a web frontend, Prometheus and SNMP. Every definition is translated
from the Python source; paths below are relative to
`src/src/ble_sensors_mqtt/`. TLC checks the modules on small instances, the TLA+
proof system checks the theorems for all values of the constants.

    tlc -workers 2 -config MQTTCache.cfg MCMQTTCache.tla      # one run
    tlapm StoreProofs.tla                                     # one proof module

## 1. The system

One asyncio task, `bridge()` in `cli.py`, runs the polling cycle. Beside it run
paho's network thread (connection callbacks, packets), one thread per web
request, one per Prometheus scrape, and the SNMP responder on the event loop.

| Part | State | Operations | Shared with |
|---|---|---|---|
| Disk spool, `mqtt_cache.py` | table `messages`, ids, byte limit | enqueue, oldest, delete, snapshot_to, restore_from | cycle, backup |
| Delivery, `cli.py:781-838` | `connected`, paho's queue, the flush's batch | publish_confirmed, publish_or_cache, flush_cache, callbacks | spool, broker |
| Retained topics, `cli.py:876-980` | `missing_cycles`, `previously_published`, state file | publish states and configs, count misses, clear, load, save | settings, broker |
| Acquisition, `cli.py:447-590` | collected devices, previous export, `sensor_misses` | retry windows, stale fallback | settings, scanner, cloud |
| Bridge status, `cli.py:747-768, 998-1015` | `connected`, last will, retained status | on_connect, on_disconnect, start, shutdown | broker |
| History, `history.py` | table `samples`, retention, purge throttle | append, purge, set_retention_days, query, delete, restore | cycle, web threads |
| SNMP, `snmp.py` | none of its own | GET, GETNEXT over the snapshot | snapshot store |
| Snapshot and health, `metrics.py` | snapshot, counters | replace, snapshot, mark_success, readiness | all exporters |
| Web settings, `frontend.py:474-560`, `config.py` | configuration files, live `args` | read, merge, write, apply | cycle |
| Accounts, `auth.py`, `frontend.py:146-475, 577-615` | user table, one connection, signed sessions | login, LDAP and OIDC, second factor, password change, administration | web threads |
| Backup, `backup.py`, `frontend.py:618-706` | archive, credential files, every store | export, import, restart | all databases, cycle |
| Acquisition window, `scanner.py`, `plugins.py`, `cloud.py`, `cli.py:405-446` | frame buffers, worker threads, loaded plugins | load, scan, decode with timeout, poll, merge | third-party plugins |
| Windows service, `windows_service.py`, `config_gui.py` | child process, stop event, config.toml | SvcDoRun, SvcStop, Save & restart | service manager, bridge |
| Others | | discovery payloads, Tk form, command line, packaging | |

What is hard here:

* **Two ways to the broker.** A message goes out directly or by the disk spool.
  The two overtake each other, and acknowledgements come after a timeout.
* **State about retained topics that exists three times**: with the broker,
  in memory, and in a file written once per successful cycle. Outages, exceptions,
  crashes and live settings fall between the three.
* **Counters over many cycles** (misses of topics, misses of readings) with
  thresholds and switches that change while they count.
* **The last will against the shutdown**, a reconnection at the wrong moment.
* **Requests and scrapes** that walk over a snapshot which is replaced under them,
  and two threads that purge one table.
* **One database connection for all web threads**: their statements share
  transactions, and a commit of one request commits half of another.
* **Third-party calls that hang**: a timeout abandons them but not their thread.
* **Stores restored one after the other** beside a gateway that goes on with its cycle.
* **Three parties that stop and start a process**: service manager, wrapper, editor.

What makes each part correct: the spool is FIFO, bounded and never deletes a
message that was not sent; a message handed over is owed until delivered or
given up for lack of room; a retained topic is cleared after the configured
misses, not before, and in the end; an export shows the latest reading and is
stale when it should be; the retained status follows the process; a history page
and a deletion mean the same range; an SNMP walk is complete; an account keeps its
source and its enrolled seed, and what was answered is on disk; a window exports the
newest readable frame and every answer; an import that was answered is what the next
start works with; a gateway that succeeds is ready; a stopped service is gone.
Every place where this can go wrong is listed with its source line under
`hazards` in `PROJECT.json`.

## 2. Plan

| Order | Module | Composes | Status |
|---|---|---|---|
| 1 | `MQTTCache` | | checked, proved |
| 2 | `AtLeastOnce` (abstract), `MQTTDelivery` | `MQTTCache` by INSTANCE, refines `AtLeastOnce` | checked, proved |
| 3 | `RetainedTopics` | | checked, proved |
| 4 | `SensorCycle` | | checked, proved |
| 5 | `BridgeStatus` | | checked, proved |
| 6 | `HistoryStore` | | checked, proved |
| 6 | `SnmpAgent` | | checked, proved |
| 7 | `LiveSettings` | | checked, proved |
| 8 | `Accounts` | | checked, proved |
| 9 | `AcquisitionWindow` | computes what `SensorCycle` takes as a choice | checked, proved |
| 10 | `BackupRestore` | | checked, proved |
| 11 | `SensorHealth` | | checked, proved |
| 12 | `WindowsService` | `BridgeStatus` by EXTENDS: the child is its process | checked, proved |

Proofs, in order: the spool, the stale fallback, the delivery path with the safety
half of `AtLeastOnce`, readiness, the service, the retained status, the sources of the
accounts, saved and live settings; then the retained topics, enrolled seeds and durable
answers, the displacement of the oldest rows, the verdicts of the rolling averages, the
window with the decoder registry, backups, the history's queries and deletions, and last
the SNMP walk with the byte codes it rests on (done). Left to TLC is liveness.

Each MC module adds the instance's constants to a specification. `RetainedTopics`,
`SensorHealth` and `WindowsService` need none: their cfg files give numbers and sets.
Abstractions: payloads are model values or one of three kinds, time is counted
in cycles or in units of the purge interval, topics are pairs of sensor and kind.

## 3. Modules and code

### `MQTTCache` (mqtt_cache.py)

`rows` is the table in id order, `nextId` SQLite's AUTOINCREMENT counter, `limit`
`max_bytes`, `batch` what a caller holds from `oldest()`, `archive` a backup. Each
public method is one action since each is one transaction under the lock.
`Evictions` is the loop that displaces the oldest rows as the least number of
them that makes room; `Fitting` is the part of a restored table that is kept.
`Reopen` is a restart, possibly with another limit. A row's caller (`DeleteStep`)
is the flush: it deletes an id of its batch.

### `MQTTDelivery` and `AtLeastOnce` (cli.py:734-838)

The bridge's thread (`pc`), paho's thread and the broker interleave. The spool is
`MQTTCache` by INSTANCE, whose `Enqueue`, `Oldest` and `Delete` are used. `session`
distinguishes a lost socket from the `connected` event being cleared. `outbox` is
paho's queue of unacknowledged messages: it survives a lost link and is sent
again, and dies with the process. `gone` is a history variable: undelivered
messages displaced from the full spool, too large for it, or in the hand of the
bridge at a crash. `AtLeastOnce` is the promise of docs/PRODUCTION.en.md:40: a
message is owed until delivered or given up, and is settled in the end.

### `RetainedTopics` (cli.py:876-980, 592-655)

One loop body of the bridge from the flush to the save, step by step (`pc`, `todo`);
`tracked` is `previously_published`, `missing` `missing_cycles`, `file` the state file.
`spool` and `retained` are the ways to the broker; `Outcome` is what the broker
will hold after the queue. `Decided` is a clearing at the gateway, `Arrived` one at the
broker, which may be much later: a clearing may lie in the spool while newer messages of its
topic pass it, and a property that watched `Outcome` alone would not see it arrive. The disturbances (`Upsets`) are kinds: a reconnection in
the middle of a cycle, a late acknowledgement, an exception, a crash, discovery
toggled, retain toggled, a full spool. `upsets` remembers which kinds have happened, `MaxUpsets`
bounds how many, and each property says by `Only(kinds)` which it survives.
Outages and orderly restarts between cycles are not upsets: they are always there.
Once the spool is full, any row may displace as many of the oldest as the sizes of the
payloads make it (`Enqueue`). `lost` is a history variable: topics whose queued clearing was
displaced and that no later message names. They are all that a full spool costs.

### `SensorCycle` (cli.py:447-590, 891-928)

`collected` is the result of the retry windows, `exported` the previous export,
`misses` `sensor_misses`. The outcome of a window is any subset of the sensors with
any content, so scanner, plugins and cloud are free choices. Settings may change
the threshold, the reuse switch and the allow-list between steps. History
variables: `good` (latest content), `run` (consecutive exports without content),
`kept` (sensors under uninterrupted reuse), `applied` (threshold of the last export).

### `BridgeStatus` (cli.py:734-779, 998-1015)

The main thread (`main`), paho's socket and queue, the wire in both directions,
the broker's session and the retained status. A session that ends without a
DISCONNECT has its will published: after the keepalive or when a connection with
the same client id takes over. `late` is a history variable: on_connect ran when
the shutdown no longer answers it.

### `HistoryStore` (history.py)

`samples` with ages in units of the purge interval; a sensor is the place of its id in the
order of the strings. `append_snapshot`, and
`purge_expired` by the bridge and by the settings page in its three steps (check of
the throttle, threshold, deletion), because the threshold is computed before the
lock is taken. `Only` is what a WHERE selects, by a set of samples: `Selected` for the
query and `Deleted` for the deletion, as each builds its own. `Page` joins the sensors'
rows in order, `Shown` decides row by row what is suppressed; `Remaining` is the table
after a deletion.

### `SnmpAgent` (snmp.py, metrics.py:31-37)

`Mib` is the table of a snapshot as a set of pairs of OID and value. The byte codes are
modelled by what they compute: `EncodeOid` (`Body` is the loop over the arcs, `Root` the
byte the first two share, `ArcBytes` the shifts by seven bits), `DecodeOid` (`Reading` is
one turn of the loop), `EncodeInteger` (`Width`, `ToBytes`, the loop that drops leading
bytes) and `DecodeInteger`; the manager's side follows the standard. A manager walks with
GETNEXT while `ReplaceSnapshot` stands for `SensorStore.replace`. History variables:
`walked` (the answers of this walk), `still` (no cycle replaced the snapshot meanwhile),
`complete`. `SharedByteFits` tells the bases both sides can write: under root 2,
`parse_oid` also admits a second arc that the shared byte cannot hold, and the agent then
does not answer or answers wrongly (section 7).

### `LiveSettings` (config.py, frontend.py:205-226, 489-575, cli.py:1057-1113)

Configurations are partial functions from keys to values; `DeepMerge` is `deep_merge`,
`Shown` the frontend's `cfg()`, `Loaded` what a start computes from config.toml,
runtime-config.toml and the command line, over the parser's own defaults (`Unset`), which
differ from `default_config()`. `Given` is `_configured_parser`: it converts topic prefixes
(`Prefixes`, `Trimmed`) and refuses bad ones, while the page assigns them as they are. A save is three steps of a request
thread (`Read`, `Persist`, `Apply`) because the file is replaced between the reading
and the live assignment, and other requests run meanwhile. `Scalar`, `Parsed` and
`Checked` are the ways the page and `validate_runtime_security` treat a value. History variables: `asked` (what was
last saved, imported or edited), `overlap` (a change began while a request was at
work), `behind` (args waits for a restart). The pages for authentication providers are
the same save of a section with nothing to apply live.

### `Accounts` (auth.py, frontend.py)

`users` is the table as the shared connection sees it, `disk` what is committed. A
request is the sequence of its statements, `Handler[op]`; each name in it is an action
(`Login`, `Admin`, `Insert`, `KeepSeed`, `Commit`, ...), so that two requests meet between
any two statements. A row of an
import that fails leaves the rows before it pending on the shared connection: any later commit,
whoever's, writes them to the disk. Sessions are
the browsers', signed, and survive the process; passwords, codes and what LDAP or OIDC
say are free choices. `page` is what a browser shows or the redirect it follows.
History variables: `dirty` (requests with something uncommitted) and `outdated`
(requests whose account another one changed since they read it).

### `AcquisitionWindow` (plugins.py, scanner.py, cloud.py, cli.py:405-446)

`Loaded` is `load_plugins`, on entry points whose name and whose plugin's own name may
each be taken: `Candidates` counts how often a name is claimed, `Chosen` registers in
order. A window scans (frames per device, the oldest dropped at the limit), decodes a
device's frames in their order with every decoder in turn, the later reading replacing the
earlier, then polls the providers in parallel and merges. `FailWindow` is a window that ends
with an exception before or in its scan (configuration, bind keys, plugins, Bluetooth); a
malformed answer of a provider or reading of a third-party decoder ends it in `Merge`. `stuck` counts the pool's threads
an abandoned call still holds: with all of them held a call does not begin and times out.
`heard`, `found`, `tried` and `read` are history variables.

### `BackupRestore` (frontend.py:618-706, 146-180; backup.py)

Stores hold version numbers, and the table one for each account; a credential is named by
the configuration and lies in the host's own place, in `restored-secrets` or on another host.
An archive may be without the credential its configuration names, because a missing file or
a link is skipped (`whole` tells those that have it). A settings save reads the configuration
(`ReadSettings`) and writes it back (`WriteSettings`) in two steps, and `Upserted` is
`import_rows`: accounts the archive does not know stay. Exports and imports are the
steps of `ExportSteps` and `ImportSteps`, interleaved with each other, with the cycle's state file, the
settings page, changes of accounts, stops and starts. `alone` and `torn` are history variables:
the last import was cut short, or ran beside another one or beside a settings save.

### `SensorHealth` (metrics.py, prometheus.py, cli.py:846-866, 924-990)

The cycle's calls on `SensorStore` in their order, with its duration as a choice, and the
probe and the two reads of a scrape in between. `horizon` is `ready_max_age`, computed once.
`margins` and `uses` remember for how long the cycles went alike, which says what the
verdicts of the rolling averages must be.

### `WindowsService` (windows_service.py, config_gui.py:40-70, 330-360)

Extends `BridgeStatus`: a child started or terminated is its `main`. SvcDoRun (`wrapper`)
and SvcStop (`control`) run in two threads, the service manager starts, stops and refuses,
each editor saves, stops and starts (`step`). `overdue` is a history variable: a child
outlived the 15 s that SvcDoRun waits. With `windows = FALSE` the
service manager starts and stops the program itself, which is `BridgeStatus` alone.

## 4. Runs

| Run | Instance | States | Shows |
|---|---|---|---|
| `spool` | messages of 1, 2, 3 bytes, limits 2 and 4, ids to 8 | 23 thousand | the limit, minimal displacement |
| `delivery` | 4 messages, spool of 2, one message too large, 3 faults | 75 thousand | nothing lost, nothing sent twice without a fault, `AtLeastOnce` is implemented, so the spool drains |
| `retained` | 1 sensor, threshold 2, all seven upsets, 2 per behaviour, outages of 2 cycles | 0.4 million | no orphan, cleared at the threshold and neither decided nor arrived before, published is held, in the end unwanted is cleared and wanted is retained |
| `sensors` | 2 sensors (one BLE, one cloud), 2 windows, thresholds 1 and 2 | 0.9 million | latest reading kept, staleness exact, `stale_since` stable |
| `history` | 2 sensors, retentions 1 and 2, page of 3 rows, ages to 3 | 56 thousand | suppression of repeats and deletions for every query, retention in the end |
| `snmp` | 2 devices, arcs of one to three bytes, integers beyond a byte, a base that does not fit the shared byte | 11 thousand | complete walks, consistent rows |
| `bridge_status` | without the service 3 processes, 4 faults; with it 2 starts, 1 fault, 2 editors, 2 saves | 0.4 million | status follows the process, a stopped service is gone, a confirmed restart runs what was saved |
| `settings` | 2 requests, 5 keys of 3 sections (one a topic prefix), a refused value and one that is trimmed, 3 changes, a command line with or without an option, data directory as in config.toml or elsewhere | 4.7 million | a saved section stays saved, live values are what a restart would load |
| `accounts` | 2 browsers, 2 accounts, 2 requests, 1 fault, three tables and two sets of sessions to start from | 0.2 million | sources and seeds kept, answers durable, redirects end |
| `window` | 2 devices, buffer of 2, 4 frames, 2 windows, pool of 2, decoders and providers that collide in every way | 0.2 million | newest readable frame, answers kept, built-ins prevail, windows end |
| `backup` | 2 requests at a time, 3 in all, 1 fault, own archives and three foreign ones (two credentials, one without), two state paths, one account | 3.7 million | credentials fit, an answered import is what a start works with |
| `health` | 3 cycles of 9, 19 or 40 units, intervals 10 and 20, averages over 2 | 3.4 million | ready while succeeding, coherent pages, verdicts |

Each ends within two minutes. Why the bounds are enough. Spool: eviction of none, one and several
rows, a row above the limit, a smaller limit after a restart.
Delivery: a message in each of the four places (disk, hand, paho, broker) with
every pair of faults around it. Retained topics: sensors do not interact save
through the order and the limit of the spool; two sensors were checked too, with outages
of one cycle and all upsets but a full spool (11.5 million states), and with outages
of two cycles, a full spool and changes of discovery (threshold 1, 6.7 million states).
All invariants hold there; both are too slow to keep as runs. Thresholds of 2 tell "a miss" from
"consecutive misses". Sensors: two, so that one's miss meets the other's reading;
counters are capped at the greatest threshold, where `>=` no longer
changes. Bridge status: a crash, a broken link, a takeover and a timeout fit in one
behaviour, and three processes let an old session meet a new one twice; the service was
also checked with two faults (under two minutes, all hold).
History: the page limit is smaller than the table, and ages pass both retentions
and the throttle. Settings: three changes let a save, an edit or import and another
save meet, with two keys in one section, one value of each treatment, and a key whose two defaults differ. SNMP: arcs on
both sides of 127, 128 and 16384, an integer of two bytes and one with a byte to drop. Accounts: two requests are what it takes to share a
transaction, and the tables hold a forced password, an external source and an enrolled seed.
Window: more frames than the buffer, as many hanging calls as threads, and a second window that
inherits them. Backup: an import, a later start and one
thing in between, or a save around an import. Accounts do not interact in `Upserted`; two of
them were checked too (7.0 million states, both hold). Health:
durations below, at and beyond the interval's double, and averages that are filled and
overwritten once.

Each bound is a constant in a guard: `MaxId`, `MaxMessages`, `MaxFaults`, `MaxUpsets`,
`MaxOutage`, `MaxMisses`, `MaxAge`, `MaxScalars`, `MaxStarts`, `MaxChanges`, `MaxRequests`,
`MaxFrames`, `MaxWindows`, `MaxCycles`, `MaxSaves`, `MaxVersion`, `ServiceFaults`, `ServiceStarts`. Runs with
`CHECK_DEADLOCK FALSE` (see the cfg files) are those whose bounds or whose stopped
process end a behaviour.

Fairness. The bridge's loop goes on to its next statement, because every wait in it
has a timeout (weak fairness of its steps); paho's thread and the broker answer
and a disconnected client reconnects (`reconnect_delay_set`); a web request that has
begun ends (of the accounts, each browser's on its own); a window's loop goes on because
each call of a decoder or provider has a timeout; the wrapper's two threads go on. That a scan
ends (`StopScan`) is an assumption on the Bluetooth library: `scanner.start()` and
`scanner.stop()` are awaited without a timeout (scanner.py). No fairness is assumed of failures, settings, starts or stops. Faults
are bounded in number, so liveness says what happens once they are over.

## 5. Proofs

Each theorem holds for every value of the constants that its module's named
assumption admits. The argument is an inductive invariant: the initial states
satisfy it, every action preserves it, and it implies the property.

`StoreProofs` (`CacheAssumption`, `HistoryAssumption`), about the spool: `TypeCorrect`,
`FifoIdentity`, `WithinLimit`,
`EvictsOldest`. The invariant is `TypeOK /\ IdsOrdered /\ BatchNamesItsRows`: the last is not
inductive alone, because a new row must have an id above every one a batch holds, which is
the part of `IdsOrdered` about `nextId`. A step either keeps a subtable in order
(`FewerRows`) or appends rows numbered from `nextId` (`NewRows`). What the recursive
functions `Totals` and `Fitting` compute is shown from the well-ordering of the
naturals (`LeastNat`, `IntervalInduction`), which needs no induction schema. That no more
rows are displaced than make room follows because bytes used only fall as the oldest go
(`UsedFront`). About the history: `DeletionFitsQuery`, `RepeatsLoseNothing`. The table holds
samples (`SamplesAreTyped`), and the rest is what the recursive functions compute on any
such table: a selection has just the wanted rows (`OnlyRows`), so a deletion is compared
with a query as sets; a page is sorted by sensor (`PageIsSorted`), so a row that is left out
follows one of its own sensor (`FaithfulLeavesOut`), which has been shown. `Faithful` carries
this through the rows, with what is remembered of each sensor.

`MQTTDeliveryProofs` (`DeliveryAssumption`): `NoMessageIsLost`, `PromiseIsKept` (the safety
half of the refinement of `AtLeastOnce`), `SentOnce`. A message is followed through its
places. A row is deleted by an id of the batch, so the id must still name the message
that was sent (`Named`); and only an acknowledged message leaves the table or the hand,
so paho's queue may lose its head only after the broker received it (`Sent`, `InHand`).
`Known` (nothing is anywhere that was not handed over) makes the promise's steps
forward steps. `SentOnce` needs a second invariant, `Calm`: before the first fault paho
holds the awaited message at most, and a message is in one row at most, of which the
broker has nothing but the head of the batch.

`RetainedTopicsProofs` (`RetainedAssumption`): `NothingOrphaned`, `ThresholdClears`,
`OnlyMissesClear`, `PublishedStays`. Most is said of `Outcome`, what the broker will
hold once the queue is delivered; a first group of lemmas says how a message sent, queued
or displaced changes it, the flush included. What arrives at the broker is `OnlyMissesClear`'s
second half. The invariant then goes through the phases:
`Shape` (what a phase still works on), `Queue` (what the spool may hold), `Tracking` (what
the broker will hold is tracked or still to be dealt with in this cycle, and no counter is
overdue), `Counting` (no counter runs ahead of the absence it counts), `Clearings` (a state's clearing that
waits in the spool without a newer state behind it is that of a sensor absent for the
threshold, or about to be published in this cycle) and
`PublishedIsHeld` itself. `Tracking` and
`Counting` hold as long as only those upsets have happened which the property names, so
each step is also shown to leave a larger set of upsets behind or none.

`AcquisitionProofs` (`CycleAssumption`, `WindowAssumption`), about the cycle:
`TypeCorrect`, `LatestReadingIsKept`, `NeverStaleEarly`, `StaleSinceKept`. The invariant adds
`WindowsLeft` (an acquiring cycle has a
window left) and `CountersFollowMisses` (a miss counter never runs ahead of the misses and
equals them for a sensor under uninterrupted reuse), without which staleness at
the next export does not follow from staleness at this one. Only `Export` changes
what is exported; its lemmas take the fallback apart into the counter, the reused
reading and the fresh one. About the window: `NewestWins`, `AnswersKept`, `BuiltinsLead`.
Frames are numbered as they come, so a buffer is in order and above what was offered
already (`BuffersInOrder`); a frame that was dropped has `Limit` newer ones behind it
(`NewestKept`); hence what is read later is newer (`ReadingIsNewest`). Loading is an induction
over the entry points: `CandidatesExtend` (the built-in names stay in front, no name
comes twice) and `ChosenKeeps` (a selection keeps order and heads).

`ExporterProofs` (`HealthAssumption`, `AgentAssumption`), about health: `WellTyped`, `StaysReady`, `ScrapeIsCoherent`,
`VerdictsAreTheirs`. The invariant says how much of the horizon the age has used up in each phase
(`AgeInPhase`: what is slept, scanned and worked adds up to at most three intervals) and
that counted and begun cycles differ by one while a cycle is at work (`CyclesCounted`). For
the verdicts, the last entries of a rolling average are of the one kind that has lasted
(`Averages`), and a sum of values between two bounds lies between their multiples
(`BoundsAdd`), so the average falls on the side of its threshold that all of them are on.
About SNMP: `SnmpTypes`, `RowsStayConsistent`, `WalkStaysComplete`, with `OidRoundTrip` and
`IntegerRoundTrip` below them. The codes recurse over digits, so each local function is
first shown to exist (`Recursion`, from the least-number principle) and then followed step by
step. An OID: the decoding loop's trace over the bytes of one arc ends with the arc
appended and nothing pending (`ArcIsRead`), hence over all of them (`BodyIsRead`). An
integer: a byte less is eight bits less (`EightBitsLess`), so the first byte of the
computed width is a signed one (`WidthFits`), and what is dropped repeats its sign. `Before` is
a strict total order; the rows not after the cursor grow with each GETNEXT by just the row
it answers (`SuccessorAddsOne`), and when none follows they are the table (`NoSuccessor`, a
least row exists because the table is finite). Thus the invariant, `WalkListed`: the answers of
an uninterrupted walk are those rows, each at its place. `WalkIsComplete` alone says
nothing of a walk under way and is not inductive. Rows have OIDs of their own because a
device's index is its rank (`IndexInjective`), also under a base that does not fit.

`WindowsServiceProofs` (`ServiceAssumption`), about the gateway alone: `StatusIsTrue`, for any
bounds. Neither of its properties is inductive, because
what the broker will retain is decided by the packets on their way to it. The invariant
orders them (`Ordered`: CONNECT first, DISCONNECT last), says that a process not yet told to
stop sends only `online` (`SaysOnline`), that one which ends has an `offline` behind every
`online` unless `late` (`EndsOffline`), and that one which has hung up leaves no live session
without a DISCONNECT before it (`HangsUp`). `Opening` enumerates the few states of
a connection the broker has not accepted yet. About the service: `StoppedIsGone`,
`ConfirmedRuns`. A child lives
only while the wrapper is between its Popen and its end (`ChildHasWrapper`), and a restart is
reported only once the service was found stopped, before the Popen that reads the file
(`SavesOrdered`). The gateway's own steps raise no process (`OnlyStartRaises`), so
they keep the invariant whatever they do. `AbsentIsShown` and `SettledIsShown` carry the
result about the gateway over to a child that is terminated at any point: each step
of the service is a start or a death of the process, or leaves it alone.

`AccountsProofs` (`AccountsAssumption`): `TypesKept`, `SourceKept`, `AnswersDurable`, `SeedKept`. The
source needs nothing of what a request read before: each single statement leaves every
source alone or inserts a name that is free, and only a crash (back to the committed
table) or an import's row replaces an account (`Tabled` is enough). Durability is about the
plans of the handlers: every statement that writes is followed by a commit
of its own (`Plans`), so a request with something uncommitted has its commit before it
and never nothing (`Clean`), whoever's commit writes it to the disk. The seed needs that an
account with a second factor has a seed in both tables, and that a request whose account
nobody else changed still carries that account as it is (`Seeds`).

`ConfigurationProofs` (`SettingsAssumption`, `BackupAssumption`), about saves:
`WhatIsSavedStays`, `WhatIsLiveIsSaved`. A request
writes the whole configuration back. The invariant says that, while no two changes
overlap, what it read of the other sections is still what is shown when it writes
(`CopiesAreCurrent`), and that a live value differs from what was saved only until its
request applies it (`LiveFollows`); what is live of a topic prefix is what was typed, or what a
start made of it. `LoadedIsShown` says that a start reads what the page shows, prefixes
converted, save for the command line's keys: merging in another order gives the same layers.
About backups: `CredentialsFit`, `AnsweredRestored`. The credential is restored before the
configuration that names it, so a configuration never names `restored-secrets` with nothing
there (`CredentialIsThere`), nor does a save's copy of it; a save without an import beside it
writes back the configuration as it is (`SavesAreCurrent`); an archive that was saved alone holds the key its configuration names
(`ArchivesFit`); an import at work alone has restored what its remaining steps say it has
(`ImportHolds`), where "alone" must be known of the other requests too (`RequestsKnown`).

Only model-checked: liveness (`UnwantedIsCleared`, `WantedIsRetained`, `StatusFollowsProcess`,
`RetentionIsEnforced`, `RedirectsEnd`, `WindowEnds`, the promise's last part), which is
outside the proof system's reach as ENABLED is. Every invariant a run checks is proved.

## 6. Not modelled

What a frame decodes to (`plugins.py`, `binary.py`, third-party decoders), HTTP to cloud
providers, LDAP and OIDC, discovery payloads and the text of pages are data or free
choices in the models. The Tk form, the launchd and systemd commands, the parsing of the
command line, build scripts and container files keep no state that interacts with the
rest. Within the modelled parts:

* steps of the host's clock (ages and monotonic times only grow);
* a `stale_cycles` changed live while topics are being counted;
* a state file of another prefix, which is refused on load;
* user names that differ in case only (the table compares NOCASE);
* a wrapper that is killed while its child lives on;
* SQLite and the file system are taken to be atomic per statement, transaction or rename.

## 7. What the code does otherwise than it says

Seen while modelling. The properties of section 4 say in which circumstances they
hold and leave these out by name, or the models take the case as a free choice.

Messages and topics:

* the spool is flushed only at the head of a cycle. After a reconnection within one, the
  clearing of a topic goes out directly and its older state follows from the spool: the
  topic is retained for good (cli.py:888; README.md:406);
* a clearing left in the spool, when the link returns within a cycle or an acknowledgement is
  late, is flushed at the head of the next cycle although the sensor has come back and was
  published meanwhile: a live sensor's topic is cleared until its next publish (cli.py:888;
  docs/PRODUCTION.en.md:18);
* a clearing that a full spool displaces is not repeated: its topic stays retained until
  the sensor comes back (mqtt_cache.py:77-84, cli.py:970-976; README.md:154, 406);
* an exception before the loop reaches a sensor leaves its miss counter, so misses that
  are not consecutive clear it (cli.py:942; docs/PRODUCTION.en.md:18);
* a start that gives up waiting, or a shutdown, may disconnect cleanly behind an `online`;
  the last will is discarded (cli.py:771, 1008-1011; docs/USAGE.en.md:70);
* topics published before a crash or an exception are not in the state file
  (cli.py:980; README.md:406);
* `retain` switched off and on drops topics from the tracking (cli.py:977);
* a cycle counts as successful when its messages are only on disk
  (cli.py:802-810, 981; README.md:404, docs/PRODUCTION.en.md:18);
* the discovery entity of `data.rssi` shows the top-level rssi (homeassistant.py:166).

Acquisition:

* a retry window replaces a good reading by an empty one (cli.py:488, 459);
* reuse brings back sensors the allow-list excludes (cli.py:912; README.md:121), and
  marks a reused reading stale only from the threshold on (cli.py:578; README.md:152);
* a BLE scan that fails ends the window before the cloud providers are asked
  (cloud.py:157-159; README.md:213, 375), and a malformed answer of one provider fails the
  window of all (cli.py:442);
* a decoder that hangs keeps its worker thread: with all of them held, no synchronous
  plugin answers any more, and the exit waits for them (docs/PRODUCTION.en.md:18);
* the horizon of readiness is fixed at the start, the interval is live: after a longer
  interval is saved, a healthy gateway may be reported as not ready (cli.py:854;
  README.md:406, docs/USAGE.en.md:164-165).

History and exporters:

* the page "to see every stored sample" shows the oldest 20000 (history.py:209;
  docs/FRONTEND.en.md:88);
* a gateway whose cycles all fail before cli.py:928 never purges its history;
* a base OID under root 2 with a second arc above 39 is read and written in one byte
  (snmp.py:48, 101-113).

Web frontend:

* two overlapping saves of different sections: the later one writes the other's section
  back as it was, while args keeps it until the restart (frontend.py:492, 515);
* a save that reads before an import restores the configuration and writes after it puts the
  old configuration back, over the imported one and possibly beside the imported credential
  (frontend.py:492, 515);
* a topic prefix is applied live as it was typed; a start strips its slashes or refuses it
  (frontend.py:519-534; cli.py:114-120, 1082-1085; docs/FRONTEND.en.md:26);
* the first save of any section writes every default of `default_config()`, `mqtt.port` 1883
  among them, which the parser leaves open: a gateway with TLS and no port configured uses 8883
  until then, and 1883 from the next start on (config.py:268; cli.py:223, 743);
* a value is saved before it is validated: the next start refuses the file, and with
  it the page that could correct it (frontend.py:515, 540-548; cli.py:1099-1103);
* the start looks for runtime-config.toml where config.toml puts the frontend's data,
  the frontend writes it where `--frontend-data-dir` says (cli.py:1065, frontend.py:211;
  docs/FRONTEND.en.md:28-30);
* an account of an external source that must change its password is sent between two
  pages for ever (frontend.py:253, 370; docs/FRONTEND.en.md:18);
* an administrator who deletes the own account is answered with an error, and the
  deletion is not in the audit (frontend.py:592);
* an import adds and overwrites accounts; those created after the export stay
  (auth.py:208-222; docs/FRONTEND.en.md:66-71);
* an archive made while its credential's file was missing or a link is without it; the imported
  configuration then names a file this host lacks, or its own (frontend.py:155, backup.py:69);
* the cycle that is still running writes its own state file over an imported one
  (frontend.py:702; docs/FRONTEND.en.md:66-71);
* the spool's SQLite connection belongs to the thread that opened it: called from a
  web request, `snapshot_to` and `restore_from` raise, so a backup with the disk cache
  on can neither be exported nor imported beyond the users (mqtt_cache.py:34,
  frontend.py:627, 692; docs/FRONTEND.en.md:69). `MQTTCache` models what they do when
  called from a thread that may.

Windows service:

* "Save & restart" sends its start while the service is still stopping: the start is
  refused and the service stays stopped (config_gui.py:57-59;
  docs/NATIVE-INSTALLERS.en.md:11);
* a stop terminates the child without its `offline`; the last will says it instead.
