------------------------- MODULE AcquisitionWindow --------------------------
(***************************************************************************)
(* One acquisition window after the other: loading of the plugins, the BLE *)
(* scan, the decoding of its frames, the poll of the cloud providers and   *)
(* the merge of what they read (plugins.py, scanner.py, cloud.py and       *)
(* discover_with_plugins in cli.py).  SensorCycle takes the outcome of a   *)
(* window as a free choice; this module says what it can be.               *)
(*                                                                         *)
(* Decoders and providers are third-party code: a call answers, answers    *)
(* with nothing or an exception, or takes longer than the timeout.  Calls  *)
(* that are not coroutines run in the event loop's pool of worker threads; *)
(* a timeout abandons such a call but cannot end its thread.               *)
(*                                                                         *)
(* The names of the specification (WindowInit, found, ...) differ from     *)
(* those of SensorCycle, so that one module can extend both.               *)
(***************************************************************************)
EXTENDS Integers, Sequences, FiniteSets, SequencesExt

CONSTANTS
    Devices,            \* addresses that may advertise
    BuiltIn,            \* names of the built-in decoders, in their order
    BuiltInCloud,       \* and of the built-in providers
    Coroutines,         \* names of the plugins that need no worker thread
    EntryPoints,        \* sequences of entry points a host may have installed
    CloudEntryPoints,   \* likewise for providers
    Enabled,            \* selections of names considered; the empty one selects all
    Importable,         \* names whose dependency is installed and whose table is enabled
    Reads,              \* Reads[p]: the addresses provider p answers with
    Limit,              \* max_frames_per_device
    Workers,            \* threads of the pool
    MaxFrames, MaxWindows

ASSUME WindowAssumption ==
    /\ {BuiltIn, BuiltInCloud} \subseteq Seq(STRING)
    /\ IsInjective(BuiltIn) /\ IsInjective(BuiltInCloud)
    /\ EntryPoints \cup CloudEntryPoints \subseteq
           Seq([name : STRING, plugin : STRING, loads : BOOLEAN])
    /\ Limit \in Nat \ {0} /\ Workers \in Nat \ {0}
    /\ MaxFrames \in Nat /\ MaxWindows \in Nat
    /\ \A p \in DOMAIN Reads : IsFiniteSet(Reads[p])

VARIABLES
    stage,      \* "scan", "decode", "cloud"; between windows "done" or "failed"
    plugins,    \* the decoders of this window
    providers,  \* its providers
    frames,     \* advertisements: the frames kept of each device
    job,        \* the decode that is awaited
    stuck,      \* workers that an abandoned call still holds
    readings,   \* each device's reading: by the scan, and from which frame
    polls,      \* the call of each provider
    found,      \* what the last finished window returned
    windows,
    \* history:
    heard,      \* the frames of each device, by number
    tried, read \* frames offered to every decoder; frames that one could read

scanVars == <<frames, heard>>
decodeVars == <<job, readings, tried, read>>
windowVars == <<stage, plugins, providers, scanVars, decodeVars, stuck, polls, found, windows>>

NoJob == [device |-> "", plugin |-> 0, state |-> "none"]
Ended == {"answered", "failed", "malformed"}

-----------------------------------------------------------------------------
(* Loading.  An entry point has a name; what it loads has one too, or it fails. *)

CandidateAnyName(known, entry) == \* mutant: the plugin's own name is not compared
    IF entry.name \in ToSet(known) \/ ~entry.loads THEN known
    ELSE Append(known, entry.plugin)
Candidate(known, entry) ==
    IF {entry.name, entry.plugin} \cap ToSet(known) # {} \/ ~entry.loads THEN known
    ELSE Append(known, entry.plugin)

\* The built-in names, then those of the entry points that are accepted.
Candidates(builtin, entries) ==
    LET known[i \in 0 .. Len(entries)] ==
            IF i = 0 THEN builtin ELSE Candidate(known[i - 1], entries[i])
    IN  known[Len(entries)]

\* load_plugins and load_cloud_plugins: the candidates that are selected and import.
\* (SelectSeq, as the recursive function that proofs can expand.)
Chosen(names, wanted) ==
    LET loaded[i \in 0 .. Len(names)] ==
            IF i = 0 THEN <<>>
            ELSE IF names[i] \in wanted THEN Append(loaded[i - 1], names[i])
                 ELSE loaded[i - 1]
    IN  loaded[Len(names)]

Loaded(builtin, entries, enabled) ==
    Chosen(Candidates(builtin, entries),
           IF enabled = {} THEN Importable ELSE enabled \cap Importable)

-----------------------------------------------------------------------------
WindowInit ==
    /\ stage = "done" /\ plugins = <<>> /\ providers = <<>>
    /\ frames = [d \in Devices |-> <<>>] /\ heard = [d \in Devices |-> {}]
    /\ job = NoJob /\ readings = <<>> /\ tried = {} /\ read = {}
    /\ stuck = 0 /\ polls = <<>> /\ found = <<>> /\ windows = 0

\* The plugins are made anew in each window, and with them their decoders' state.
\* Without a decoder there is no scan.
StartWindow ==
    /\ stage \in {"done", "failed"} /\ windows < MaxWindows /\ windows' = windows + 1
    /\ \E entries \in EntryPoints, cloudEntries \in CloudEntryPoints, enabled \in Enabled :
          /\ plugins' = Loaded(BuiltIn, entries, enabled)
          /\ providers' = Loaded(BuiltInCloud, cloudEntries, enabled)
    /\ stage' = IF plugins' = <<>> THEN "decode" ELSE "scan"
    /\ frames' = [d \in Devices |-> <<>>] /\ heard' = [d \in Devices |-> {}]
    /\ job' = NoJob /\ readings' = <<>> /\ tried' = {} /\ read' = {}
    /\ polls' = <<>> /\ found' = <<>>
    /\ UNCHANGED stuck

\* An exception before the scan or in it (a bind key that cannot be read or that names no
\* decoder which takes one, an adapter that does not start), or before the poll (a cloud
\* configuration that is no table), ends the window, and the providers are not polled.
FailWindow ==
    /\ \/ stage = "scan"
       \/ stage = "decode" /\ job = NoJob /\ \A d \in Devices : frames[d] = <<>>
    /\ stage' = "failed"
    /\ UNCHANGED <<plugins, providers, scanVars, decodeVars, stuck, polls, found, windows>>

Trimmed(seq, n) == IF Len(seq) <= n THEN seq ELSE SubSeq(seq, Len(seq) - n + 1, Len(seq))

\* detected()
Detect(d) ==
    /\ stage = "scan"
    /\ LET n == Cardinality(UNION {heard[e] : e \in Devices}) + 1
       IN  /\ n <= MaxFrames
           /\ heard' = [heard EXCEPT ![d] = @ \cup {n}]
           /\ frames' = [frames EXCEPT ![d] = Trimmed(Append(@, n), Limit)]
    /\ UNCHANGED <<stage, plugins, providers, decodeVars, stuck, polls, found, windows>>

StopScan ==
    /\ stage = "scan" /\ stage' = "decode"
    /\ UNCHANGED <<plugins, providers, scanVars, decodeVars, stuck, polls, found, windows>>

-----------------------------------------------------------------------------
(* Decoding: device after device, its frames in order, each by every plugin. *)

Scanned(n) == [by |-> "scan", frame |-> n]
Decoder == plugins[job.plugin]
Frame == Head(frames[job.device])
Free(n) == stuck + n < Workers

\* latest[key] = reading
Latest == [d \in DOMAIN readings \cup {job.device} |->
              IF d = job.device THEN Scanned(Frame) ELSE readings[d]]

NextDevice ==
    /\ stage = "decode" /\ job = NoJob
    /\ \E d \in Devices : /\ frames[d] # <<>>
                          /\ job' = [device |-> d, plugin |-> 1, state |-> "queued"]
    /\ UNCHANGED <<stage, plugins, providers, scanVars, readings, tried, read, stuck,
                   polls, found, windows>>

RunDecode ==
    /\ job.state = "queued" /\ (Decoder \in Coroutines \/ Free(0))
    /\ job' = [job EXCEPT !.state = "running"]
    /\ UNCHANGED <<stage, plugins, providers, scanVars, readings, tried, read, stuck,
                   polls, found, windows>>

\* The await has ended with these readings: the next plugin, frame or device.
Advance(now) ==
    /\ readings' = now
    /\ IF job.plugin < Len(plugins)
       THEN /\ job' = [job EXCEPT !.plugin = @ + 1, !.state = "queued"]
            /\ UNCHANGED <<frames, tried>>
       ELSE /\ frames' = [frames EXCEPT ![job.device] = Tail(@)]
            /\ job' = IF Len(frames[job.device]) = 1 THEN NoJob
                      ELSE [job EXCEPT !.plugin = 1, !.state = "queued"]
            /\ tried' = tried \cup {<<job.device, Frame>>}
    /\ UNCHANGED <<stage, plugins, providers, heard, polls, found, windows>>

DecodedKeepsFirst == \* mutant: setdefault
    /\ job.state = "running"
    /\ Advance(IF job.device \in DOMAIN readings THEN readings ELSE Latest)
    /\ read' = read \cup {<<job.device, Frame>>}
    /\ UNCHANGED stuck
Decoded ==
    /\ job.state = "running"
    /\ Advance(Latest)
    /\ read' = read \cup {<<job.device, Frame>>}
    /\ UNCHANGED stuck

DecodedNothing ==
    /\ job.state = "running"
    /\ Advance(readings)
    /\ UNCHANGED <<stuck, read>>

\* wait_for gives up, also on a call that no worker was free to begin.
DecodeTimeout ==
    /\ job.state \in {"queued", "running"}
    /\ Advance(readings) /\ UNCHANGED read
    /\ stuck' = IF job.state = "running" /\ Decoder \notin Coroutines
                THEN stuck + 1 ELSE stuck

\* A call that was given up returns after all; its answer is not used.
LateReturn ==
    /\ stuck > 0 /\ stuck' = stuck - 1
    /\ UNCHANGED <<stage, plugins, providers, scanVars, decodeVars, polls, found, windows>>

DecodeDone ==
    /\ stage = "decode" /\ job = NoJob /\ \A d \in Devices : frames[d] = <<>>
    /\ stage' = "cloud"
    /\ polls' = [p \in ToSet(providers) |-> "queued"]
    /\ UNCHANGED <<plugins, providers, scanVars, decodeVars, stuck, found, windows>>

-----------------------------------------------------------------------------
(* The providers are polled at once, each with its own timeout. *)

PollStep(p, from, to) ==
    /\ stage = "cloud" /\ p \in DOMAIN polls
    /\ polls[p] \in from /\ \E state \in to : polls' = [polls EXCEPT ![p] = state]
    /\ UNCHANGED <<stage, plugins, providers, scanVars, decodeVars, found, windows>>

Polling == Cardinality({p \in DOMAIN polls : polls[p] = "running" /\ p \notin Coroutines})

RunPoll(p) ==
    /\ PollStep(p, {"queued"}, {"running"})
    /\ (p \in Coroutines \/ Free(Polling))
    /\ UNCHANGED stuck

\* A third-party provider may answer with something that is not a list of readings.
PollEnds(p) ==
    /\ PollStep(p, {"running"}, IF p \in ToSet(BuiltInCloud) THEN {"answered", "failed"} ELSE Ended)
    /\ UNCHANGED stuck

PollTimeoutNever(p) == \* mutant: a poll is awaited without a timeout
    /\ FALSE /\ PollStep(p, {"queued", "running"}, {"failed"}) /\ UNCHANGED stuck
PollTimeout(p) ==
    /\ PollStep(p, {"queued", "running"}, {"failed"})
    /\ stuck' = IF polls[p] = "running" /\ p \notin Coroutines THEN stuck + 1 ELSE stuck

AnswersAllOrNone == \* mutant: gather without a handler around each poll
    IF \A p \in DOMAIN polls : polls[p] = "answered" THEN DOMAIN providers ELSE {}
Answers == {i \in DOMAIN providers : polls[providers[i]] = "answered"}

\* The first reading of an address is kept, and those of the scan come first.
Merged ==
    [a \in DOMAIN readings \cup UNION {Reads[providers[i]] : i \in Answers} |->
        IF a \in DOMAIN readings THEN readings[a]
        ELSE LET first == Min({i \in Answers : a \in Reads[providers[i]]})
             IN  [by |-> providers[first], frame |-> 0]]

\* A malformed answer or reading, which only third-party code gives, fails the window.
Merge ==
    /\ stage = "cloud" /\ \A p \in DOMAIN polls : polls[p] \in Ended
    /\ \/ /\ \A p \in DOMAIN polls : polls[p] # "malformed"
          /\ stage' = "done" /\ found' = Merged
       \/ /\ \/ \E p \in DOMAIN polls : polls[p] = "malformed"
             \/ DOMAIN readings # {} /\ ~(ToSet(plugins) \subseteq ToSet(BuiltIn))
          /\ stage' = "failed" /\ UNCHANGED found
    /\ UNCHANGED <<plugins, providers, scanVars, decodeVars, stuck, polls, windows>>

-----------------------------------------------------------------------------
\* Steps of the event loop, whatever the third-party code does.
Loop ==
    \/ StopScan \/ NextDevice \/ DecodeTimeout \/ DecodeDone \/ Merge
    \/ \E p \in DOMAIN polls : PollTimeout(p)

WindowNext ==
    \/ StartWindow \/ FailWindow \/ (\E d \in Devices : Detect(d))
    \/ RunDecode \/ Decoded \/ DecodedNothing \/ LateReturn
    \/ (\E p \in DOMAIN polls : RunPoll(p) \/ PollEnds(p))
    \/ Loop

WindowSpec == WindowInit /\ [][WindowNext]_windowVars /\ WF_windowVars(Loop)

-----------------------------------------------------------------------------
\* A finished window has offered the newest Limit frames of each device to the decoders,
\* and shows the newest one that any of them could read, whatever other decoders, frames
\* and providers did, also if a provider answers for the same address.
NewestReadingWins ==
    stage = "done" =>
    \A d \in Devices : \A f \in heard[d] :
        Cardinality({g \in heard[d] : g > f}) < Limit =>
            /\ <<d, f>> \in tried
            /\ <<d, f>> \in read => /\ d \in DOMAIN found
                                   /\ found[d].by = "scan" /\ found[d].frame >= f

\* What a provider answered in time is in the window's result, whatever the others did:
\* its own answer, or for an address that was read before it another's.
AnswersAreKept ==
    stage = "done" =>
    \A p \in DOMAIN polls : polls[p] = "answered" => Reads[p] \subseteq DOMAIN found

\* Each decoder and provider is loaded once, and a third-party one never in the place of
\* a built-in one: what bears a built-in name is built in and stands at the head.
BuiltinsPrevail ==
    /\ IsInjective(plugins) /\ IsInjective(providers)
    /\ \A i, j \in DOMAIN plugins :
          i < j /\ plugins[j] \in ToSet(BuiltIn) => plugins[i] \in ToSet(BuiltIn)

\* Every window ends, although calls may hang for good and hold every worker.
WindowEnds == stage \notin {"done", "failed"} ~> stage \in {"done", "failed"}
=============================================================================
