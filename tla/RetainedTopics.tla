---------------------------- MODULE RetainedTopics ----------------------------
(***************************************************************************)
(* The polling cycle's bookkeeping of retained MQTT topics                 *)
(* (cli.bridge(), 884-997): which topics the gateway believes it has       *)
(* published, how often each was missing, when it clears them, and what of *)
(* that survives a restart (load_runtime_state, save_runtime_state).       *)
(*                                                                         *)
(* A sensor has one state topic, and one Home Assistant config topic for   *)
(* an entity that its payload has or has not.  A publish is one action:    *)
(* the acknowledgement protocol is MQTTDelivery's.                         *)
(* The spool is the FIFO that MQTTCache is; when it is full, a row displaces*)
(* the oldest ones, as many as the sizes say.                              *)
(***************************************************************************)
EXTENDS Integers, Sequences, FiniteSets, FiniteSetsExt, Functions

CONSTANTS
    Sensors,        \* addresses, in the order of sorted(exported.items())
    StaleCycles,    \* args.stale_cycles
    Upsets,         \* which disturbances may occur, see below
    MaxUpsets,      \* bound on their number, each kind at most once
    MaxOutage       \* bound on the cycles begun since the spool was last empty

\* "reconnect"  the broker comes back during a cycle, not only between two
\* "late"       an acknowledgement does not come in time
\* "raise"      an exception ends the cycle (oversize payload, disk full, no cache)
\* "crash"      the process dies during a cycle and is started again
\* "displace"   the spool is full, from then on it may be so again
\* "discovery", "retain"  the setting is changed from the web frontend
UpsetKinds == {"reconnect", "late", "raise", "crash", "displace", "discovery", "retain"}

ASSUME RetainedAssumption ==
    /\ Sensors \subseteq Nat /\ IsFiniteSet(Sensors)
    /\ StaleCycles \in Nat \ {0}
    /\ Upsets \subseteq UpsetKinds
    /\ MaxUpsets \in Nat /\ MaxOutage \in Nat

VARIABLES
    pc,         \* the phase of the cycle
    exported,   \* sensors of the current cycle
    described,  \* those of them whose payload has the entity
    todo,       \* topics still to publish, clear or count in this phase
    current,    \* current_topics | current_discovery_topics
    tracked,    \* previously_published
    missing,    \* missing_cycles, 0 for a topic that has no entry
    file,       \* what the state file holds of the two
    discovery, retain,  \* live settings
    connected,
    outage,     \* cycles begun since the spool was last empty
    spool,      \* rows of the disk cache
    retained,   \* topics for which the broker holds a payload
    lost,       \* topics whose queued clearing was displaced and that no later
                \* message names
    absent,     \* cycles in a row that did not find the sensor
    upsets      \* kinds of disturbances that have occurred

cycleVars == <<exported, described, current, tracked, missing, file, absent>>
brokerVars == <<connected, outage, spool, retained, lost>>
settings == <<discovery, retain>>
vars == <<pc, todo, cycleVars, brokerVars, settings, upsets>>

State(s) == <<s, "state">>
Config(s) == <<s, "config">>
Topics == Sensors \X {"state", "config"}
Configs(topics) == {t \in topics : t[2] = "config"}

Disturb(kinds) ==
    /\ kinds \subseteq Upsets
    /\ upsets' = upsets \cup kinds /\ Cardinality(upsets') <= MaxUpsets
Upset(kind) == kind \notin upsets /\ Disturb({kind})
Go(phase, work) == pc' = phase /\ todo' = work

Init ==
    /\ pc = "flush" /\ todo = {}
    /\ exported = {} /\ described = {} /\ current = {} /\ tracked = {}
    /\ missing = [t \in Topics |-> 0]
    /\ file = [topics |-> {}, missing |-> [t \in Topics |-> 0]]
    /\ discovery \in BOOLEAN /\ retain = TRUE
    /\ connected \in BOOLEAN /\ outage = 0
    /\ spool = <<>> /\ retained = {} /\ lost = {}
    /\ absent = [s \in Sensors |-> 0]
    /\ upsets = {}

-----------------------------------------------------------------------------
\* What the broker retains after a message ("keep": a retained payload, "pass":
\* one that is not, "clear": the retained empty one), and after several.
Apply(held, row) ==
    CASE row.payload = "keep" -> held \cup {row.topic}
      [] row.payload = "pass" -> held
      [] row.payload = "clear" -> held \ {row.topic}

\* A topic is retained unless a clearing follows: held's, or a row's.
AfterFlush(held, rows) ==
    LET Clears(t, i) == \E j \in i .. Len(rows) : rows[j] = [topic |-> t, payload |-> "clear"]
    IN  {t \in Topics :
            \/ t \in held /\ ~Clears(t, 1)
            \/ \E i \in 1 .. Len(rows) :
                  rows[i] = [topic |-> t, payload |-> "keep"] /\ ~Clears(t, i)}

\* MQTTCache.enqueue: the row displaces the oldest ones if there is no room.
Cleared(rows) == {row.topic : row \in {r \in Range(rows) : r.payload = "clear"}}
Named(rows) == {row.topic : row \in Range(rows)}

Enqueue(row, kinds) ==
    \E n \in 0 .. Len(spool) :
        /\ Disturb(IF n > 0 THEN kinds \cup {"displace"} ELSE kinds)
        /\ spool' = Append(SubSeq(spool, n + 1, Len(spool)), row)
        /\ lost' = (lost \cup Cleared(SubSeq(spool, 1, n))) \ Named(spool')

PublishOrCacheNewestFirst(topic, payload) == \* mutant: oldest() ORDER BY id DESC
    LET row == [topic |-> topic, payload |-> payload]
    IN  /\ IF connected THEN retained' = Apply(retained, row) /\ UNCHANGED spool
                        ELSE spool' = <<row>> \o spool /\ UNCHANGED retained
        /\ UNCHANGED <<connected, outage, lost, upsets>>

\* Delivered, queued, or (a late acknowledgement) both.
PublishOrCache(topic, payload) ==
    LET row == [topic |-> topic, payload |-> payload]
    IN  /\ \/ /\ connected
              /\ retained' = Apply(retained, row)
              /\ lost' = lost \ {topic}
              /\ UNCHANGED <<spool, upsets>>
           \/ /\ ~connected
              /\ Enqueue(row, {})
              /\ UNCHANGED retained
           \/ /\ connected /\ "late" \notin upsets
              /\ retained' = Apply(retained, row)
              /\ Enqueue(row, {"late"})
        /\ UNCHANGED <<connected, outage>>

\* flush_cache at the head of the cycle: it ends early when the link is lost on
\* the way or an acknowledgement is late.
Flush ==
    /\ pc = "flush"
    /\ Go("scan", {})
    /\ \/ /\ connected
          /\ retained' = AfterFlush(retained, spool)
          /\ spool' = <<>>
          /\ outage' = 0
          /\ UNCHANGED <<connected, upsets>>
       \/ /\ connected /\ outage < MaxOutage
          /\ \E n \in 0 .. Len(spool) - 1 :
                /\ retained' = AfterFlush(retained, SubSeq(spool, 1, n))
                /\ spool' = SubSeq(spool, n + 1, Len(spool))
          /\ outage' = outage + 1
          /\ \/ connected' = FALSE /\ UNCHANGED upsets
             \/ Upset("late") /\ UNCHANGED connected
       \/ /\ ~connected /\ outage < MaxOutage
          /\ outage' = outage + 1
          /\ UNCHANGED <<connected, spool, retained, upsets>>
    /\ UNCHANGED <<cycleVars, lost, settings>>

\* Discovery and filtering give the cycle's sensors.
Scan ==
    /\ pc = "scan"
    /\ \E found \in SUBSET Sensors : \E d \in SUBSET found :
          /\ exported' = found
          /\ described' = d
          /\ absent' = [s \in Sensors |->
                            IF s \in found THEN 0
                            ELSE Min({absent[s] + 1, StaleCycles})]
          /\ Go("state", {State(s) : s \in found})
    /\ current' = {}
    /\ UNCHANGED <<tracked, missing, file, brokerVars, settings, upsets>>

First(topics) == Min({t[1] : t \in topics})

PublishStateKeepsMisses == \* mutant: the counter is not reset
    /\ pc = "state" /\ todo # {}
    /\ LET s == First(todo)
       IN  /\ PublishOrCache(State(s), IF retain THEN "keep" ELSE "pass")
           /\ current' = current \cup {State(s)}
           /\ IF discovery /\ s \in described THEN Go("config", todo)
              ELSE Go("state", todo \ {State(s)})
    /\ UNCHANGED <<exported, described, tracked, missing, file, absent, settings>>

PublishState ==
    /\ pc = "state" /\ todo # {}
    /\ LET s == First(todo)
       IN  /\ PublishOrCache(State(s), IF retain THEN "keep" ELSE "pass")
           /\ missing' = [missing EXCEPT ![State(s)] = 0]
           /\ current' = current \cup {State(s)}
           /\ IF discovery /\ s \in described THEN Go("config", todo)
              ELSE Go("state", todo \ {State(s)})
    /\ UNCHANGED <<exported, described, tracked, file, absent, settings>>

PublishConfig ==
    /\ pc = "config"
    /\ LET s == First(todo)
       IN  /\ PublishOrCache(Config(s), "keep")
           /\ missing' = [missing EXCEPT ![Config(s)] = 0]
           /\ current' = current \cup {Config(s)}
           /\ Go("state", todo \ {State(s)})
    /\ UNCHANGED <<exported, described, tracked, file, absent, settings>>

StatesDoneOnlyWithDiscovery == \* mutant: switching discovery off clears nothing
    /\ pc = "state" /\ todo = {}
    /\ Go("clear", IF discovery THEN Configs(tracked) \ current ELSE {})
    /\ UNCHANGED <<cycleVars, brokerVars, settings, upsets>>

StatesDoneClearsAll == \* mutant: those of this cycle are cleared as well
    /\ pc = "state" /\ todo = {}
    /\ Go("clear", Configs(tracked))
    /\ UNCHANGED <<cycleVars, brokerVars, settings, upsets>>

\* Config topics published before and not in this cycle are cleared at once.
StatesDone ==
    /\ pc = "state" /\ todo = {}
    /\ Go("clear", Configs(tracked) \ current)
    /\ UNCHANGED <<cycleVars, brokerVars, settings, upsets>>

ClearConfig ==
    /\ pc = "clear"
    /\ \E t \in todo :
          /\ PublishOrCache(t, "clear")
          /\ missing' = [missing EXCEPT ![t] = 0]
          /\ Go("clear", todo \ {t})
    /\ UNCHANGED <<exported, described, current, tracked, file, absent, settings>>

ConfigsDone ==
    /\ pc = "clear" /\ todo = {}
    /\ \/ /\ retain
          /\ Go("miss", (tracked \ current) \ Configs(tracked))
          /\ UNCHANGED tracked
       \/ /\ ~retain
          /\ Go("save", {})
          /\ tracked' = current
    /\ UNCHANGED <<exported, described, current, missing, file, absent, brokerVars, settings, upsets>>

\* Counts beyond the threshold are not told apart.
Misses(t) == Min({missing[t] + 1, StaleCycles})

CountMiss ==
    /\ pc = "miss"
    /\ \E t \in todo :
          /\ \/ /\ Misses(t) < StaleCycles
                /\ missing' = [missing EXCEPT ![t] = Misses(t)]
                /\ UNCHANGED <<brokerVars, upsets>>
             \/ /\ Misses(t) >= StaleCycles
                /\ PublishOrCache(t, "clear")
                /\ missing' = [missing EXCEPT ![t] = 0]
          /\ Go("miss", todo \ {t})
    /\ UNCHANGED <<exported, described, current, tracked, file, absent, settings>>

MissesDoneForgets == \* mutant: topics still being counted are not tracked
    /\ pc = "miss" /\ todo = {}
    /\ tracked' = current
    /\ Go("save", {})
    /\ UNCHANGED <<exported, described, current, missing, file, absent, brokerVars, settings, upsets>>

MissesDone ==
    /\ pc = "miss" /\ todo = {}
    /\ tracked' = current \cup {t \in Topics : missing[t] > 0}
    /\ Go("save", {})
    /\ UNCHANGED <<exported, described, current, missing, file, absent, brokerVars, settings, upsets>>

SaveTopicsOnly == \* mutant: the counters are not saved
    /\ pc = "save"
    /\ file' = [topics |-> tracked, missing |-> [t \in Topics |-> 0]]
    /\ Go("flush", {})
    /\ current' = {}
    /\ UNCHANGED <<exported, described, tracked, missing, absent, brokerVars, settings, upsets>>

\* save_runtime_state replaces the file atomically.  The next cycle starts with
\* new topic sets.
Save ==
    /\ pc = "save"
    /\ file' = [topics |-> tracked, missing |-> missing]
    /\ Go("flush", {})
    /\ current' = {}
    /\ UNCHANGED <<exported, described, tracked, missing, absent, brokerVars, settings, upsets>>

\* The handler at the end of the loop body keeps what was already changed.  A
\* miss is counted before the publish that may raise.
Fail ==
    /\ pc # "flush" /\ Upset("raise")
    /\ Go("flush", {})
    /\ current' = {}
    /\ \/ missing' = missing
       \/ /\ pc = "miss"
          /\ \E t \in todo : missing' = [missing EXCEPT ![t] = Misses(t)]
    /\ UNCHANGED <<exported, described, tracked, file, absent, brokerVars, settings>>

Cycle ==
    \/ Flush \/ Scan \/ PublishState \/ PublishConfig \/ StatesDone
    \/ ClearConfig \/ ConfigsDone \/ CountMiss \/ MissesDone \/ Save

-----------------------------------------------------------------------------
\* A stop signal is obeyed between two cycles, a crash at any point.  Counters
\* of topics the file does not list are dropped on load.
Restart ==
    /\ \/ pc = "flush" /\ UNCHANGED upsets
       \/ Upset("crash")
    /\ Go("flush", {})
    /\ current' = {} /\ exported' = {} /\ described' = {}
    /\ tracked' = file.topics
    /\ missing' = [t \in Topics |-> IF t \in file.topics THEN file.missing[t] ELSE 0]
    /\ connected' = FALSE
    /\ UNCHANGED <<file, absent, outage, spool, retained, lost, settings>>

Disconnect ==
    /\ connected
    /\ connected' = FALSE
    /\ UNCHANGED <<pc, todo, cycleVars, outage, spool, retained, lost, settings, upsets>>

Reconnect ==
    /\ ~connected
    /\ \/ pc = "flush" /\ UNCHANGED upsets
       \/ pc # "flush" /\ Upset("reconnect")
    /\ connected' = TRUE
    /\ UNCHANGED <<pc, todo, cycleVars, outage, spool, retained, lost, settings>>

\* The web settings change args at any moment.
SetDiscovery ==
    /\ Upset("discovery")
    /\ discovery' = ~discovery
    /\ UNCHANGED <<pc, todo, cycleVars, brokerVars, retain>>

SetRetain ==
    /\ Upset("retain")
    /\ retain' = ~retain
    /\ UNCHANGED <<pc, todo, cycleVars, brokerVars, discovery>>

Next ==
    \/ Cycle \/ Fail
    \/ Restart \/ Disconnect \/ Reconnect \/ SetDiscovery \/ SetRetain

\* The loop body always goes on to its next statement.
Spec == Init /\ [][Next]_vars /\ WF_vars(Cycle)

-----------------------------------------------------------------------------
\* What the broker will hold once it has received the queue.
Outcome == AfterFlush(retained, spool)

\* Each property below names the disturbances it survives.
Only(kinds) == upsets \subseteq kinds

\* Between two cycles the gateway knows, in memory and on disk, every topic the
\* broker holds or will hold a payload for: no topic is left that no later
\* cycle, of this process or of the next, would clear (cli.py:929-980).  A full spool
\* costs those topics at most whose clearing it displaced (mqtt_cache.py:77-84).
NoOrphanTopic ==
    pc = "flush" /\ Only({"discovery", "displace"}) =>
        Outcome \ lost \subseteq tracked \cap file.topics

\* A state topic is cleared only after stale_cycles misses in a row
\* (docs/PRODUCTION.en.md:18).  The gateway does not decide on it earlier, whatever
\* outages, late acknowledgements, settings and restarts between two cycles fall
\* into the count; and the broker does not lose the topic earlier, unless a newer
\* state is on its way.  The second part does not survive a clearing that is left
\* in the spool when messages of a later cycle pass it, which takes a reconnection
\* within a cycle or a late acknowledgement, nor a state that is not to be retained;
\* neither part a cycle that ends early or a displaced row.
Decided(t) == t \in Outcome /\ t \notin Outcome'
Arrived(t) == t \in retained /\ t \notin retained' \cup Outcome'

ClearedOnlyAfterMisses ==
    [][ \A s \in Sensors :
          /\ Decided(State(s)) /\ Only(UpsetKinds \ {"raise", "crash", "displace"})'
                => absent[s] >= StaleCycles
          /\ Arrived(State(s)) /\ Only({"discovery"})' => absent[s] >= StaleCycles ]_vars

\* ... and by the end of the cycle that misses it for the stale_cycles-th time
\* in a row, it is cleared or its clearing is queued (README.md:406), or was
\* queued and displaced.
ClearedAtThreshold ==
    pc = "flush" /\ Only({"discovery", "displace"}) =>
        \A s \in Sensors : absent[s] >= StaleCycles => State(s) \notin Outcome \ lost

\* The broker holds or will hold every topic the cycle has published: no
\* clearing, queued in this cycle or left over from an earlier one or an
\* earlier process, undoes it (cli.py:888-889, 929-956).
PublishedIsHeld ==
    retain /\ Only(UpsetKinds \ {"reconnect", "late", "displace"}) => current \subseteq Outcome

\* A topic that is not wanted any more, because its sensor or entity stays away
\* or because discovery stays off, is in the end not retained, if the link in
\* the end stays up (README.md:148, README.md:406).
Wanted(t) ==
    /\ t[1] \in exported
    /\ t[2] = "config" => discovery /\ t[1] \in described

UnwantedIsCleared ==
    \A t \in Topics :
        <>[](~Wanted(t) /\ connected /\ retain /\ Only({"discovery", "displace"}))
            => <>[](t \notin retained \ lost)

\* A topic that is wanted from some time on is in the end retained, whatever happened
\* before: also a clearing that was left in the spool and came behind the state, an
\* exception, a crash or a full spool is made good by the cycles that follow
\* (cli.py:888, 929-956).
WantedIsRetained ==
    \A t \in Topics :
        <>[](Wanted(t) /\ connected /\ retain) => <>[](t \in retained)

=============================================================================
