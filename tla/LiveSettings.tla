---------------------------- MODULE LiveSettings ----------------------------
(***************************************************************************)
(* The effective configuration: config.toml, the web frontend's            *)
(* runtime-config.toml, the command line, and the live namespace `args`    *)
(* that the bridge reads in each cycle (cli.py, config.py, frontend.py).   *)
(*                                                                         *)
(* Requests of the settings page run in threads of their own; each reads   *)
(* the whole configuration, changes one section and writes the whole       *)
(* back.  The operator edits config.toml, imports backups, and stops and   *)
(* starts the gateway at any moment.                                       *)
(*                                                                         *)
(* A configuration is a partial function from keys to values; the nesting  *)
(* of the TOML tables is in Section.                                       *)
(***************************************************************************)
EXTENDS Integers, FiniteSets

CONSTANTS
    Keys, Section,      \* Section[k]: the table a key belongs to
    Values, Bad,        \* Bad: values the program's validation refuses
    Defaults,           \* default_config(), which the frontend starts from
    Unset,              \* the parser's own defaults, for keys no file holds
    Scalar,             \* keys the settings page assigns to args as they are
    Prefixes, Trimmed,  \* topic prefixes, and what topic_prefix() makes of a value
    Parsed,             \* keys it parses first: devices and names
    Checked,            \* keys only validate_runtime_security looks at
    Options,            \* the command lines considered, without the data directory
    Archives,           \* configurations of the backups considered
    Directories, FileDirectory,     \* of --frontend-data-dir; what config.toml says
    Threads,
    MaxChanges          \* bound on saves, imports and edits

Sections == {Section[k] : k \in Keys}
Configuration == UNION {[K -> Values] : K \in SUBSET Keys}

ASSUME SettingsAssumption ==
    /\ Bad \subseteq Values
    /\ Defaults \in [Keys -> Values] /\ Unset \in [Keys -> Values]
    /\ Trimmed \in [Values -> Values]
    /\ Scalar \subseteq Keys /\ Parsed \subseteq Keys /\ Checked \subseteq Keys
    /\ Prefixes \subseteq Keys
    /\ Scalar \cap Parsed = {} /\ Prefixes \cap Parsed = {}
    \* Every live key has the same default in both; an empty text is one value with what
    \* the parser gives in its stead.
    /\ \A k \in Scalar \cup Parsed : Defaults[k] = Unset[k]
    /\ Options \subseteq Configuration /\ Archives \subseteq Configuration
    \* A list on the command line is appended to that of the files; none is considered.
    /\ \A o \in Options : DOMAIN o \cap Parsed = {}
    /\ FileDirectory \in Directories
    /\ MaxChanges \in Nat

VARIABLES
    base,       \* config.toml
    runtime,    \* runtime-config.toml in each directory; absent is empty
    options,    \* the service's command line
    directory,  \* the frontend's data directory of this command line
    up, args,   \* the process and its namespace
    stage,      \* of each request: "idle", "read" or "saved"
    current,    \* its copy of the configuration
    section,    \* the section it saves
    changes,
    \* history:
    asked,      \* for each key the value last saved, imported or edited
    overlap,    \* a change was made while a request was at work
    behind      \* args waits for a restart

fileVars == <<base, runtime>>
requestVars == <<stage, current, section>>
vars == <<fileVars, options, directory, up, args, requestVars, changes,
          asked, overlap, behind>>

DeepMergeBaseFirst(b, overlay) == \* mutant: the base wins
    [k \in DOMAIN b \cup DOMAIN overlay |-> IF k \in DOMAIN b THEN b[k] ELSE overlay[k]]
DeepMerge(b, overlay) ==
    [k \in DOMAIN b \cup DOMAIN overlay |-> IF k \in DOMAIN overlay THEN overlay[k] ELSE b[k]]

\* cfg() of the frontend.
Shown == DeepMerge(DeepMerge(Defaults, base), runtime[directory])

\* _configured_parser: the override is looked for where config.toml, not the command
\* line, puts the frontend's data.  Of the files' values it converts the topic
\* prefixes; the options are converted already.
FromFiles == DeepMerge(base, runtime[FileDirectory])
AtStart(k, value) == IF k \in Prefixes THEN Trimmed[value] ELSE value
Given == [k \in DOMAIN FromFiles |-> AtStart(k, FromFiles[k])]
Loaded == DeepMerge(Unset, DeepMerge(Given, options))

\* Parsed values and topic prefixes of the files are refused whatever the command line
\* says, checked values after it has been applied.
Valid ==
    /\ \A k \in (Parsed \cup Prefixes) \cap DOMAIN FromFiles : FromFiles[k] \notin Bad
    /\ \A k \in Checked : Loaded[k] \notin Bad

AllIdle == \A t \in Threads : stage[t] = "idle"
Change == changes < MaxChanges /\ changes' = changes + 1

Init ==
    /\ options \in Options /\ directory \in Directories
    /\ base \in Archives /\ runtime = [d \in Directories |-> <<>>]
    /\ up = FALSE /\ args = Unset
    /\ stage = [t \in Threads |-> "idle"]
    /\ current = [t \in Threads |-> <<>>] /\ section = [t \in Threads |-> ""]
    /\ changes = 0
    /\ asked = DeepMerge(Defaults, base) /\ overlap = FALSE /\ behind = FALSE

-----------------------------------------------------------------------------
StartWith(configuration) ==
    /\ ~up /\ Valid
    /\ up' = TRUE /\ args' = configuration
    /\ behind' = FALSE
    /\ UNCHANGED <<fileVars, options, directory, requestVars, changes, asked, overlap>>

\* main(): a configuration that does not pass ends the process at once.
Start == StartWith(Loaded)

\* The process ends, orderly or not; its requests end with it.
Stop ==
    /\ up
    /\ up' = FALSE
    /\ stage' = [t \in Threads |-> "idle"]
    /\ current' = [t \in Threads |-> <<>>] /\ section' = [t \in Threads |-> ""]
    /\ UNCHANGED <<fileVars, options, directory, args, changes, asked, overlap, behind>>

\* A POST of settings(): cfg(), and the form's values in place of its section's.  A
\* value that does not convert ends the request with nothing changed.
Read(t) ==
    /\ up /\ stage[t] = "idle" /\ Change
    /\ \E s \in Sections :
          \E form \in [{k \in Keys : Section[k] = s} -> Values] :
             /\ current' = [current EXCEPT ![t] = DeepMerge(Shown, form)]
             /\ section' = [section EXCEPT ![t] = s]
    /\ stage' = [stage EXCEPT ![t] = "read"]
    /\ overlap' = (overlap \/ ~AllIdle)
    /\ UNCHANGED <<fileVars, options, directory, up, args, asked, behind>>

\* persist(): dump_config, and one rename puts the whole configuration in place.
Persist(t) ==
    /\ stage[t] = "read"
    /\ runtime' = [runtime EXCEPT ![directory] = current[t]]
    /\ stage' = [stage EXCEPT ![t] = "saved"]
    /\ asked' = [k \in Keys |-> IF Section[k] = section[t] THEN current[t][k] ELSE asked[k]]
    /\ UNCHANGED <<base, options, directory, up, args, current, section, changes,
                   overlap, behind>>

\* The live values of the section that is saved.  The scalars are assigned unseen;
\* then a value that does not parse ends the request.
InSection(t, keys) == {k \in keys : Section[k] = section[t]}
Refused(t) == \E k \in InSection(t, Parsed) : current[t][k] \in Bad
AppliedScalarsOnly(t) == \* mutant: the device lists keep their old values
    [k \in Keys |-> IF k \in InSection(t, Scalar) THEN current[t][k] ELSE args[k]]

Applied(t) ==
    LET assigned == InSection(t, Scalar) \cup
                    (IF Refused(t) THEN {} ELSE InSection(t, Parsed))
    IN  [k \in Keys |-> IF k \in assigned THEN current[t][k] ELSE args[k]]

Apply(t) ==
    /\ stage[t] = "saved"
    /\ args' = Applied(t)
    /\ behind' = (behind \/ Refused(t))
    /\ stage' = [stage EXCEPT ![t] = "idle"]
    /\ current' = [current EXCEPT ![t] = <<>>] /\ section' = [section EXCEPT ![t] = ""]
    /\ UNCHANGED <<fileVars, options, directory, up, changes, asked, overlap>>

\* The configuration of a backup replaces the override; args is left as it is.
Import ==
    /\ up /\ Change
    /\ \E archive \in Archives :
          /\ runtime' = [runtime EXCEPT ![directory] = archive]
          /\ asked' = DeepMerge(DeepMerge(Defaults, base), archive)
    /\ overlap' = (overlap \/ ~AllIdle)
    /\ behind' = TRUE
    /\ UNCHANGED <<base, options, directory, up, args, requestVars>>

\* The operator edits config.toml.  Once an override holds a key, its line there is
\* without effect.
Edit ==
    /\ Change
    /\ \E k \in Keys, v \in Values :
          /\ base' = DeepMerge(base, [key \in {k} |-> v])
          /\ asked' = IF k \in DOMAIN runtime[directory] THEN asked
                      ELSE [asked EXCEPT ![k] = v]
    /\ overlap' = (overlap \/ ~AllIdle)
    /\ behind' = TRUE
    /\ UNCHANGED <<runtime, options, directory, up, args, requestVars>>

Next ==
    \/ Start \/ Stop \/ Import \/ Edit
    \/ \E t \in Threads : Read(t) \/ Persist(t) \/ Apply(t)

Spec == Init /\ [][Next]_vars

-----------------------------------------------------------------------------
\* What an administrator saved in any section stays saved: no later save of another
\* section, no refused value, restart or edit of config.toml undoes it, and a start
\* would load it (a topic prefix without its slashes), unless requests overlap or the
\* command line says otherwise (docs/FRONTEND.en.md:28-30, frontend.py:218-225,
\* cli.py:1062-1085).
SavedIsKept ==
    ~overlap =>
        /\ Shown = asked
        /\ directory = FileDirectory =>
              \A k \in DOMAIN FromFiles \ DOMAIN options : Loaded[k] = AtStart(k, asked[k])

\* Between requests the running gateway has in effect what a restart would give
\* it, in every key the page applies live, save after an import, an edit or a
\* refused value.  Topic prefixes are excepted: the page applies one as it was typed, and
\* only a start converts or refuses it (docs/FRONTEND.en.md:26, frontend.py:515-545,
\* cli.py:1082-1085).
LiveIsSaved ==
    up /\ AllIdle /\ ~overlap /\ ~behind /\ directory = FileDirectory =>
        \A k \in (Scalar \cup Parsed) \ DOMAIN options :
           \/ args[k] = Loaded[k]
           \/ k \in Prefixes /\ args[k] = Shown[k]
=============================================================================
