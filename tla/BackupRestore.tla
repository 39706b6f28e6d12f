--------------------------- MODULE BackupRestore ----------------------------
(***************************************************************************)
(* Export and import of a backup through the web frontend (frontend.py     *)
(* 618-706, 146-180; backup.py) beside the running gateway, which goes on  *)
(* with its cycles, its settings page and its restarts.                    *)
(*                                                                         *)
(* An archive is collected store by store and restored store by store;     *)
(* what a store holds is a version number, or one for each account.  A     *)
(* credential of the configuration is a file the configuration names: the  *)
(* host's own file, the place where imports put it ("restored"), or one    *)
(* this host does not have.  The host runs without the disk spool: with    *)
(* it, either request ends in an exception (see the README).               *)
(*                                                                         *)
(* The names differ from those of LiveSettings, so that one module can     *)
(* extend both.                                                            *)
(***************************************************************************)
EXTENDS Integers, Sequences, FiniteSets

CONSTANTS
    Admins,             \* requests of administrators
    Usernames,
    Paths,              \* places of the state file that a configuration may name
    Nothing,            \* no file
    Foreign,            \* archives made on other hosts
    MaxVersion, MaxRequests, MaxFaults

Places == {"own", "restored", "elsewhere"}
Versions == 0..MaxVersion
Configurations == [id : Versions, statePath : Paths, place : Places, key : Versions]
Tables == [Usernames -> Versions \cup {Nothing}]
Backups == [config : Configurations, credential : Versions \cup {Nothing}, users : Tables,
             history : Versions, state : Versions \cup {Nothing}, whole : BOOLEAN]

\* An archive is whole if the credential it holds is the one its configuration was saved
\* with.  That of another host may be without it, when the file was missing there or a
\* link, and then name a file this host lacks, or its own, whatever that holds.
ASSUME BackupAssumption ==
    /\ Nothing \notin Versions /\ Foreign \subseteq Backups /\ Paths # {}
    /\ \A a \in Foreign :
          /\ a.config.place # "restored"
          /\ a.whole => a.credential = a.config.key
    /\ MaxVersion \in Nat /\ MaxRequests \in Nat /\ MaxFaults \in Nat

VARIABLES
    config,     \* the effective configuration: runtime-config.toml over config.toml
    restored,   \* the credential's file under restored-secrets
    users,      \* the row of each account
    history,
    state,      \* the state file at each path
    running, topics,    \* the process, and the retained topics it knows
    statePath,  \* args.state_file
    kind, todo, \* what each request does, and the steps it has left
    archive,    \* what an export has collected, an import unpacked, or a save read
    saved,      \* the archives this host has made
    clock, requests, faults,
    \* history:
    torn,       \* the last import was cut short, or was not alone
    alone,      \* of each request: no import was at work beside it, nor a save beside an
                \* import
    answered,   \* the archive of the last import that was answered, ...
    since       \* ... and what has happened since: "change", "cycle", "start"

stores == <<config, restored, users, history, state>>
processVars == <<running, topics, statePath>>
taskVars == <<kind, todo, archive, saved>>
counters == <<clock, requests, faults>>
historyVars == <<torn, alone, answered, since>>
backupVars == <<stores, processVars, taskVars, counters, historyVars>>

ExportSteps == <<"history", "config", "state", "credential">>
ImportStepsConfigFirst == <<"config", "credential", "users", "history", "state">> \* mutant
ImportSteps == <<"credential", "config", "users", "history", "state">>

Importing(t) == kind[t] = "import"
Beside(t, kinds) == \E u \in Admins \ {t} : kind[u] \in kinds

\* _collect_secret_references: the credential the configuration names, if it is there.
\* The host's own file holds version 0.
Credential(c) ==
    CASE c.place = "own" -> 0 [] c.place = "restored" -> restored [] OTHER -> Nothing

NoArchive == [config |-> [id |-> 0, statePath |-> CHOOSE p \in Paths : TRUE,
                          place |-> "own", key |-> 0],
              credential |-> 0, users |-> [n \in Usernames |-> 0], history |-> 0, state |-> Nothing,
              whole |-> TRUE]

BackupInit ==
    /\ config = NoArchive.config /\ statePath = config.statePath
    /\ restored = Nothing /\ users = NoArchive.users /\ history = 0
    /\ state = [p \in Paths |-> Nothing]
    /\ running = TRUE /\ topics = 0
    /\ kind = [t \in Admins |-> "idle"] /\ todo = [t \in Admins |-> <<>>]
    /\ archive = [t \in Admins |-> NoArchive]
    /\ saved = {} /\ clock = 0 /\ requests = 0 /\ faults = 0
    /\ torn = FALSE /\ alone = [t \in Admins |-> TRUE]
    /\ answered = NoArchive /\ since = {"change"}

Request(t) == /\ running /\ kind[t] = "idle" /\ requests < MaxRequests /\ requests' = requests + 1
              /\ UNCHANGED <<clock, faults>>
Fresh == clock < MaxVersion /\ clock' = clock + 1 /\ UNCHANGED <<requests, faults>>

-----------------------------------------------------------------------------
(* The gateway *)

\* A cycle ends: samples are appended, the state file is written from memory.
EndCycle ==
    /\ running /\ Fresh
    /\ topics' \in {topics, clock'} /\ history' = clock'
    /\ state' = [state EXCEPT ![statePath] = topics']
    /\ since' = since \cup {"cycle"}
    /\ UNCHANGED <<config, restored, users, running, statePath, taskVars, torn, alone,
                   answered>>

\* The settings page reads the whole configuration, and writes it back with one section
\* changed; a state file it names is in use at once.
ReadSettings(t) ==
    /\ Request(t)
    /\ kind' = [kind EXCEPT ![t] = "save"]
    /\ archive' = [archive EXCEPT ![t].config = config]
    /\ alone' = [u \in Admins |-> IF u = t THEN ~Beside(t, {"import"})
                                   ELSE alone[u] /\ kind[u] # "import"]
    /\ UNCHANGED <<stores, processVars, todo, saved, torn, answered, since>>

WriteSettings(t) ==
    /\ kind[t] = "save" /\ Fresh
    /\ \/ \E p \in Paths : /\ config' = [archive[t].config EXCEPT !.id = clock', !.statePath = p]
                          /\ statePath' = p
       \/ config' = [archive[t].config EXCEPT !.id = clock'] /\ UNCHANGED statePath
    /\ kind' = [kind EXCEPT ![t] = "idle"]
    /\ archive' = [archive EXCEPT ![t] = NoArchive]
    /\ since' = since \cup {"change"}
    /\ UNCHANGED <<restored, users, history, state, running, topics, todo, saved, torn, alone,
                   answered>>

\* An account is created, changed or deleted.
ChangeUsers ==
    /\ running /\ Fresh
    /\ \E n \in Usernames, row \in {clock', Nothing} : users' = [users EXCEPT ![n] = row]
    /\ since' = since \cup {"change"}
    /\ UNCHANGED <<config, restored, history, state, processVars, taskVars, torn, alone,
                   answered>>

\* The process ends, orderly or not, and its requests with it.
StopGateway ==
    /\ running /\ faults < MaxFaults /\ faults' = faults + 1
    /\ running' = FALSE
    /\ torn' = (torn \/ \E t \in Admins : Importing(t))
    /\ kind' = [t \in Admins |-> "idle"] /\ todo' = [t \in Admins |-> <<>>]
    /\ archive' = [t \in Admins |-> NoArchive] /\ alone' = [t \in Admins |-> TRUE]
    /\ UNCHANGED <<stores, topics, statePath, saved, clock, requests, answered, since>>

\* load_runtime_state: a missing file is an empty one.
StartGateway ==
    /\ ~running /\ running' = TRUE
    /\ statePath' = config.statePath
    /\ topics' = IF state[statePath'] = Nothing THEN 0 ELSE state[statePath']
    /\ since' = since \cup {"start"}
    /\ UNCHANGED <<stores, taskVars, counters, torn, alone, answered>>

-----------------------------------------------------------------------------
(* Export *)

BeginExport(t) ==
    /\ Request(t)
    /\ kind' = [kind EXCEPT ![t] = "export"] /\ todo' = [todo EXCEPT ![t] = ExportSteps]
    /\ alone' = [alone EXCEPT ![t] = ~Beside(t, {"import"})]
    /\ UNCHANGED <<stores, processVars, archive, saved, torn, answered, since>>

\* The snapshot of the history; the configuration and the accounts; the state file; and
\* the files that the configuration names.
Collected(step, a) ==
    CASE step = "history" -> [a EXCEPT !.history = history]
      [] step = "config" -> [a EXCEPT !.config = config, !.users = users]
      [] step = "state" -> [a EXCEPT !.state = state[statePath]]
      [] step = "credential" -> [a EXCEPT !.credential = Credential(config)]

Export(t) ==
    /\ kind[t] = "export"
    /\ LET a == Collected(Head(todo[t]), archive[t])
       IN  IF Len(todo[t]) > 1
           THEN archive' = [archive EXCEPT ![t] = a] /\ UNCHANGED <<kind, saved>>
           ELSE /\ saved' = saved \cup {[a EXCEPT !.whole = alone[t] /\ ~torn /\ answered.whole]}
                /\ archive' = [archive EXCEPT ![t] = NoArchive]
                /\ kind' = [kind EXCEPT ![t] = "idle"]
    /\ todo' = [todo EXCEPT ![t] = Tail(@)]
    /\ UNCHANGED <<stores, processVars, counters, historyVars>>

-----------------------------------------------------------------------------
(* Import *)

\* extract_backup: the tag, the archive's paths and the manifest are verified before
\* anything of it is used.
RefuseImport(t) == running /\ kind[t] = "idle" /\ UNCHANGED backupVars

BeginImport(t) ==
    /\ Request(t)
    /\ \E a \in Foreign \cup saved : archive' = [archive EXCEPT ![t] = a]
    /\ kind' = [kind EXCEPT ![t] = "import"] /\ todo' = [todo EXCEPT ![t] = ImportSteps]
    /\ alone' = [u \in Admins |-> IF u = t THEN ~Beside(t, {"import", "save"})
                                   ELSE alone[u] /\ kind[u] = "idle"]
    /\ since' = {}
    /\ UNCHANGED <<stores, processVars, saved, torn, answered>>

\* The configuration of the archive, naming the credential where it was just put.
Patched(a) ==
    IF a.credential = Nothing THEN a.config ELSE [a.config EXCEPT !.place = "restored"]

\* import_rows: the archive's rows over those that are there; other accounts stay.
InsertOrIgnore(a) == \* mutant
    [n \in Usernames |-> IF users[n] # Nothing THEN users[n] ELSE a.users[n]]
Upserted(a) ==
    [n \in Usernames |-> IF a.users[n] # Nothing THEN a.users[n] ELSE users[n]]

Restore(t) ==
    LET a == archive[t]
        step == Head(todo[t])
    IN  /\ restored' = IF step = "credential" /\ a.credential # Nothing
                       THEN a.credential ELSE restored
        /\ config' = IF step = "config" THEN Patched(a) ELSE config
        /\ users' = IF step = "users" THEN Upserted(a) ELSE users
        /\ history' = IF step = "history" THEN a.history ELSE history
        /\ state' = IF step = "state" /\ a.state # Nothing
                    THEN [state EXCEPT ![statePath] = a.state] ELSE state

ImportStep(t) ==
    /\ kind[t] = "import"
    /\ Restore(t)
    /\ todo' = [todo EXCEPT ![t] = Tail(@)]
    /\ IF Len(todo[t]) > 1
       THEN UNCHANGED <<kind, archive, torn, answered, since>>
       ELSE /\ kind' = [kind EXCEPT ![t] = "idle"]
            /\ archive' = [archive EXCEPT ![t] = NoArchive]
            /\ torn' = ~alone[t]
            /\ answered' = archive[t]
            /\ since' = IF archive[t].config.statePath = statePath
                        THEN since ELSE since \cup {"change"}
    /\ UNCHANGED <<processVars, saved, alone, counters>>

\* A full disk, or a statement that fails: what went before stays.
FailImport(t) ==
    /\ kind[t] = "import"
    /\ faults < MaxFaults /\ faults' = faults + 1
    /\ kind' = [kind EXCEPT ![t] = "idle"] /\ todo' = [todo EXCEPT ![t] = <<>>]
    /\ archive' = [archive EXCEPT ![t] = NoArchive]
    /\ torn' = TRUE
    /\ UNCHANGED <<stores, processVars, saved, clock, requests, alone, answered, since>>

BackupNext ==
    \/ EndCycle \/ ChangeUsers \/ StopGateway \/ StartGateway
    \/ \E t \in Admins : \/ ReadSettings(t) \/ WriteSettings(t)
                      \/ BeginExport(t) \/ Export(t) \/ RefuseImport(t)
                      \/ BeginImport(t) \/ ImportStep(t) \/ FailImport(t)

BackupSpec == BackupInit /\ [][BackupNext]_backupVars

-----------------------------------------------------------------------------
Settled == ~torn /\ \A t \in Admins : ~Importing(t)

\* At every moment, that of a crash included, the configuration in force finds the file
\* an import put in its place; and the file is the credential the configuration was saved
\* with, unless the last import was cut short, ran beside another or beside a settings
\* save, or its archive was without that credential.
CredentialFits ==
    /\ config.place = "restored" => restored # Nothing
    /\ Settled /\ answered.whole => Credential(config) = config.key

\* What an answered import restored is there, each account of the archive among it, and a
\* gateway started after it works with it, unless it was changed meanwhile: by a settings
\* save or a change of accounts, by a state file that the archive names elsewhere, or by
\* the end of a cycle of the gateway that was still running.
AnsweredIsRestored ==
    (Settled /\ since \subseteq {"start"}) =>
    /\ config.id = answered.config.id /\ history = answered.history
    /\ \A n \in Usernames : answered.users[n] # Nothing => users[n] = answered.users[n]
    /\ answered.state # Nothing => /\ state[config.statePath] = answered.state
                                   /\ "start" \in since /\ running => topics = answered.state
=============================================================================
