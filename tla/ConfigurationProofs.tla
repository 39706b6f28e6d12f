------------------------ MODULE ConfigurationProofs -------------------------
(***************************************************************************)
(* Proofs about the configuration and the other stores an administrator    *)
(* changes at run time: LiveSettings, for any keys, sections, values,      *)
(* command lines, backups and directories, any number of requests and      *)
(* changes; and BackupRestore, for any number of requests, versions and    *)
(* faults and any archives of other hosts.                                 *)
(*                                                                         *)
(* A settings request writes the whole configuration back, the sections it *)
(* does not change as it read them.  While no two changes overlap, what it *)
(* read is still what is shown when it writes (CopiesAreCurrent); and a    *)
(* live value differs from what was saved only until its request applies   *)
(* it (LiveFollows).                                                       *)
(*                                                                         *)
(* An import restores the credential before the configuration that names   *)
(* it.  An archive fits if its export was alone (ArchivesFit); what an     *)
(* import that is alone has restored is still there when it takes its next *)
(* step (ImportHolds); and a settings save writes a configuration that     *)
(* some import has since replaced only while the last import counts as     *)
(* disturbed (SavesAreCurrent).                                            *)
(***************************************************************************)
EXTENDS LiveSettings, BackupRestore, TLAPS

Shaped ==
    /\ DOMAIN base \subseteq Keys /\ directory \in Directories
    /\ DOMAIN runtime = Directories
    /\ \A d \in Directories : DOMAIN runtime[d] \subseteq Keys
    /\ stage \in [Threads -> {"idle", "read", "saved"}]
    /\ DOMAIN current = Threads /\ DOMAIN section = Threads
    /\ options \in Options

OneAtWork ==
    ~overlap => \A t, u \in Threads : stage[t] # "idle" /\ stage[u] # "idle" => t = u

\* What a request writes back, and what it has written.
CopiesAreCurrent ==
    \A t \in Threads :
        /\ stage[t] # "idle" => DOMAIN current[t] = Keys
        /\ ~overlap /\ stage[t] = "read" =>
              \A k \in Keys : Section[k] # section[t] => current[t][k] = asked[k]
        /\ ~overlap /\ stage[t] = "saved" =>
              \A k \in Keys : Section[k] = section[t] => current[t][k] = asked[k]

ShownIsAsked ==
    /\ asked = [k \in Keys |-> asked[k]]
    /\ ~overlap => Shown = asked

LiveKeys == (Scalar \cup Parsed) \ DOMAIN options

LiveFollows ==
    up /\ ~overlap /\ ~behind /\ directory = FileDirectory =>
        \A k \in LiveKeys :
            \/ args[k] = asked[k] \/ args[k] = Loaded[k]
            \/ \E t \in Threads : stage[t] = "saved" /\ Section[k] = section[t]

SettingsInv == Shaped /\ OneAtWork /\ CopiesAreCurrent /\ ShownIsAsked /\ LiveFollows

-----------------------------------------------------------------------------
(* Merging configurations.                                                  *)

LEMMA EmptyHasNoKeys == DOMAIN <<>> = {}
  OBVIOUS

LEMMA DefaultsFacts == DOMAIN Defaults = Keys /\ DOMAIN Unset = Keys
  BY SettingsAssumption

LEMMA PartsOfKeys ==
  /\ \A a \in Archives : DOMAIN a \subseteq Keys
  /\ \A o \in Options : DOMAIN o \subseteq Keys
  BY SettingsAssumption DEF Configuration

\* What an override on top of the file on top of the defaults says of each key.
Layered(file, override) == DeepMerge(DeepMerge(Defaults, file), override)

LEMMA LayeredFacts ==
  ASSUME NEW file, DOMAIN file \subseteq Keys, NEW override, DOMAIN override \subseteq Keys
  PROVE  /\ Layered(file, override) = [k \in Keys |-> Layered(file, override)[k]]
         /\ DOMAIN Layered(file, override) = Keys
         /\ \A k \in Keys : Layered(file, override)[k] =
               IF k \in DOMAIN override THEN override[k]
               ELSE IF k \in DOMAIN file THEN file[k] ELSE Defaults[k]
<1> DEFINE lower == DeepMerge(Defaults, file)
<1>1. DOMAIN lower = Keys /\ \A k \in Keys : lower[k] =
         IF k \in DOMAIN file THEN file[k] ELSE Defaults[k]
  BY DefaultsFacts DEF DeepMerge
<1> HIDE DEF lower
<1>2. /\ DOMAIN DeepMerge(lower, override) = Keys
      /\ \A k \in Keys : DeepMerge(lower, override)[k] =
            IF k \in DOMAIN override THEN override[k] ELSE lower[k]
      /\ DeepMerge(lower, override) = [k \in Keys |-> DeepMerge(lower, override)[k]]
  BY <1>1 DEF DeepMerge
<1> QED
  BY <1>1, <1>2 DEF Layered, lower

LEMMA ShownFacts ==
  ASSUME Shaped
  PROVE  /\ Shown = Layered(base, runtime[directory])
         /\ Shown = [k \in Keys |-> Shown[k]] /\ DOMAIN Shown = Keys
         /\ \A k \in Keys : Shown[k] =
               IF k \in DOMAIN runtime[directory] THEN runtime[directory][k]
               ELSE IF k \in DOMAIN base THEN base[k] ELSE Defaults[k]
<1>1. Shown = Layered(base, runtime[directory])
  BY DEF Shown, Layered
<1> QED
  BY <1>1, LayeredFacts DEF Shaped

\* What a start reads of the two files and the command line.
StartFrom(file, override, said) ==
    LET files == DeepMerge(file, override)
    IN  DeepMerge(Unset, DeepMerge([k \in DOMAIN files |-> AtStart(k, files[k])], said))

LEMMA StartReads ==
  ASSUME NEW file, DOMAIN file \subseteq Keys, NEW override, DOMAIN override \subseteq Keys,
         NEW said, NEW k \in Keys, k \notin DOMAIN said
  PROVE  IF k \in DOMAIN file \cup DOMAIN override
         THEN StartFrom(file, override, said)[k] = AtStart(k, Layered(file, override)[k])
         ELSE /\ StartFrom(file, override, said)[k] = Unset[k]
              /\ Layered(file, override)[k] = Defaults[k]
<1> DEFINE files == DeepMerge(file, override)
           given == [x \in DOMAIN files |-> AtStart(x, files[x])]
           upper == DeepMerge(given, said)
<1>1. /\ DOMAIN files = DOMAIN file \cup DOMAIN override
      /\ \A x \in DOMAIN files : files[x] =
            IF x \in DOMAIN override THEN override[x] ELSE file[x]
  BY DEF DeepMerge
<1>2. Layered(file, override)[k] =
        IF k \in DOMAIN override THEN override[k]
        ELSE IF k \in DOMAIN file THEN file[k] ELSE Defaults[k]
  BY LayeredFacts
<1>3. StartFrom(file, override, said) = DeepMerge(Unset, upper)
  BY DEF StartFrom
<1> HIDE DEF files
<1>4. DOMAIN given = DOMAIN files /\ \A x \in DOMAIN files : given[x] = AtStart(x, files[x])
  OBVIOUS
<1> HIDE DEF given
<1>5. /\ DOMAIN upper = DOMAIN files \cup DOMAIN said
      /\ k \in DOMAIN files => upper[k] = given[k]
  BY <1>4 DEF DeepMerge
<1> HIDE DEF upper
<1>6. DeepMerge(Unset, upper)[k] = IF k \in DOMAIN upper THEN upper[k] ELSE Unset[k]
  BY DefaultsFacts DEF DeepMerge
<1>7. CASE k \in DOMAIN files
  <2>1. files[k] = Layered(file, override)[k]
    BY <1>1, <1>2, <1>7
  <2> QED
    BY <2>1, <1>1, <1>3, <1>4, <1>5, <1>6, <1>7
<1>8. CASE k \notin DOMAIN files
  BY <1>1, <1>2, <1>3, <1>5, <1>6, <1>8
<1> QED
  BY <1>7, <1>8

LEMMA LoadedIsRead == Loaded = StartFrom(base, runtime[FileDirectory], options)
  BY DEF Loaded, Given, FromFiles, StartFrom

\* A start reads what is shown, but for what the command line says and for the conversion
\* of the topic prefixes.
LEMMA LoadedIsShown ==
  ASSUME Shaped, directory = FileDirectory, NEW k \in Keys, k \notin DOMAIN options
  PROVE  IF k \in DOMAIN FromFiles THEN Loaded[k] = AtStart(k, Shown[k])
         ELSE Loaded[k] = Unset[k] /\ Shown[k] = Defaults[k]
<1>1. DOMAIN FromFiles = DOMAIN base \cup DOMAIN runtime[directory]
  BY DEF DeepMerge, FromFiles
<1>2. Shown = Layered(base, runtime[directory])
  BY DEF Shown, Layered
<1>3. DOMAIN base \subseteq Keys /\ DOMAIN runtime[directory] \subseteq Keys
  BY DEF Shaped
<1> QED
  BY <1>1, <1>2, <1>3, LoadedIsRead, StartReads

\* Two functions on the keys that agree are one.
LEMMA SameOnKeys ==
  ASSUME NEW f, NEW g, f = [k \in Keys |-> f[k]], g = [k \in Keys |-> g[k]],
         \A k \in Keys : f[k] = g[k]
  PROVE  f = g
  OBVIOUS

-----------------------------------------------------------------------------
LEMMA InitSettings == Init => SettingsInv
<1> SUFFICES ASSUME Init PROVE SettingsInv
  OBVIOUS
<1>1. Shaped
  BY PartsOfKeys, EmptyHasNoKeys DEF Init, Shaped
<1>2. OneAtWork /\ CopiesAreCurrent /\ LiveFollows
  BY DEF Init, OneAtWork, CopiesAreCurrent, LiveFollows
<1>3. /\ asked = [k \in Keys |-> asked[k]]
      /\ \A k \in Keys : asked[k] = IF k \in DOMAIN base THEN base[k] ELSE Defaults[k]
  BY <1>1, DefaultsFacts DEF DeepMerge, Init, Shaped
<1>4. DOMAIN runtime[directory] = {}
  BY <1>1, EmptyHasNoKeys DEF Init, Shaped
<1>5. \A k \in Keys : Shown[k] = asked[k]
  BY <1>1, <1>3, <1>4, ShownFacts
<1>6. Shown = asked
  BY <1>1, <1>3, <1>5, ShownFacts, SameOnKeys
<1> QED
  BY <1>1, <1>2, <1>3, <1>6 DEF SettingsInv, ShownIsAsked

LEMMA StartKeeps ==
  ASSUME SettingsInv, Start
  PROVE  SettingsInv'
<1>1. /\ UNCHANGED <<base, runtime, options, directory, stage, current, section, asked, overlap>>
      /\ args' = Loaded
  BY DEF Start, StartWith, fileVars, requestVars
<1>2. Shaped' /\ OneAtWork' /\ CopiesAreCurrent'
  BY <1>1 DEF SettingsInv, Shaped, OneAtWork, CopiesAreCurrent
<1>3. Shown' = Shown
  BY <1>1 DEF Shown
<1>4. ShownIsAsked'
  BY <1>1, <1>3 DEF SettingsInv, ShownIsAsked
<1>5. LiveFollows'
  <2>1. Loaded' = Loaded
    BY <1>1 DEF Loaded, Given, FromFiles
  <2> QED
    BY <1>1, <2>1 DEF LiveFollows, LiveKeys
<1> QED
  BY <1>2, <1>4, <1>5 DEF SettingsInv

LEMMA StopKeeps ==
  ASSUME SettingsInv, Stop
  PROVE  SettingsInv'
<1>1. /\ UNCHANGED <<base, runtime, options, directory, asked, overlap>> /\ up' = FALSE
      /\ stage' = [t \in Threads |-> "idle"]
      /\ DOMAIN current' = Threads /\ DOMAIN section' = Threads
  BY DEF Stop, fileVars
<1>2. Shaped' /\ OneAtWork' /\ CopiesAreCurrent' /\ LiveFollows'
  BY <1>1 DEF SettingsInv, Shaped, OneAtWork, CopiesAreCurrent, LiveFollows
<1>3. Shown' = Shown
  BY <1>1 DEF Shown
<1> QED
  BY <1>1, <1>2, <1>3 DEF SettingsInv, ShownIsAsked

LEMMA ReadKeeps ==
  ASSUME SettingsInv, NEW t \in Threads, Read(t)
  PROVE  SettingsInv'
<1>1. /\ UNCHANGED <<base, runtime, options, directory, up, args, asked, behind>>
      /\ stage[t] = "idle" /\ stage' = [stage EXCEPT ![t] = "read"]
      /\ overlap' = (overlap \/ ~AllIdle)
  BY DEF Read, fileVars
<1>2. PICK s \in Sections : \E form \in [{k \in Keys : Section[k] = s} -> Values] :
        /\ current' = [current EXCEPT ![t] = DeepMerge(Shown, form)]
        /\ section' = [section EXCEPT ![t] = s]
  BY DEF Read
<1>3. PICK form \in [{k \in Keys : Section[k] = s} -> Values] :
        /\ current' = [current EXCEPT ![t] = DeepMerge(Shown, form)]
        /\ section' = [section EXCEPT ![t] = s]
  BY <1>2
<1> DEFINE copy == DeepMerge(Shown, form)
<1>4. DOMAIN copy = Keys /\ \A k \in Keys : Section[k] # s => copy[k] = Shown[k]
  BY ShownFacts DEF DeepMerge, SettingsInv
<1> HIDE DEF copy
<1>5. current' = [current EXCEPT ![t] = copy]
  BY <1>3 DEF copy
<1>6. Shaped'
  BY <1>1, <1>3, <1>5 DEF SettingsInv, Shaped
<1>7. OneAtWork'
  BY <1>1 DEF SettingsInv, Shaped, OneAtWork, AllIdle
<1>8. CopiesAreCurrent'
  <2>1. ~overlap' => ~overlap /\ Shown = asked
    BY <1>1 DEF SettingsInv, ShownIsAsked
  <2> QED
    BY <1>1, <1>3, <1>4, <1>5, <2>1 DEF SettingsInv, Shaped, CopiesAreCurrent
<1>9. Shown' = Shown
  BY <1>1 DEF Shown
<1>10. LiveFollows'
  <2>1. Loaded' = Loaded
    BY <1>1 DEF Loaded, Given, FromFiles
  <2> QED
    BY <1>1, <1>3, <2>1 DEF SettingsInv, Shaped, LiveFollows, LiveKeys, AllIdle
<1> QED
  BY <1>1, <1>6, <1>7, <1>8, <1>9, <1>10 DEF SettingsInv, ShownIsAsked

LEMMA PersistKeeps ==
  ASSUME SettingsInv, NEW t \in Threads, Persist(t)
  PROVE  SettingsInv'
<1>1. /\ UNCHANGED <<base, options, directory, up, args, current, section, overlap, behind>>
      /\ runtime' = [runtime EXCEPT ![directory] = current[t]]
      /\ stage[t] = "read" /\ stage' = [stage EXCEPT ![t] = "saved"]
      /\ asked' = [k \in Keys |-> IF Section[k] = section[t] THEN current[t][k] ELSE asked[k]]
  BY DEF Persist
<1>2. DOMAIN current[t] = Keys
  BY <1>1 DEF SettingsInv, CopiesAreCurrent
<1>3. Shaped'
  BY <1>1, <1>2 DEF SettingsInv, Shaped
<1>4. OneAtWork'
  BY <1>1 DEF SettingsInv, Shaped, OneAtWork
<1>5. ~overlap => \A u \in Threads : u # t => stage[u] = "idle"
  BY <1>1 DEF SettingsInv, OneAtWork
<1>6. CopiesAreCurrent'
  BY <1>1, <1>5 DEF SettingsInv, Shaped, CopiesAreCurrent
<1>7. ~overlap => \A k \in Keys : current[t][k] = asked'[k]
  BY <1>1 DEF SettingsInv, CopiesAreCurrent
<1>8. \A k \in Keys : Shown'[k] = current[t][k]
  <2>1. /\ Shown' = Layered(base', runtime'[directory'])
        /\ runtime'[directory'] = current[t] /\ DOMAIN base' \subseteq Keys
    BY <1>1 DEF SettingsInv, Shaped, Shown, Layered
  <2> QED
    BY <1>2, <2>1, LayeredFacts
<1>9. Shown' = [k \in Keys |-> Shown'[k]]
  <2>1. /\ Shown' = Layered(base', runtime'[directory'])
        /\ runtime'[directory'] = current[t] /\ DOMAIN base' \subseteq Keys
    BY <1>1 DEF SettingsInv, Shaped, Shown, Layered
  <2> QED
    BY <1>2, <2>1, LayeredFacts
<1>10. asked' = [k \in Keys |-> asked'[k]]
  BY <1>1
<1>11. ~overlap' => Shown' = asked'
  BY <1>1, <1>7, <1>8, <1>9, <1>10, SameOnKeys
<1>12. LiveFollows'
  <2> SUFFICES ASSUME up', ~overlap', ~behind', directory' = FileDirectory, NEW k \in LiveKeys'
               PROVE  \/ args'[k] = asked'[k] \/ args'[k] = Loaded'[k]
                      \/ \E u \in Threads : stage'[u] = "saved" /\ Section[k] = section'[u]
    BY DEF LiveFollows
  <2>1. k \in LiveKeys /\ k \in Keys /\ k \notin DOMAIN options /\ Defaults[k] = Unset[k]
    BY <1>1, SettingsAssumption DEF LiveKeys
  <2>2. CASE Section[k] = section[t]
    BY <1>1, <2>2 DEF SettingsInv, Shaped
  <2>3. CASE Section[k] # section[t]
    <3>1. asked'[k] = asked[k] /\ Shown = asked /\ Shown'[k] = asked[k]
      BY <1>1, <1>7, <1>8, <2>1, <2>3 DEF SettingsInv, ShownIsAsked
    <3>2. args[k] = asked[k] \/ args[k] = Loaded[k]
      BY <1>1, <1>5, <2>1 DEF SettingsInv, LiveFollows
    <3>3. Loaded[k] = AtStart(k, asked[k]) \/ Loaded[k] = asked[k]
      BY <1>1, <2>1, <3>1, LoadedIsShown DEF SettingsInv
    <3>4. Loaded'[k] = AtStart(k, asked[k])
      <4>1. /\ Loaded' = StartFrom(base', runtime'[FileDirectory], options')
            /\ Shown' = Layered(base', runtime'[directory'])
        BY DEF Loaded, Given, FromFiles, StartFrom, Shown, Layered
      <4>2. /\ runtime'[directory'] = current[t] /\ directory' = FileDirectory
            /\ k \in DOMAIN current[t] /\ DOMAIN current[t] \subseteq Keys
            /\ DOMAIN base' \subseteq Keys /\ k \notin DOMAIN options'
        BY <1>1, <1>2, <2>1 DEF SettingsInv, Shaped
      <4> QED
        BY <2>1, <3>1, <4>1, <4>2, StartReads
    <3> QED
      BY <1>1, <3>1, <3>2, <3>3, <3>4
  <2> QED
    BY <2>2, <2>3
<1> QED
  BY <1>3, <1>4, <1>6, <1>10, <1>11, <1>12 DEF SettingsInv, ShownIsAsked

LEMMA ApplyKeeps ==
  ASSUME SettingsInv, NEW t \in Threads, Apply(t)
  PROVE  SettingsInv'
<1>1. /\ UNCHANGED <<base, runtime, options, directory, up, asked, overlap>>
      /\ args' = Applied(t) /\ behind' = (behind \/ Refused(t))
      /\ stage[t] = "saved" /\ stage' = [stage EXCEPT ![t] = "idle"]
      /\ current' = [current EXCEPT ![t] = <<>>] /\ section' = [section EXCEPT ![t] = ""]
  BY DEF Apply, fileVars
<1>2. Shaped' /\ OneAtWork' /\ CopiesAreCurrent'
  BY <1>1 DEF SettingsInv, Shaped, OneAtWork, CopiesAreCurrent
<1>3. Shown' = Shown
  BY <1>1 DEF Shown
<1>4. LiveFollows'
  <2> SUFFICES ASSUME up', ~overlap', ~behind', directory' = FileDirectory, NEW k \in LiveKeys'
               PROVE  args'[k] = asked'[k] \/ args'[k] = Loaded'[k]
    BY DEF LiveFollows
  <2>0. Loaded' = Loaded
    BY <1>1 DEF Loaded, Given, FromFiles
  <2>1. k \in LiveKeys /\ k \in Keys /\ k \in Scalar \cup Parsed /\ ~Refused(t)
    BY <1>1, SettingsAssumption DEF LiveKeys
  <2>2. args'[k] = IF Section[k] = section[t] THEN current[t][k] ELSE args[k]
    BY <1>1, <2>1 DEF Applied, InSection
  <2>3. CASE Section[k] = section[t]
    BY <1>1, <2>1, <2>2, <2>3 DEF SettingsInv, CopiesAreCurrent
  <2>4. CASE Section[k] # section[t]
    <3>1. \A u \in Threads : stage[u] = "saved" => u = t
      BY <1>1 DEF SettingsInv, OneAtWork
    <3> QED
      BY <1>1, <2>0, <2>1, <2>2, <2>4, <3>1 DEF SettingsInv, LiveFollows
  <2> QED
    BY <2>3, <2>4
<1> QED
  BY <1>1, <1>2, <1>3, <1>4 DEF SettingsInv, ShownIsAsked

LEMMA ImportKeeps ==
  ASSUME SettingsInv, Import
  PROVE  SettingsInv'
<1>1. /\ UNCHANGED <<base, options, directory, up, args, stage, current, section>>
      /\ overlap' = (overlap \/ ~AllIdle) /\ behind' = TRUE
  BY DEF Import, requestVars
<1>2. PICK imported \in Archives :
        /\ runtime' = [runtime EXCEPT ![directory] = imported]
        /\ asked' = Layered(base, imported)
  BY DEF Import, Layered
<1>3. DOMAIN imported \subseteq Keys
  BY PartsOfKeys
<1>4. Shaped'
  BY <1>1, <1>2, <1>3 DEF SettingsInv, Shaped
<1>5. OneAtWork' /\ CopiesAreCurrent' /\ LiveFollows'
  BY <1>1 DEF SettingsInv, OneAtWork, CopiesAreCurrent, LiveFollows, AllIdle
<1>6. asked' = [k \in Keys |-> asked'[k]]
  BY <1>2, <1>3, LayeredFacts DEF SettingsInv, Shaped
<1>7. Shown' = asked'
  BY <1>1, <1>2 DEF SettingsInv, Shaped, Shown, Layered
<1> QED
  BY <1>4, <1>5, <1>6, <1>7 DEF SettingsInv, ShownIsAsked

LEMMA EditKeeps ==
  ASSUME SettingsInv, Edit
  PROVE  SettingsInv'
<1>1. /\ UNCHANGED <<runtime, options, directory, up, args, stage, current, section>>
      /\ overlap' = (overlap \/ ~AllIdle) /\ behind' = TRUE
  BY DEF Edit, requestVars
<1>2. PICK k \in Keys, v \in Values :
        /\ base' = DeepMerge(base, [key \in {k} |-> v])
        /\ asked' = IF k \in DOMAIN runtime[directory] THEN asked
                    ELSE [asked EXCEPT ![k] = v]
  BY DEF Edit
<1>3. /\ DOMAIN base' = DOMAIN base \cup {k}
      /\ base'[k] = v /\ \A x \in DOMAIN base : x # k => base'[x] = base[x]
  BY <1>2 DEF DeepMerge
<1>4. Shaped'
  BY <1>1, <1>3 DEF SettingsInv, Shaped
<1>5. OneAtWork' /\ CopiesAreCurrent' /\ LiveFollows'
  BY <1>1 DEF SettingsInv, OneAtWork, CopiesAreCurrent, LiveFollows, AllIdle
<1>6. asked' = [x \in Keys |-> asked'[x]]
  BY <1>2 DEF SettingsInv, ShownIsAsked
<1>7. ~overlap' => Shown' = asked'
  <2> SUFFICES ASSUME ~overlap PROVE Shown' = asked'
    BY <1>1
  <2>1. Shown = asked
    BY DEF SettingsInv, ShownIsAsked
  <2>2. /\ Shown' = Layered(base', runtime[directory])
        /\ DOMAIN base' \subseteq Keys /\ DOMAIN runtime[directory] \subseteq Keys
    BY <1>1, <1>4 DEF Shaped, Shown, Layered
  <2>3. /\ Shown' = [x \in Keys |-> Shown'[x]]
        /\ \A x \in Keys : Shown'[x] =
              IF x \in DOMAIN runtime[directory] THEN runtime[directory][x]
              ELSE IF x \in DOMAIN base' THEN base'[x] ELSE Defaults[x]
    BY <2>2, LayeredFacts
  <2>4. \A x \in Keys : asked[x] =
              IF x \in DOMAIN runtime[directory] THEN runtime[directory][x]
              ELSE IF x \in DOMAIN base THEN base[x] ELSE Defaults[x]
    BY <2>1, ShownFacts DEF SettingsInv
  <2>5. \A x \in Keys : asked'[x] =
              IF k \notin DOMAIN runtime[directory] /\ x = k THEN v ELSE asked[x]
    BY <1>2 DEF SettingsInv, ShownIsAsked
  <2>6. \A x \in Keys : Shown'[x] = asked'[x]
    BY <1>3, <2>3, <2>4, <2>5
  <2> QED
    BY <1>6, <2>3, <2>6, SameOnKeys
<1> QED
  BY <1>4, <1>5, <1>6, <1>7 DEF SettingsInv, ShownIsAsked

LEMMA SettingsAreInvariant == Spec => []SettingsInv
<1>1. SettingsInv /\ [Next]_vars => SettingsInv'
  <2> SUFFICES ASSUME SettingsInv, [Next]_vars PROVE SettingsInv'
    OBVIOUS
  <2>1. CASE UNCHANGED vars
    BY <2>1 DEF vars, fileVars, requestVars, SettingsInv, Shaped, OneAtWork, CopiesAreCurrent,
           ShownIsAsked, Shown, LiveFollows, LiveKeys, Loaded, Given, FromFiles
  <2> QED
    BY <2>1, StartKeeps, StopKeeps, ReadKeeps, PersistKeeps, ApplyKeeps, ImportKeeps, EditKeeps
       DEF Next
<1> QED
  BY InitSettings, <1>1, PTL DEF Spec

-----------------------------------------------------------------------------
\* Whatever the keys and however many administrators save, import, edit and restart: what
\* was saved stays saved, and a start loads it, a topic prefix without its slashes, unless
\* requests overlap or the command line says otherwise (docs/FRONTEND.en.md:28-30,
\* frontend.py:218-225, cli.py:1062-1085).
THEOREM WhatIsSavedStays == Spec => []SavedIsKept
<1>1. SettingsInv => SavedIsKept
  <2> SUFFICES ASSUME SettingsInv, ~overlap
               PROVE  /\ Shown = asked
                      /\ directory = FileDirectory =>
                            \A k \in DOMAIN FromFiles \ DOMAIN options :
                               Loaded[k] = AtStart(k, asked[k])
    BY DEF SavedIsKept
  <2>1. Shown = asked
    BY DEF SettingsInv, ShownIsAsked
  <2>2. directory = FileDirectory => DOMAIN FromFiles \subseteq Keys
    BY DEF SettingsInv, Shaped, FromFiles, DeepMerge
  <2> QED
    BY <2>1, <2>2, LoadedIsShown DEF SettingsInv
<1> QED
  BY <1>1, SettingsAreInvariant, PTL

\* ... and the running gateway has in effect what a restart would give it, a topic prefix
\* as the page shows it, but after an import, an edit or a refused value
\* (docs/FRONTEND.en.md:26, frontend.py:515-545, cli.py:1082-1085).
THEOREM WhatIsLiveIsSaved == Spec => []LiveIsSaved
<1>1. SettingsInv => LiveIsSaved
  <2> SUFFICES ASSUME SettingsInv, up, AllIdle, ~overlap, ~behind, directory = FileDirectory,
                      NEW k \in (Scalar \cup Parsed) \ DOMAIN options
               PROVE  args[k] = Loaded[k] \/ (k \in Prefixes /\ args[k] = Shown[k])
    BY DEF LiveIsSaved
  <2>1. args[k] = asked[k] \/ args[k] = Loaded[k]
    BY DEF SettingsInv, LiveFollows, LiveKeys, AllIdle
  <2>2. k \in Keys /\ k \notin DOMAIN options /\ Defaults[k] = Unset[k] /\ Shown = asked
    BY SettingsAssumption DEF SettingsInv, ShownIsAsked
  <2>3. Loaded[k] = AtStart(k, Shown[k]) \/ Loaded[k] = Shown[k]
    BY <2>2, LoadedIsShown DEF SettingsInv
  <2>4. k \notin Prefixes => Loaded[k] = Shown[k]
    BY <2>3 DEF AtStart
  <2> QED
    BY <2>1, <2>2, <2>4
<1> QED
  BY <1>1, SettingsAreInvariant, PTL

-----------------------------------------------------------------------------
(* Backups.                                                                 *)

\* What an import and an export have left to do.
ImportRest(n) == CASE n = 1 -> ImportSteps
                   [] n = 2 -> <<"config", "users", "history", "state">>
                   [] n = 3 -> <<"users", "history", "state">>
                   [] n = 4 -> <<"history", "state">>
                   [] n = 5 -> <<"state">>
ExportRest(n) == CASE n = 1 -> ExportSteps
                   [] n = 2 -> <<"config", "state", "credential">>
                   [] n = 3 -> <<"state", "credential">>
                   [] n = 4 -> <<"credential">>

RestoreTypes ==
    /\ config \in Configurations /\ restored \in Versions \cup {Nothing}
    /\ users \in Tables /\ history \in Versions
    /\ state \in [Paths -> Versions \cup {Nothing}]
    /\ running \in BOOLEAN /\ topics \in Versions /\ statePath \in Paths
    /\ kind \in [Admins -> {"idle", "save", "export", "import"}] /\ DOMAIN todo = Admins
    /\ archive \in [Admins -> Backups] /\ saved \subseteq Backups
    /\ clock \in Versions /\ torn \in BOOLEAN /\ alone \in [Admins -> BOOLEAN]
    /\ answered \in Backups

StepsLeft ==
    \A t \in Admins :
        /\ kind[t] = "import" => \E n \in 1 .. 5 : todo[t] = ImportRest(n)
        /\ kind[t] = "export" => \E n \in 1 .. 4 : todo[t] = ExportRest(n)

\* A request that counts as alone has no import beside it, and an import no save; a process
\* that is down has no requests, and one that imports was not started since.
RequestsKnown ==
    /\ ~running => \A t \in Admins : kind[t] = "idle"
    /\ \A t \in Admins : kind[t] = "import" => "start" \notin since
    /\ \A t, u \in Admins : t # u /\ kind[t] # "idle" /\ alone[t] =>
          kind[u] # "import" /\ (kind[t] = "import" => kind[u] # "save")

\* The file an import puts in place is there before anything names it, and stays.
CredentialIsThere ==
    /\ \A a \in saved : a.config.place = "restored" => restored # Nothing
    /\ \A t \in Admins : archive[t].config.place = "restored" => restored # Nothing
    /\ \A t \in Admins : kind[t] = "import" =>
          /\ archive[t] \in Foreign \cup saved
          /\ archive[t].credential # Nothing /\ todo[t] # ImportRest(1) => restored # Nothing

\* A whole archive fits, and so does what an undisturbed export has of one.
ArchivesFit ==
    /\ \A a \in Foreign \cup saved : a.whole => a.credential = a.config.key
    /\ \A t \in Admins :
          kind[t] = "export" /\ alone[t] /\ ~torn /\ todo[t] \in {ExportRest(3), ExportRest(4)}
          => archive[t].config.place = config.place /\ archive[t].config.key = config.key

\* A settings save that puts an older credential back does so beside an import.
SavesAreCurrent ==
    Settled => \A t \in Admins : kind[t] = "save" =>
        archive[t].config.place = config.place /\ archive[t].config.key = config.key

\* What an undisturbed import has restored is there.
ImportHolds ==
    \A t \in Admins : kind[t] = "import" /\ alone[t] =>
        /\ archive[t].credential # Nothing /\ todo[t] # ImportRest(1) =>
              restored = archive[t].credential
        /\ \A n \in 3 .. 5 : todo[t] = ImportRest(n) =>
              /\ archive[t].credential # Nothing =>
                    config.place = "restored" /\ config.key = archive[t].config.key
              /\ since \subseteq {"start"} =>
                    /\ config.id = archive[t].config.id
                    /\ config.statePath = archive[t].config.statePath
                    /\ n >= 4 => \A m \in Usernames : archive[t].users[m] # Nothing =>
                                                    users[m] = archive[t].users[m]
                    /\ n = 5 => history = archive[t].history

RestoreInv ==
    /\ RestoreTypes /\ StepsLeft /\ RequestsKnown /\ CredentialIsThere /\ ArchivesFit
    /\ SavesAreCurrent /\ ImportHolds /\ CredentialFits /\ AnsweredIsRestored

LEMMA ImportSteppedThrough ==
  /\ \A n \in 1 .. 4 : /\ Tail(ImportRest(n)) = ImportRest(n + 1) /\ Len(ImportRest(n)) > 1
  /\ Head(ImportRest(1)) = "credential" /\ Head(ImportRest(2)) = "config"
  /\ Head(ImportRest(3)) = "users" /\ Head(ImportRest(4)) = "history"
  /\ Head(ImportRest(5)) = "state" /\ Len(ImportRest(5)) = 1
  /\ \A n, k \in 1 .. 5 : ImportRest(n) = ImportRest(k) => n = k
<1>1. /\ Len(ImportRest(1)) = 5 /\ Len(ImportRest(2)) = 4 /\ Len(ImportRest(3)) = 3
      /\ Len(ImportRest(4)) = 2 /\ Len(ImportRest(5)) = 1
  BY DEF ImportRest, ImportSteps
<1>2. ASSUME NEW n \in 1 .. 5 PROVE Len(ImportRest(n)) = 6 - n
  <2>1. n = 1 \/ n = 2 \/ n = 3 \/ n = 4 \/ n = 5
    OBVIOUS
  <2>2. CASE n = 1
    BY <1>1, <2>2
  <2>3. CASE n = 2
    BY <1>1, <2>3
  <2>4. CASE n = 3
    BY <1>1, <2>4
  <2>5. CASE n = 4
    BY <1>1, <2>5
  <2>6. CASE n = 5
    BY <1>1, <2>6
  <2> QED BY <2>1, <2>2, <2>3, <2>4, <2>5, <2>6
<1>3. /\ Head(ImportRest(1)) = "credential" /\ Head(ImportRest(2)) = "config"
      /\ Head(ImportRest(3)) = "users" /\ Head(ImportRest(4)) = "history"
      /\ Head(ImportRest(5)) = "state"
  BY DEF ImportRest, ImportSteps
<1>4. Tail(ImportRest(1)) = ImportRest(2)
  BY DEF ImportRest, ImportSteps
<1>5. Tail(ImportRest(2)) = ImportRest(3)
  BY DEF ImportRest, ImportSteps
<1>6. Tail(ImportRest(3)) = ImportRest(4)
  BY DEF ImportRest, ImportSteps
<1>7. Tail(ImportRest(4)) = ImportRest(5)
  BY DEF ImportRest, ImportSteps
<1>8. \A n \in 1 .. 4 : Tail(ImportRest(n)) = ImportRest(n + 1)
  <2>1. \A n \in 1 .. 4 : n = 1 \/ n = 2 \/ n = 3 \/ n = 4
    OBVIOUS
  <2> QED BY <1>4, <1>5, <1>6, <1>7, <2>1
<1>9. \A n, k \in 1 .. 5 : ImportRest(n) = ImportRest(k) => n = k
  <2> SUFFICES ASSUME NEW n \in 1 .. 5, NEW k \in 1 .. 5, ImportRest(n) = ImportRest(k)
               PROVE  n = k
    OBVIOUS
  <2>1. 6 - n = 6 - k
    BY <1>2
  <2> QED BY <2>1
<1>10. \A n \in 1 .. 4 : Len(ImportRest(n)) > 1
  BY <1>2
<1> QED BY <1>1, <1>3, <1>8, <1>9, <1>10

LEMMA ExportSteppedThrough ==
  /\ \A n \in 1 .. 3 : /\ Tail(ExportRest(n)) = ExportRest(n + 1) /\ Len(ExportRest(n)) > 1
  /\ Head(ExportRest(1)) = "history" /\ Head(ExportRest(2)) = "config"
  /\ Head(ExportRest(3)) = "state" /\ Head(ExportRest(4)) = "credential"
  /\ Len(ExportRest(4)) = 1
  /\ \A n, k \in 1 .. 4 : ExportRest(n) = ExportRest(k) => n = k
<1>1. /\ Len(ExportRest(1)) = 4 /\ Len(ExportRest(2)) = 3 /\ Len(ExportRest(3)) = 2
      /\ Len(ExportRest(4)) = 1
  BY DEF ExportRest, ExportSteps
<1>2. ASSUME NEW n \in 1 .. 4 PROVE Len(ExportRest(n)) = 5 - n
  <2>1. n = 1 \/ n = 2 \/ n = 3 \/ n = 4
    OBVIOUS
  <2>2. CASE n = 1
    BY <1>1, <2>2
  <2>3. CASE n = 2
    BY <1>1, <2>3
  <2>4. CASE n = 3
    BY <1>1, <2>4
  <2>5. CASE n = 4
    BY <1>1, <2>5
  <2> QED BY <2>1, <2>2, <2>3, <2>4, <2>5
<1>3. /\ Head(ExportRest(1)) = "history" /\ Head(ExportRest(2)) = "config"
      /\ Head(ExportRest(3)) = "state" /\ Head(ExportRest(4)) = "credential"
  BY DEF ExportRest, ExportSteps
<1>4. Tail(ExportRest(1)) = ExportRest(2)
  BY DEF ExportRest, ExportSteps
<1>5. Tail(ExportRest(2)) = ExportRest(3)
  BY DEF ExportRest, ExportSteps
<1>6. Tail(ExportRest(3)) = ExportRest(4)
  BY DEF ExportRest, ExportSteps
<1>7. \A n \in 1 .. 3 : Tail(ExportRest(n)) = ExportRest(n + 1)
  <2>1. \A n \in 1 .. 3 : n = 1 \/ n = 2 \/ n = 3
    OBVIOUS
  <2> QED BY <1>4, <1>5, <1>6, <2>1
<1>8. \A n, k \in 1 .. 4 : ExportRest(n) = ExportRest(k) => n = k
  <2> SUFFICES ASSUME NEW n \in 1 .. 4, NEW k \in 1 .. 4, ExportRest(n) = ExportRest(k)
               PROVE  n = k
    OBVIOUS
  <2>1. 5 - n = 5 - k
    BY <1>2
  <2> QED BY <2>1
<1>9. \A n \in 1 .. 3 : Len(ExportRest(n)) > 1
  BY <1>2
<1> QED BY <1>1, <1>3, <1>7, <1>8, <1>9

LEMMA VersionsFacts ==
  /\ 0 \in Versions /\ Versions \subseteq Nat /\ 0 # Nothing
  /\ \A c \in Versions : c < MaxVersion => c + 1 \in Versions
  BY BackupAssumption DEF Versions

LEMMA NoArchiveFacts ==
  /\ NoArchive \in Backups
  /\ NoArchive.config.place = "own" /\ NoArchive.config.key = 0
  /\ NoArchive.credential = 0 /\ NoArchive.users \in Tables /\ NoArchive.whole
<1>1. (CHOOSE p \in Paths : TRUE) \in Paths
  BY BackupAssumption
<1> QED BY <1>1, VersionsFacts DEF NoArchive, Backups, Tables, Configurations, Places

LEMMA RestoreInvInit == BackupInit => RestoreInv
<1> SUFFICES ASSUME BackupInit PROVE RestoreInv
  OBVIOUS
<1> USE DEF BackupInit
<1>1. RestoreTypes
  BY NoArchiveFacts, VersionsFacts DEF RestoreTypes, Backups, Configurations, Places
<1>2. StepsLeft /\ RequestsKnown /\ SavesAreCurrent /\ ImportHolds
  BY DEF StepsLeft, RequestsKnown, SavesAreCurrent, ImportHolds
<1>3. CredentialIsThere /\ ArchivesFit
  <2>1. \A t \in Admins : archive[t].config.place = "own" /\ kind[t] = "idle"
    BY NoArchiveFacts
  <2> QED BY <2>1, BackupAssumption DEF CredentialIsThere, ArchivesFit
<1>4. CredentialFits /\ AnsweredIsRestored
  BY NoArchiveFacts DEF CredentialFits, AnsweredIsRestored, Credential
<1> QED BY <1>1, <1>2, <1>3, <1>4 DEF RestoreInv

LEMMA GatewayStep == ASSUME RestoreInv, EndCycle \/ ChangeUsers PROVE RestoreInv'
<1> USE DEF RestoreInv, taskVars, processVars
<1>1. clock' \in Versions
  BY VersionsFacts DEF RestoreTypes, EndCycle, ChangeUsers, Fresh
<1>2. CASE EndCycle
  <2> USE <1>2 DEF EndCycle
  <2>1. RestoreTypes'
    BY <1>1 DEF RestoreTypes
  <2>2. StepsLeft' /\ RequestsKnown' /\ CredentialIsThere' /\ ArchivesFit'
    BY DEF StepsLeft, RequestsKnown, CredentialIsThere, ArchivesFit
  <2>3. SavesAreCurrent' /\ ImportHolds'
    BY DEF SavesAreCurrent, ImportHolds, Settled, Importing
  <2>4. CredentialFits' /\ AnsweredIsRestored'
    BY DEF CredentialFits, Credential, AnsweredIsRestored, Settled, Importing
  <2> QED BY <2>1, <2>2, <2>3, <2>4
<1>3. CASE ChangeUsers
  <2> USE <1>3 DEF ChangeUsers
  <2>1. users' \in Tables
    BY <1>1 DEF RestoreTypes, Tables
  <2>2. RestoreTypes'
    BY <1>1, <2>1 DEF RestoreTypes
  <2>3. StepsLeft' /\ RequestsKnown' /\ CredentialIsThere' /\ ArchivesFit'
    BY DEF StepsLeft, RequestsKnown, CredentialIsThere, ArchivesFit
  <2>4. SavesAreCurrent' /\ ImportHolds'
    BY DEF SavesAreCurrent, ImportHolds, Settled, Importing
  <2>5. CredentialFits' /\ AnsweredIsRestored'
    BY DEF CredentialFits, Credential, AnsweredIsRestored, Settled, Importing
  <2> QED BY <2>2, <2>3, <2>4, <2>5
<1> QED BY <1>2, <1>3

LEMMA ReadStep == ASSUME RestoreInv, NEW t \in Admins, ReadSettings(t) PROVE RestoreInv'
<1> USE DEF RestoreInv
<1>1. /\ kind[t] = "idle" /\ kind' = [kind EXCEPT ![t] = "save"]
      /\ archive' = [archive EXCEPT ![t].config = config]
      /\ alone' = [u \in Admins |-> IF u = t THEN ~Beside(t, {"import"})
                                    ELSE alone[u] /\ kind[u] # "import"]
      /\ UNCHANGED <<config, restored, users, history, state, running, topics, statePath, clock,
                     todo, saved, torn, answered, since>>
      /\ running
  BY DEF ReadSettings, Request, stores, processVars
<1>2. /\ kind'[t] = "save" /\ archive'[t].config = config /\ archive'[t] \in Backups
      /\ \A u \in Admins : u # t => kind'[u] = kind[u] /\ archive'[u] = archive[u]
  BY <1>1 DEF RestoreTypes, Backups
<1>3. alone'[t] => ~Beside(t, {"import"})
  BY <1>1, Zenon
<1>4. \A u \in Admins : u # t /\ alone'[u] => alone[u] /\ kind[u] # "import"
  BY <1>1, Zenon
<1>5. RestoreTypes'
  <2>1. alone' \in [Admins -> BOOLEAN]
    BY <1>1
  <2>2. archive' \in [Admins -> Backups]
    BY <1>1, <1>2 DEF RestoreTypes
  <2> QED BY <1>1, <2>1, <2>2 DEF RestoreTypes
<1>6. StepsLeft'
  BY <1>1, <1>2 DEF StepsLeft
<1>7. RequestsKnown'
  <2>1. \A u \in Admins : u # t /\ alone'[t] => kind[u] # "import"
    BY <1>3 DEF Beside
  <2> QED BY <1>1, <1>2, <1>4, <2>1 DEF RequestsKnown
<1>8. CredentialIsThere' /\ ArchivesFit' /\ ImportHolds'
  BY <1>1, <1>2, <1>4 DEF CredentialIsThere, ArchivesFit, ImportHolds, CredentialFits
<1>9. Settled' => Settled
  BY <1>1, <1>2 DEF Settled, Importing
<1>10. SavesAreCurrent' /\ CredentialFits' /\ AnsweredIsRestored'
  BY <1>1, <1>2, <1>9 DEF SavesAreCurrent, CredentialFits, AnsweredIsRestored, Credential
<1> QED BY <1>5, <1>6, <1>7, <1>8, <1>10

LEMMA WriteStep == ASSUME RestoreInv, NEW t \in Admins, WriteSettings(t) PROVE RestoreInv'
<1> USE DEF RestoreInv
<1>1. /\ kind[t] = "save" /\ kind' = [kind EXCEPT ![t] = "idle"]
      /\ archive' = [archive EXCEPT ![t] = NoArchive] /\ since' = since \cup {"change"}
      /\ UNCHANGED <<restored, users, history, state, running, topics, todo, saved, torn, alone,
                     answered>>
  BY DEF WriteSettings
<1>2. clock' \in Versions
  BY VersionsFacts DEF WriteSettings, RestoreTypes, Fresh
<1>3. archive[t].config \in Configurations
  BY DEF RestoreTypes, Backups
<1>4. /\ config' \in Configurations /\ statePath' \in Paths
      /\ config'.place = archive[t].config.place /\ config'.key = archive[t].config.key
  BY <1>2, <1>3 DEF WriteSettings, RestoreTypes, Configurations
<1>5. /\ kind'[t] = "idle" /\ archive'[t] = NoArchive
      /\ \A u \in Admins : u # t => kind'[u] = kind[u] /\ archive'[u] = archive[u]
  BY <1>1 DEF RestoreTypes
<1>6. RestoreTypes'
  BY <1>1, <1>2, <1>4, NoArchiveFacts DEF RestoreTypes
<1>7. StepsLeft' /\ RequestsKnown'
  BY <1>1, <1>5 DEF StepsLeft, RequestsKnown
<1>8. CredentialIsThere'
  BY <1>1, <1>5, NoArchiveFacts DEF CredentialIsThere
<1>9. Settled => config'.place = config.place /\ config'.key = config.key
  BY <1>1, <1>4 DEF SavesAreCurrent
<1>10. Settled' => Settled
  BY <1>1, <1>5 DEF Settled, Importing
<1>11. \A u \in Admins : kind[u] = "export" /\ alone[u] /\ ~torn => Settled
  BY DEF RequestsKnown, Settled, Importing
<1>12. ArchivesFit'
  BY <1>1, <1>5, <1>9, <1>11 DEF ArchivesFit
<1>13. ImportHolds'
  <2>1. \A u \in Admins : ~(kind'[u] = "import" /\ alone'[u])
    BY <1>1, <1>5 DEF RequestsKnown
  <2> QED BY <2>1 DEF ImportHolds
<1>14. SavesAreCurrent'
  BY <1>1, <1>5, <1>9, <1>10 DEF SavesAreCurrent
<1>15. CredentialFits'
  BY <1>1, <1>4, <1>9, <1>10 DEF CredentialFits, Credential, CredentialIsThere
<1>16. AnsweredIsRestored'
  BY <1>1 DEF AnsweredIsRestored
<1> QED BY <1>6, <1>7, <1>8, <1>12, <1>13, <1>14, <1>15, <1>16

LEMMA StopStep == ASSUME RestoreInv, StopGateway PROVE RestoreInv'
<1> USE DEF RestoreInv, StopGateway, stores
<1>1. RestoreTypes'
  BY NoArchiveFacts DEF RestoreTypes
<1>2. StepsLeft' /\ RequestsKnown' /\ CredentialIsThere' /\ ArchivesFit' /\ ImportHolds'
  BY NoArchiveFacts DEF StepsLeft, RequestsKnown, CredentialIsThere, ArchivesFit, ImportHolds
<1>3. Settled' => Settled
  BY DEF Settled
<1>4. SavesAreCurrent' /\ CredentialFits' /\ AnsweredIsRestored'
  BY <1>3 DEF SavesAreCurrent, CredentialFits, Credential, AnsweredIsRestored
<1> QED BY <1>1, <1>2, <1>4

LEMMA StartStep == ASSUME RestoreInv, StartGateway PROVE RestoreInv'
<1> USE DEF RestoreInv, StartGateway, stores, taskVars, counters
<1>1. RestoreTypes'
  BY VersionsFacts DEF RestoreTypes, Configurations
<1>2. \A t \in Admins : kind'[t] = "idle"
  BY DEF RequestsKnown
<1>3. StepsLeft' /\ RequestsKnown' /\ CredentialIsThere' /\ ArchivesFit' /\ ImportHolds'
  BY <1>2 DEF StepsLeft, RequestsKnown, CredentialIsThere, ArchivesFit, ImportHolds
<1>4. SavesAreCurrent' /\ CredentialFits' /\ AnsweredIsRestored'
  <2>1. Settled' => Settled
    BY DEF Settled, Importing
  <2>2. config.statePath \in Paths /\ answered.state \in Versions \cup {Nothing}
    BY DEF RestoreTypes, Configurations, Backups
  <2> QED BY <1>2, <2>1, <2>2 DEF SavesAreCurrent, CredentialFits, Credential, AnsweredIsRestored
<1> QED BY <1>1, <1>3, <1>4

LEMMA BeginExportStep == ASSUME RestoreInv, NEW t \in Admins, BeginExport(t) PROVE RestoreInv'
<1> USE DEF RestoreInv
<1>1. /\ kind[t] = "idle" /\ kind' = [kind EXCEPT ![t] = "export"]
      /\ todo' = [todo EXCEPT ![t] = ExportSteps]
      /\ alone' = [alone EXCEPT ![t] = ~Beside(t, {"import"})]
      /\ UNCHANGED <<config, restored, users, history, state, running, topics, statePath, clock,
                     archive, saved, torn, answered, since>>
      /\ running
  BY DEF BeginExport, Request, stores, processVars
<1>2. /\ kind' \in [Admins -> {"idle", "save", "export", "import"}]
      /\ DOMAIN todo' = Admins /\ alone' \in [Admins -> BOOLEAN]
  BY <1>1 DEF RestoreTypes
<1>3. /\ kind'[t] = "export" /\ todo'[t] = ExportRest(1)
      /\ \A u \in Admins : u # t => /\ kind'[u] = kind[u] /\ todo'[u] = todo[u]
                                   /\ alone'[u] = alone[u]
  BY <1>1 DEF RestoreTypes, ExportRest
<1>4. alone'[t] => ~Beside(t, {"import"})
  BY <1>1 DEF RestoreTypes
<1>5. RestoreTypes'
  BY <1>1, <1>2 DEF RestoreTypes
<1>6. StepsLeft'
  BY <1>3 DEF StepsLeft
<1>7. RequestsKnown'
  <2>1. \A u \in Admins : u # t /\ alone'[t] => kind[u] # "import"
    BY <1>4 DEF Beside
  <2> QED BY <1>1, <1>3, <2>1 DEF RequestsKnown
<1>8. CredentialIsThere' /\ ImportHolds'
  BY <1>1, <1>3 DEF CredentialIsThere, ImportHolds
<1>9. ArchivesFit'
  BY <1>1, <1>3, ExportSteppedThrough DEF ArchivesFit
<1>10. SavesAreCurrent' /\ CredentialFits' /\ AnsweredIsRestored'
  <2>1. Settled' => Settled
    BY <1>1, <1>3 DEF Settled, Importing
  <2> QED BY <1>1, <1>3, <2>1 DEF SavesAreCurrent, CredentialFits, AnsweredIsRestored, Credential
<1> QED BY <1>5, <1>6, <1>7, <1>8, <1>9, <1>10

LEMMA ExportStep == ASSUME RestoreInv, NEW t \in Admins, Export(t) PROVE RestoreInv'
<1> DEFINE a == Collected(Head(todo[t]), archive[t])
<1> USE DEF RestoreInv
<1>1. /\ kind[t] = "export"
      /\ IF Len(todo[t]) > 1
         THEN archive' = [archive EXCEPT ![t] = a] /\ UNCHANGED <<kind, saved>>
         ELSE /\ saved' = saved \cup {[a EXCEPT !.whole = alone[t] /\ ~torn /\ answered.whole]}
              /\ archive' = [archive EXCEPT ![t] = NoArchive]
              /\ kind' = [kind EXCEPT ![t] = "idle"]
      /\ todo' = [todo EXCEPT ![t] = Tail(@)]
      /\ UNCHANGED <<config, restored, users, history, state, running, topics, statePath, clock,
                     torn, alone, answered, since>>
  BY DEF Export, stores, processVars, counters, historyVars
<1>2. PICK n \in 1 .. 4 : todo[t] = ExportRest(n)
  BY <1>1 DEF StepsLeft
<1>3. Credential(config) \in Versions \cup {Nothing}
  BY VersionsFacts DEF Credential, RestoreTypes, Configurations, Places
<1>4. /\ n = 1 => a = [archive[t] EXCEPT !.history = history]
      /\ n = 2 => a = [archive[t] EXCEPT !.config = config, !.users = users]
      /\ n = 3 => a = [archive[t] EXCEPT !.state = state[statePath]]
      /\ n = 4 => a = [archive[t] EXCEPT !.credential = Credential(config)]
  BY <1>2, ExportSteppedThrough DEF Collected
<1> HIDE DEF a
<1>5. /\ archive[t] \in Backups /\ state[statePath] \in Versions \cup {Nothing}
      /\ history \in Versions /\ users \in Tables /\ config \in Configurations
  BY DEF RestoreTypes
<1>6. /\ a \in Backups
      /\ n = 2 => a.config = config
      /\ n # 2 => a.config = archive[t].config
      /\ n = 4 => a.credential = Credential(config)
  <2>1. n = 1 \/ n = 2 \/ n = 3 \/ n = 4
    OBVIOUS
  <2>2. CASE n = 1
    BY <1>4, <1>5, <2>2 DEF Backups
  <2>3. CASE n = 2
    BY <1>4, <1>5, <2>3 DEF Backups
  <2>4. CASE n = 3
    BY <1>4, <1>5, <2>4 DEF Backups
  <2>5. CASE n = 4
    BY <1>3, <1>4, <1>5, <2>5 DEF Backups
  <2> QED BY <2>1, <2>2, <2>3, <2>4, <2>5
<1>7. Len(todo[t]) > 1 <=> n # 4
  <2>1. CASE n \in 1 .. 3
    BY <1>2, <2>1, ExportSteppedThrough
  <2>2. CASE n = 4
    <3>1. Len(todo[t]) = 1
      BY <1>2, <2>2, ExportSteppedThrough
    <3> QED BY <2>2, <3>1
  <2> QED BY <2>1, <2>2
<1>8. /\ \A u \in Admins : u # t => /\ todo'[u] = todo[u] /\ archive'[u] = archive[u]
                                   /\ kind'[u] = kind[u]
      /\ todo'[t] = Tail(todo[t]) /\ DOMAIN todo' = Admins
      /\ n # 4 => archive'[t] = a /\ kind'[t] = "export" /\ saved' = saved
      /\ n = 4 => kind'[t] = "idle" /\ saved' = saved \cup {[a EXCEPT !.whole = alone[t] /\ ~torn /\ answered.whole]}
  BY <1>1, <1>7 DEF RestoreTypes
<1>9. n # 4 => todo'[t] = ExportRest(n + 1)
  BY <1>2, <1>8, ExportSteppedThrough
<1>10. Settled' <=> Settled
  BY <1>1, <1>8 DEF Settled, Importing
<1>11. \A b \in saved' : b \notin saved => /\ b \in Backups /\ n = 4 /\ b.config = a.config
                                        /\ b.credential = Credential(config)
                                        /\ (b.whole => alone[t] /\ ~torn /\ answered.whole)
  <2> SUFFICES ASSUME NEW b \in saved', b \notin saved
               PROVE  /\ b \in Backups /\ n = 4 /\ b.config = a.config
                      /\ b.credential = Credential(config)
                      /\ (b.whole => alone[t] /\ ~torn /\ answered.whole)
    OBVIOUS
  <2>1. n = 4 /\ b = [a EXCEPT !.whole = alone[t] /\ ~torn /\ answered.whole]
    BY <1>8
  <2>2. (alone[t] /\ ~torn /\ answered.whole) \in BOOLEAN
    OBVIOUS
  <2>3. /\ b \in Backups /\ b.config = a.config /\ b.credential = a.credential
        /\ b.whole = (alone[t] /\ ~torn /\ answered.whole)
    BY <1>6, <2>1, <2>2 DEF Backups
  <2> QED BY <1>6, <2>1, <2>3
<1>12. saved \subseteq saved'
  BY <1>8
<1>13. RestoreTypes'
  <2>1. archive' \in [Admins -> Backups] /\ kind' \in [Admins -> {"idle", "save", "export", "import"}]
    BY <1>1, <1>6, <1>7, NoArchiveFacts DEF RestoreTypes
  <2>2. saved' \subseteq Backups
    BY <1>11 DEF RestoreTypes
  <2> QED BY <1>1, <1>8, <2>1, <2>2 DEF RestoreTypes
<1>14. StepsLeft' /\ RequestsKnown'
  <2>1. n # 4 => n + 1 \in 1 .. 4
    OBVIOUS
  <2>2. StepsLeft'
    <3> SUFFICES ASSUME NEW u \in Admins
                 PROVE  /\ kind'[u] = "import" => \E k \in 1 .. 5 : todo'[u] = ImportRest(k)
                        /\ kind'[u] = "export" => \E k \in 1 .. 4 : todo'[u] = ExportRest(k)
      BY DEF StepsLeft
    <3>1. CASE u = t
      BY <1>8, <1>9, <2>1, <3>1
    <3>2. CASE u # t
      BY <1>8, <3>2 DEF StepsLeft
    <3> QED BY <3>1, <3>2
  <2>3. RequestsKnown'
    BY <1>1, <1>8 DEF RequestsKnown
  <2> QED BY <2>2, <2>3
<1>15. CredentialIsThere'
  <2>1. a.config.place = "restored" => restored # Nothing
    BY <1>6 DEF CredentialIsThere, CredentialFits
  <2>2. \A b \in saved' : b.config.place = "restored" => restored # Nothing
    BY <1>11, <2>1 DEF CredentialIsThere
  <2>3. \A u \in Admins : archive'[u].config.place = "restored" => restored # Nothing
    <3>1. n = 4 => archive'[t] = NoArchive
      BY <1>1, <1>7 DEF RestoreTypes
    <3> QED BY <1>8, <2>1, <3>1, NoArchiveFacts DEF CredentialIsThere
  <2>4. \A u \in Admins : kind'[u] = "import" => u # t
    BY <1>8
  <2> QED BY <1>1, <1>8, <1>12, <2>2, <2>3, <2>4 DEF CredentialIsThere
<1>16. alone[t] => \A u \in Admins : ~Importing(u)
  BY <1>1 DEF RequestsKnown, Importing
<1>17. ArchivesFit'
  <2>1. \A b \in Foreign \cup saved' : b.whole => b.credential = b.config.key
    <3> SUFFICES ASSUME NEW b \in saved', b \notin saved, b.whole
                 PROVE  b.credential = b.config.key
      BY DEF ArchivesFit
    <3>1. n = 4 /\ alone[t] /\ ~torn /\ answered.whole
      BY <1>11
    <3>2. Credential(config) = config.key
      BY <1>16, <3>1 DEF CredentialFits, Settled
    <3>3. archive[t].config.key = config.key
      BY <1>1, <1>2, <3>1 DEF ArchivesFit
    <3>4. a.config = archive[t].config /\ b.config = a.config /\ b.credential = Credential(config)
      BY <1>6, <1>11, <3>1
    <3> QED BY <3>2, <3>3, <3>4
  <2>2. ASSUME NEW u \in Admins, kind'[u] = "export" /\ alone'[u] /\ ~torn',
               todo'[u] \in {ExportRest(3), ExportRest(4)}
        PROVE  archive'[u].config.place = config'.place /\ archive'[u].config.key = config'.key
    <3>1. CASE u # t
      BY <1>1, <1>8, <2>2, <3>1 DEF ArchivesFit
    <3>2. CASE u = t
      <4>1. n # 4 /\ todo'[t] = ExportRest(n + 1) /\ archive'[t] = a /\ alone[t] /\ ~torn
        BY <1>1, <1>8, <1>9, <2>2, <3>2
      <4>2. n = 2 \/ n = 3
        <5>1. n \in 1 .. 3 /\ n + 1 \in 1 .. 4
          BY <4>1
        <5>2. n + 1 = 3 \/ n + 1 = 4
          BY <2>2, <3>2, <4>1, <5>1, ExportSteppedThrough
        <5> QED BY <5>1, <5>2
      <4>3. CASE n = 2
        BY <1>1, <1>6, <3>2, <4>1, <4>3
      <4>4. CASE n = 3
        BY <1>1, <1>2, <1>6, <3>2, <4>1, <4>4 DEF ArchivesFit
      <4> QED BY <4>2, <4>3, <4>4
    <3> QED BY <3>1, <3>2
  <2> QED BY <2>1, <2>2 DEF ArchivesFit
<1>18. ImportHolds'
  BY <1>1, <1>8 DEF ImportHolds
<1>19. SavesAreCurrent' /\ CredentialFits' /\ AnsweredIsRestored'
  BY <1>1, <1>8, <1>10 DEF SavesAreCurrent, CredentialFits, AnsweredIsRestored, Credential
<1> QED BY <1>13, <1>14, <1>15, <1>17, <1>18, <1>19

LEMMA BeginImportStep == ASSUME RestoreInv, NEW t \in Admins, BeginImport(t) PROVE RestoreInv'
<1> USE DEF RestoreInv
<1>1. /\ running /\ kind[t] = "idle" /\ kind' = [kind EXCEPT ![t] = "import"]
      /\ todo' = [todo EXCEPT ![t] = ImportSteps] /\ since' = {}
      /\ alone' = [u \in Admins |-> IF u = t THEN ~Beside(t, {"import", "save"})
                                    ELSE alone[u] /\ kind[u] = "idle"]
      /\ UNCHANGED <<config, restored, users, history, state, running, topics, statePath, clock,
                     saved, torn, answered>>
  BY DEF BeginImport, Request, stores, processVars
<1>2. PICK a \in Foreign \cup saved : archive' = [archive EXCEPT ![t] = a]
  BY DEF BeginImport
<1>3. /\ kind'[t] = "import" /\ todo'[t] = ImportRest(1) /\ archive'[t] = a
      /\ \A u \in Admins : u # t => /\ kind'[u] = kind[u] /\ todo'[u] = todo[u]
                                   /\ archive'[u] = archive[u]
  BY <1>1, <1>2 DEF RestoreTypes, ImportRest
<1>4. alone'[t] => ~Beside(t, {"import", "save"})
  BY <1>1, Zenon
<1>5. \A u \in Admins : u # t /\ alone'[u] => kind[u] = "idle"
  BY <1>1, Zenon
<1>6. RestoreTypes'
  <2>1. a \in Backups
    BY BackupAssumption DEF RestoreTypes
  <2>2. alone' \in [Admins -> BOOLEAN]
    BY <1>1
  <2> QED BY <1>1, <1>2, <2>1, <2>2 DEF RestoreTypes
<1>7. StepsLeft'
  BY <1>3 DEF StepsLeft
<1>8. RequestsKnown'
  <2>1. \A u \in Admins : u # t /\ alone'[t] => kind[u] \notin {"import", "save"}
    BY <1>4 DEF Beside
  <2> QED BY <1>1, <1>3, <1>5, <2>1 DEF RequestsKnown
<1>9. CredentialIsThere' /\ ArchivesFit'
  <2>1. a \in Foreign \cup saved'
    BY <1>1
  <2>2. a.config.place = "restored" => restored # Nothing
    BY <1>1, BackupAssumption DEF CredentialIsThere
  <2> QED BY <1>1, <1>3, <1>5, <2>1, <2>2 DEF CredentialIsThere, ArchivesFit
<1>10. ImportHolds'
  <2>1. \A k \in 3 .. 5 : ImportRest(1) # ImportRest(k)
    BY ImportSteppedThrough
  <2> QED BY <1>1, <1>3, <1>5, <2>1 DEF ImportHolds
<1>11. SavesAreCurrent' /\ CredentialFits' /\ AnsweredIsRestored'
  <2>1. ~Settled'
    BY <1>3 DEF Settled, Importing
  <2> QED BY <1>1, <2>1 DEF SavesAreCurrent, CredentialFits, AnsweredIsRestored
<1> QED BY <1>6, <1>7, <1>8, <1>9, <1>10, <1>11

LEMMA FailImportStep == ASSUME RestoreInv, NEW t \in Admins, FailImport(t) PROVE RestoreInv'
<1> USE DEF RestoreInv, FailImport, stores, processVars
<1>1. RestoreTypes'
  BY NoArchiveFacts DEF RestoreTypes
<1>2. /\ kind'[t] = "idle" /\ archive'[t] = NoArchive
      /\ \A u \in Admins \ {t} : /\ kind'[u] = kind[u] /\ todo'[u] = todo[u]
                                /\ archive'[u] = archive[u]
  BY DEF RestoreTypes
<1>3. StepsLeft' /\ RequestsKnown' /\ CredentialIsThere' /\ ArchivesFit' /\ ImportHolds'
  BY <1>2, NoArchiveFacts DEF StepsLeft, RequestsKnown, CredentialIsThere, ArchivesFit, ImportHolds
<1>4. SavesAreCurrent' /\ CredentialFits' /\ AnsweredIsRestored'
  BY DEF SavesAreCurrent, CredentialFits, AnsweredIsRestored, Settled
<1> QED BY <1>1, <1>3, <1>4

LEMMA ImportStepStep == ASSUME RestoreInv, NEW t \in Admins, ImportStep(t) PROVE RestoreInv'
<1> DEFINE a == archive[t]
           Holds(table) == \A m \in Usernames : a.users[m] # Nothing => table[m] = a.users[m]
<1> USE DEF RestoreInv
<1>1. /\ kind[t] = "import" /\ Restore(t)
      /\ todo' = [todo EXCEPT ![t] = Tail(@)]
      /\ UNCHANGED <<running, topics, statePath, saved, alone, clock>>
  BY DEF ImportStep, processVars, counters
<1>2. PICK n \in 1 .. 5 : todo[t] = ImportRest(n)
  BY <1>1 DEF StepsLeft
<1>3. /\ a \in Backups /\ a \in Foreign \cup saved
      /\ a.whole => a.credential = a.config.key
      /\ a.config.place = "restored" => restored # Nothing
  BY <1>1 DEF RestoreTypes, CredentialIsThere, ArchivesFit
<1>4. /\ a.config \in Configurations /\ a.credential \in Versions \cup {Nothing}
      /\ a.users \in Tables
      /\ a.history \in Versions /\ a.state \in Versions \cup {Nothing}
  BY <1>3 DEF Backups
<1>5. /\ n = 1 => /\ restored' = IF a.credential # Nothing THEN a.credential ELSE restored
                  /\ UNCHANGED <<config, users, history, state>>
      /\ n = 2 => config' = Patched(a) /\ UNCHANGED <<restored, users, history, state>>
      /\ n = 3 => users' = Upserted(a) /\ UNCHANGED <<restored, config, history, state>>
      /\ n = 4 => history' = a.history /\ UNCHANGED <<restored, config, users, state>>
      /\ n = 5 => /\ state' = IF a.state # Nothing THEN [state EXCEPT ![statePath] = a.state]
                              ELSE state
                  /\ UNCHANGED <<restored, config, users, history>>
  BY <1>1, <1>2, <1>3, ImportSteppedThrough DEF Restore
<1>6. /\ Patched(a) \in Configurations
      /\ Patched(a).place = IF a.credential = Nothing THEN a.config.place ELSE "restored"
      /\ Patched(a).key = a.config.key /\ Patched(a).id = a.config.id
      /\ Patched(a).statePath = a.config.statePath
  BY <1>3, <1>4 DEF Patched, Configurations, Places
<1>7. Len(todo[t]) > 1 <=> n # 5
  <2>1. CASE n \in 1 .. 4
    BY <1>2, <2>1, ImportSteppedThrough
  <2>2. CASE n = 5
    <3>1. Len(todo[t]) = 1
      BY <1>2, <2>2, ImportSteppedThrough
    <3> QED BY <2>2, <3>1
  <2> QED BY <2>1, <2>2
<1>8. /\ n # 5 => UNCHANGED <<kind, archive, torn, answered, since>>
      /\ n = 5 => /\ kind' = [kind EXCEPT ![t] = "idle"]
                  /\ archive' = [archive EXCEPT ![t] = NoArchive]
                  /\ torn' = ~alone[t]
                  /\ answered' = archive[t]
                  /\ since' = IF archive[t].config.statePath = statePath
                              THEN since ELSE since \cup {"change"}
  BY <1>7 DEF ImportStep
<1>9. /\ \A u \in Admins : u # t => /\ todo'[u] = todo[u] /\ archive'[u] = archive[u]
                                   /\ kind'[u] = kind[u]
      /\ todo'[t] = Tail(todo[t]) /\ DOMAIN todo' = Admins
      /\ n = 5 => kind'[t] = "idle"
  BY <1>1, <1>8 DEF RestoreTypes
<1>10. n # 5 => todo'[t] = ImportRest(n + 1) /\ n + 1 \in 2 .. 5
  <2>1. n # 5 => n \in 1 .. 4 /\ n + 1 \in 2 .. 5
    OBVIOUS
  <2>2. n \in 1 .. 4 => Tail(ImportRest(n)) = ImportRest(n + 1)
    BY ImportSteppedThrough
  <2> QED BY <1>2, <1>9, <2>1, <2>2
<1>11. n = 1 \/ n = 2 \/ n = 3 \/ n = 4 \/ n = 5
  OBVIOUS
<1>12. RestoreTypes'
  <2>0. Upserted(a) \in Tables
    BY <1>4 DEF Upserted, RestoreTypes, Tables
  <2>1. /\ config' \in Configurations /\ restored' \in Versions \cup {Nothing}
        /\ users' \in Tables /\ history' \in Versions
    BY <1>4, <1>5, <1>6, <1>11, <2>0 DEF RestoreTypes
  <2>2. state' \in [Paths -> Versions \cup {Nothing}]
    BY <1>4, <1>5, <1>11 DEF RestoreTypes
  <2>3. /\ kind' \in [Admins -> {"idle", "save", "export", "import"}]
        /\ archive' \in [Admins -> Backups] /\ answered' \in Backups
    BY <1>3, <1>8, <1>11, NoArchiveFacts DEF RestoreTypes
  <2>4. torn' \in BOOLEAN
    BY <1>8, <1>11 DEF RestoreTypes
  <2> QED BY <1>1, <1>9, <2>1, <2>2, <2>3, <2>4 DEF RestoreTypes
<1> HIDE DEF a
<1>13. StepsLeft'
  <2> SUFFICES ASSUME NEW u \in Admins
               PROVE  /\ kind'[u] = "import" => \E k \in 1 .. 5 : todo'[u] = ImportRest(k)
                      /\ kind'[u] = "export" => \E k \in 1 .. 4 : todo'[u] = ExportRest(k)
    BY DEF StepsLeft
  <2>1. CASE u = t /\ n # 5
    <3>1. n + 1 \in 1 .. 5
      BY <2>1
    <3> QED BY <1>1, <1>8, <1>10, <2>1, <3>1
  <2>2. CASE u = t /\ n = 5
    BY <1>9, <2>2
  <2>3. CASE u # t
    BY <1>9, <2>3 DEF StepsLeft
  <2> QED BY <2>1, <2>2, <2>3
<1>14. RequestsKnown'
  <2>1. running
    BY <1>1 DEF RequestsKnown
  <2>2. kind[t] = "import" /\ "start" \notin since /\ "start" \notin since'
    BY <1>1, <1>8, <1>11 DEF RequestsKnown
  <2>3. \A u \in Admins : kind'[u] # "idle" => kind[u] = kind'[u]
    BY <1>1, <1>8, <1>9, <1>11
  <2>4. \A u \in Admins : kind'[u] \in {"import", "save"} => kind[u] = kind'[u]
    BY <2>3
  <2> QED BY <1>1, <2>1, <2>2, <2>3, <2>4 DEF RequestsKnown
<1>15. restored # Nothing => restored' # Nothing
  BY <1>4, <1>5, <1>11
<1>16. n # 1 /\ a.credential # Nothing => restored # Nothing
  BY <1>1, <1>2, ImportSteppedThrough DEF CredentialIsThere, a
<1>17. a.credential # Nothing => restored' # Nothing
  BY <1>5, <1>15, <1>16, <1>11
<1>18. CredentialIsThere'
  <2>1. ASSUME NEW u \in Admins, kind'[u] = "import"
        PROVE  archive'[u] \in Foreign \cup saved' /\ archive'[u] = archive[u] /\ kind[u] = "import"
    BY <1>1, <1>8, <1>9, <2>1 DEF CredentialIsThere
  <2>2. ASSUME NEW u \in Admins, kind'[u] = "import", archive'[u].credential # Nothing,
               todo'[u] # ImportRest(1)
        PROVE  restored' # Nothing
    <3>1. CASE u = t
      BY <1>17, <2>1, <2>2, <3>1 DEF a
    <3>2. CASE u # t
      BY <1>9, <1>15, <2>1, <2>2, <3>2 DEF CredentialIsThere
    <3> QED BY <3>1, <3>2
  <2>3. \A b \in saved' : b.config.place = "restored" => restored' # Nothing
    BY <1>1, <1>15 DEF CredentialIsThere
  <2>4. ASSUME NEW u \in Admins, archive'[u].config.place = "restored" PROVE restored' # Nothing
    <3>1. archive'[u] = archive[u] \/ archive'[u] = NoArchive
      BY <1>8, <1>11 DEF RestoreTypes
    <3> QED BY <1>15, <2>4, <3>1, NoArchiveFacts DEF CredentialIsThere
  <2> QED BY <2>1, <2>2, <2>3, <2>4 DEF CredentialIsThere
<1>19. ASSUME NEW u \in Admins, u # t, kind[u] # "idle", alone[u] PROVE FALSE
  BY <1>1, <1>19 DEF RequestsKnown
<1>20. ArchivesFit'
  <2>1. ~\E u \in Admins : kind'[u] = "export" /\ alone'[u]
    BY <1>1, <1>8, <1>9, <1>19
  <2> QED BY <1>1, <2>1 DEF ArchivesFit
<1>21. Holds(Upserted(a))
  BY DEF Upserted
<1> HIDE DEF Holds
<1>22. alone[t] =>
          /\ n >= 2 /\ a.credential # Nothing => restored = a.credential
          /\ n >= 3 => /\ a.credential # Nothing =>
                             config.place = "restored" /\ config.key = a.config.key
                       /\ since \subseteq {"start"} =>
                             /\ config.id = a.config.id
                             /\ config.statePath = a.config.statePath
                             /\ n >= 4 => Holds(users)
                             /\ n = 5 => history = a.history
  <2>1. n >= 3 => n \in 3 .. 5
    OBVIOUS
  <2>2. n >= 2 => ImportRest(n) # ImportRest(1)
    BY ImportSteppedThrough
  <2> QED BY <1>1, <1>2, <2>1, <2>2 DEF ImportHolds, Holds, a
<1>23. ImportHolds'
  <2> SUFFICES ASSUME NEW u \in Admins, kind'[u] = "import", alone'[u]
               PROVE  /\ archive'[u].credential # Nothing /\ todo'[u] # ImportRest(1) =>
                            restored' = archive'[u].credential
                      /\ \A k \in 3 .. 5 : todo'[u] = ImportRest(k) =>
                            /\ archive'[u].credential # Nothing =>
                                  /\ config'.place = "restored"
                                  /\ config'.key = archive'[u].config.key
                            /\ since' \subseteq {"start"} =>
                                  /\ config'.id = archive'[u].config.id
                                  /\ config'.statePath = archive'[u].config.statePath
                                  /\ k >= 4 => \A m \in Usernames :
                                       archive'[u].users[m] # Nothing =>
                                          users'[m] = archive'[u].users[m]
                                  /\ k = 5 => history' = archive'[u].history
    BY DEF ImportHolds
  <2>1. u = t /\ n # 5
    BY <1>1, <1>9, <1>19
  <2>2. /\ archive'[u] = a /\ since' = since /\ alone[t]
        /\ todo'[u] = ImportRest(n + 1) /\ n + 1 \in 2 .. 5
    BY <1>1, <1>8, <1>10, <2>1 DEF a
  <2>3. a.credential # Nothing => restored' = a.credential
    BY <1>5, <1>11, <1>22, <2>1, <2>2
  <2>4. ASSUME NEW k \in 3 .. 5, todo'[u] = ImportRest(k)
        PROVE  /\ a.credential # Nothing =>
                     config'.place = "restored" /\ config'.key = a.config.key
               /\ since \subseteq {"start"} =>
                     /\ config'.id = a.config.id /\ config'.statePath = a.config.statePath
                     /\ k >= 4 => Holds(users')
                     /\ k = 5 => history' = a.history
    <3>1. k = n + 1
      <4>1. k \in 1 .. 5 /\ n + 1 \in 1 .. 5
        BY <2>2
      <4> QED BY <2>2, <2>4, <4>1, ImportSteppedThrough
    <3>2. CASE n = 2
      BY <1>5, <1>6, <3>1, <3>2
    <3>3. CASE n = 3
      BY <1>5, <1>22, <1>21, <2>2, <3>1, <3>3
    <3>4. CASE n = 4
      BY <1>5, <1>22, <2>2, <3>1, <3>4
    <3> QED BY <3>1, <3>2, <3>3, <3>4, <2>1, <1>11
  <2> QED BY <2>2, <2>3, <2>4 DEF Holds
<1>24. SavesAreCurrent'
  <2>1. ASSUME Settled', NEW u \in Admins, kind'[u] = "save" PROVE FALSE
    <3>1. n = 5
      BY <1>1, <1>8, <2>1 DEF Settled, Importing
    <3>2. alone[t]
      BY <1>8, <2>1, <3>1 DEF Settled
    <3>3. u # t /\ kind[u] = "save"
      BY <1>9, <2>1, <3>1
    <3> QED BY <1>1, <3>2, <3>3 DEF RequestsKnown
  <2> QED BY <2>1 DEF SavesAreCurrent
<1>25. (config.place = "restored" => restored # Nothing)'
  BY <1>3, <1>5, <1>6, <1>11, <1>15, <1>16 DEF CredentialFits
<1>26. CASE n # 5
  <2>1. ~Settled'
    BY <1>1, <1>8, <1>26 DEF Settled, Importing
  <2> QED BY <1>12, <1>13, <1>14, <1>18, <1>20, <1>23, <1>24, <1>25, <2>1
          DEF CredentialFits, AnsweredIsRestored
<1>27. CASE n = 5
  <2>1. answered' = a /\ (Settled' => alone[t])
    BY <1>8, <1>27 DEF Settled, a
  <2>2. Settled' /\ answered'.whole => (Credential(config) = config.key)'
    <3>1. a.whole => a.credential # Nothing
      BY <1>3, <1>4, VersionsFacts, BackupAssumption DEF Configurations
    <3> QED BY <1>3, <1>5, <1>22, <1>27, <2>1, <3>1 DEF Credential
  <2>3. CredentialFits'
    BY <1>25, <2>2 DEF CredentialFits
  <2>4. ASSUME Settled', since' \subseteq {"start"}
        PROVE  /\ config'.id = a.config.id /\ Holds(users') /\ history' = a.history
               /\ a.state # Nothing => state'[config'.statePath] = a.state
               /\ "start" \notin since'
    <3>1. since' = since /\ a.config.statePath = statePath
      BY <1>8, <1>27, <2>4 DEF a
    <3>2. "start" \notin since
      BY <1>1 DEF RequestsKnown
    <3> QED BY <1>5, <1>22, <1>27, <2>1, <2>4, <3>1, <3>2 DEF RestoreTypes
  <2>5. AnsweredIsRestored'
    BY <2>1, <2>4 DEF AnsweredIsRestored, Holds
  <2> QED BY <1>12, <1>13, <1>14, <1>18, <1>20, <1>23, <1>24, <2>3, <2>5
<1> QED BY <1>26, <1>27

LEMMA RestoreStep == RestoreInv /\ [BackupNext]_backupVars => RestoreInv'
<1> SUFFICES ASSUME RestoreInv, [BackupNext]_backupVars PROVE RestoreInv'
  OBVIOUS
<1>1. CASE UNCHANGED backupVars
  BY <1>1 DEF backupVars, stores, processVars, taskVars, counters, historyVars, RestoreInv,
     RestoreTypes, StepsLeft, RequestsKnown, CredentialIsThere, ArchivesFit, SavesAreCurrent,
     ImportHolds, CredentialFits, AnsweredIsRestored, Settled, Importing, Credential
<1>2. ASSUME NEW t \in Admins, RefuseImport(t) PROVE RestoreInv'
  BY <1>1, <1>2 DEF RefuseImport
<1> QED
  BY <1>1, <1>2, GatewayStep, ReadStep, WriteStep, StopStep, StartStep, BeginExportStep, ExportStep, BeginImportStep,
     ImportStepStep, FailImportStep DEF BackupNext

LEMMA RestoreInvariance == BackupSpec => []RestoreInv
  BY RestoreInvInit, RestoreStep, PTL DEF BackupSpec

\* At every moment, however requests, settings, restarts and crashes interleave, a
\* configuration that names a restored credential finds the file; and its content is the
\* one the configuration was saved with, unless the last import was cut short, ran beside
\* another or beside a settings save, or its archive was without it (the order in which
\* backup() copies the references and writes the configuration; settings() writes back what
\* it read).
THEOREM CredentialsFit == BackupSpec => []CredentialFits
<1>1. RestoreInv => CredentialFits
  BY DEF RestoreInv
<1> QED BY <1>1, RestoreInvariance, PTL

\* What an import that was answered restored, the archive's accounts over those that were
\* there, stays until something changes it, and the process that is started next works with
\* it (backup(), import_rows, load_runtime_state).
THEOREM AnsweredRestored == BackupSpec => []AnsweredIsRestored
<1>1. RestoreInv => AnsweredIsRestored
  BY DEF RestoreInv
<1> QED BY <1>1, RestoreInvariance, PTL
=============================================================================
