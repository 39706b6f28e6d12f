--------------------------- MODULE WindowsService ---------------------------
(***************************************************************************)
(* The gateway as a Windows service: the wrapper of windows_service.py     *)
(* that starts the program as a child and ends it, the service controls of *)
(* the settings editor (config_gui.py), and under both the bridge and the  *)
(* broker of BridgeStatus.  On the other platforms (windows = FALSE) the   *)
(* service manager starts and stops the program itself.                    *)
(*                                                                         *)
(* The service manager and pywin32's ServiceFramework are external:        *)
(* `sc stop` returns when SvcStop has returned, `sc start` is refused      *)
(* unless the service is stopped.                                          *)
(***************************************************************************)
EXTENDS BridgeStatus

CONSTANTS
    Editors,    \* windows and elevated processes of the settings editor
    MaxSaves,   \* bound on saved configurations
    ServiceFaults, ServiceStarts    \* bounds that replace MaxFaults and MaxStarts
                                    \* on Windows

ASSUME ServiceAssumption ==
    /\ MaxSaves \in Nat
    /\ ServiceFaults \in 0 .. MaxFaults /\ ServiceStarts \in 0 .. MaxStarts

VARIABLES
    windows,
    service,    \* the service manager's: "stopped", "start_pending", "running",
                \* "stop_pending"
    wrapper,    \* SvcDoRun: "none", "starting" before it, "begun", "watching" the
                \* child, "ending", "waiting" for the child's end
    stopEvent,  \* stop_event is set
    control,    \* SvcStop is between SetEvent and its terminate()
    doomed,     \* TerminateProcess was called on the child
    overdue,    \* history: a child outlived the 15 s it is given
    file,       \* the configuration in config.toml, counted
    loaded,     \* the one that the child has read
    step,       \* of each editor's "Save & restart": "idle", "saved", "stopped"
    mine,       \* the configuration it saved
    confirmed   \* history: the latest one whose restart was reported done

wrapperVars == <<service, wrapper, stopEvent, control, doomed, overdue>>
editorVars == <<file, step, mine, confirmed>>
serviceVars == <<windows, wrapperVars, loaded, editorVars>>
allVars == <<vars, serviceVars>>

ServiceInit ==
    /\ Quiet
    /\ windows \in BOOLEAN
    /\ faults = IF windows THEN MaxFaults - ServiceFaults ELSE 0
    /\ starts = IF windows THEN MaxStarts - ServiceStarts ELSE 0
    /\ service = "stopped" /\ wrapper = "none"
    /\ stopEvent = FALSE /\ control = FALSE /\ doomed = FALSE /\ overdue = FALSE
    /\ file = 0 /\ loaded = 0
    /\ step = [e \in Editors |-> "idle"] /\ mine = [e \in Editors |-> 0]
    /\ confirmed = 0

-----------------------------------------------------------------------------
(* The service manager.                                                     *)

\* The wrapper's process starts, with an event of its own.
Launch ==
    /\ windows /\ service = "stopped"
    /\ service' = "start_pending" /\ wrapper' = "starting"
    /\ stopEvent' = FALSE /\ control' = FALSE
    /\ UNCHANGED <<doomed, overdue>>

\* SvcStop up to SetEvent; whoever asked waits for the rest of it.
Ask ==
    /\ windows /\ service = "running"
    /\ service' = "stop_pending" /\ stopEvent' = TRUE /\ control' = TRUE
    /\ UNCHANGED <<wrapper, doomed, overdue>>

\* By hand, at boot, or with the editor's buttons.
ScStart == Launch /\ UNCHANGED <<vars, windows, loaded, editorVars>>
ScStop == Ask /\ UNCHANGED <<vars, windows, loaded, editorVars>>

-----------------------------------------------------------------------------
(* The wrapper.                                                             *)

\* The framework reports RUNNING and calls SvcDoRun.
SvcRun ==
    /\ wrapper = "starting"
    /\ wrapper' = "begun" /\ service' = "running"
    /\ UNCHANGED <<vars, windows, stopEvent, control, doomed, overdue, loaded, editorVars>>

\* Popen, and the child reads the configuration.
Popen ==
    /\ wrapper = "begun" /\ Start
    /\ wrapper' = "watching" /\ loaded' = file /\ doomed' = FALSE
    /\ UNCHANGED <<windows, service, stopEvent, control, overdue, editorVars>>

\* The wait returns with the (self-resetting) event, or poll() tells the child's end.
Watch ==
    /\ wrapper = "watching" /\ (stopEvent \/ ~Up)
    /\ wrapper' = "ending" /\ stopEvent' = FALSE
    /\ UNCHANGED <<vars, windows, service, control, doomed, overdue, loaded, editorVars>>

EndLeavesChild == \* mutant: terminating the child is left to SvcStop
    /\ wrapper = "ending"
    /\ wrapper' = "none" /\ service' = "stopped" /\ control' = FALSE
    /\ UNCHANGED <<vars, windows, stopEvent, doomed, overdue, loaded, editorVars>>

\* SvcDoRun terminates a child that is alive; without one it returns.
End ==
    /\ wrapper = "ending"
    /\ IF Up
       THEN /\ wrapper' = "waiting" /\ doomed' = TRUE
            /\ UNCHANGED <<service, control>>
       ELSE /\ wrapper' = "none" /\ service' = "stopped" /\ control' = FALSE
            /\ UNCHANGED doomed
    /\ UNCHANGED <<vars, windows, stopEvent, overdue, loaded, editorVars>>

\* process.wait(timeout=15); the kill() that follows a timeout waits for nothing.
WaitForChild ==
    /\ wrapper = "waiting"
    /\ \/ ~Up /\ UNCHANGED <<faults, overdue>>
       \/ Up /\ Fault /\ overdue' = TRUE
    /\ wrapper' = "none" /\ service' = "stopped" /\ control' = FALSE
    /\ UNCHANGED <<main, diskCache, clientVars, wireVars, brokerVars, late, starts>>
    /\ UNCHANGED <<windows, stopEvent, doomed, loaded, editorVars>>

\* The rest of SvcStop, in the thread of the service dispatcher: it has a child to
\* terminate once SvcDoRun has stored it.
SvcStopTerminates ==
    /\ control
    /\ control' = FALSE
    /\ doomed' = (doomed \/ (Up /\ wrapper \notin {"starting", "begun"}))
    /\ UNCHANGED <<vars, windows, service, wrapper, stopEvent, overdue, loaded, editorVars>>

\* A terminated child runs no `finally` block.
Kill ==
    /\ doomed /\ Die /\ UNCHANGED faults
    /\ UNCHANGED serviceVars

-----------------------------------------------------------------------------
(* The editor's "Save & restart service": one window, or an elevated         *)
(* process for each save.                                                   *)

\* save() or apply_elevated(): the file, and then the service.
Save(e) ==
    /\ windows /\ step[e] = "idle" /\ file < MaxSaves
    /\ file' = file + 1
    /\ mine' = [mine EXCEPT ![e] = file + 1]
    /\ step' = [step EXCEPT ![e] = "saved"]
    /\ UNCHANGED <<vars, windows, wrapperVars, loaded, confirmed>>

\* `sc stop`, whose result is ignored.
RestartStops(e) ==
    /\ step[e] = "saved"
    /\ step' = [step EXCEPT ![e] = "stopped"]
    /\ IF service = "running" THEN Ask ELSE UNCHANGED wrapperVars
    /\ UNCHANGED <<vars, windows, loaded, file, mine, confirmed>>

Confirm(e) == confirmed' = IF mine[e] > confirmed THEN mine[e] ELSE confirmed

RestartTrustsStop(e) == \* mutant: the result of `sc start` is not looked at
    /\ step[e] = "stopped" /\ ~control
    /\ step' = [step EXCEPT ![e] = "idle"] /\ mine' = [mine EXCEPT ![e] = 0]
    /\ IF service = "stopped" THEN Launch ELSE UNCHANGED wrapperVars
    /\ Confirm(e)
    /\ UNCHANGED <<vars, windows, loaded, file>>

\* `sc start` right behind it: refused while the service is still stopping, and that
\* is what the editor then shows.
RestartStarts(e) ==
    /\ step[e] = "stopped" /\ ~control
    /\ step' = [step EXCEPT ![e] = "idle"] /\ mine' = [mine EXCEPT ![e] = 0]
    /\ \/ service = "stopped" /\ Launch /\ Confirm(e)
       \/ service # "stopped" /\ UNCHANGED <<wrapperVars, confirmed>>
    /\ UNCHANGED <<vars, windows, loaded, file>>

-----------------------------------------------------------------------------
Wrapper == SvcRun \/ Popen \/ Watch \/ End \/ WaitForChild \/ SvcStopTerminates \/ Kill

\* systemd, launchd or a container runtime.
OtherManager == ~windows /\ (Start \/ Stop)

ServiceNext ==
    \/ (OtherManager \/ Crash \/ Main \/ Network \/ Broker \/ LinkBreaks)
           /\ UNCHANGED serviceVars
    \/ ScStart \/ ScStop \/ Wrapper
    \/ \E e \in Editors : Save(e) \/ RestartStops(e) \/ RestartStarts(e)

\* As in BridgeStatus; nor does the wrapper stand still, or a terminated child live on.
ServiceSpec ==
    /\ ServiceInit /\ [][ServiceNext]_allVars
    /\ WF_vars(Main) /\ WF_vars(Network) /\ WF_vars(Broker) /\ WF_allVars(Wrapper)

-----------------------------------------------------------------------------
\* A service that is shown as stopped has left no gateway behind, however its stop
\* came between the wrapper's steps, also before the child was started; the exception
\* is a child that withstands the 15 s it is given (windows_service.py:44-70).
StoppedLeavesNoGateway == windows /\ service = "stopped" /\ ~overdue => ~Up

\* The gateway that runs after a "Save & restart" that reported no error runs the
\* configuration that was saved, or a later one (config_gui.py:55-62, 342-358,
\* docs/NATIVE-INSTALLERS.en.md:11).
ConfirmedIsLoaded == windows /\ Up /\ ~overdue => loaded >= confirmed
=============================================================================
