---------------------------- MODULE BridgeStatus ----------------------------
(***************************************************************************)
(* The retained message on <prefix>/bridge/status, by which Home Assistant *)
(* tells whether the gateway is available: the last will, the "online" of  *)
(* on_connect, and the shutdown of cli.bridge() with its "offline" and its *)
(* clean disconnect.                                                       *)
(*                                                                         *)
(* The main thread, paho's network thread and the broker interleave.  The  *)
(* link breaks, the broker is away, the process dies and is started again. *)
(* Every process connects with the same client id (--mqtt-client-id).      *)
(***************************************************************************)
EXTENDS Integers, Sequences, SequencesExt

CONSTANTS
    MaxFaults,      \* bound on broken links, refusals, crashes and timeouts
    MaxStarts       \* bound on processes

ASSUME StatusAssumption ==
    /\ MaxFaults \in Nat /\ MaxStarts \in Nat

VARIABLES
    main,       \* "down", "starting", "running", "waiting" for the
                \* acknowledgement of "offline", "leaving" before and "left" after
                \* client.disconnect()
    diskCache,  \* args.mqtt_cache of this process
    connected,  \* the event of bridge()
    link,       \* paho's socket: "none", "opening" (no CONNACK yet), "up", or
                \* "lost" before on_disconnect has run
    sent,       \* packets on their way to the broker, of this socket
    unacked,    \* paho's _out_messages
    answers,    \* packets on their way back; a PUBACK is named by its message
    session,    \* the broker's: "none", "live", or "ghost" when the socket is
                \* gone and the broker has not noticed
    status,     \* what the broker retains
    late,       \* history: on_connect ran when the shutdown no longer answers it
    faults, starts

clientVars == <<connected, link, unacked>>
wireVars == <<sent, answers>>
brokerVars == <<session, status>>
vars == <<main, diskCache, clientVars, wireVars, brokerVars, late, faults, starts>>

Up == main # "down"
Fault == faults < MaxFaults /\ faults' = faults + 1

Quiet ==
    /\ main = "down" /\ diskCache = TRUE /\ connected = FALSE /\ late = FALSE
    /\ link = "none" /\ sent = <<>> /\ unacked = <<>> /\ answers = <<>>
    /\ session = "none" /\ status = "offline"

Init == Quiet /\ faults = 0 /\ starts = 0

-----------------------------------------------------------------------------
(* The main thread.                                                         *)

\* A process with or without the disk cache: make_client, will_set, connect_async and loop_start.
Start ==
    /\ main = "down" /\ sent = <<>>
    /\ starts < MaxStarts /\ starts' = starts + 1
    /\ main' = "starting" /\ diskCache' \in BOOLEAN
    /\ UNCHANGED <<clientVars, wireVars, brokerVars, late, faults>>

\* connected.wait() returns; without the disk cache the process gives up when
\* it has timed out.
Started ==
    /\ main = "starting"
    /\ \/ connected /\ main' = "running" /\ UNCHANGED faults
       \/ ~connected /\ diskCache /\ main' = "running" /\ UNCHANGED faults
       \/ ~connected /\ ~diskCache /\ main' = "leaving" /\ Fault
    /\ UNCHANGED <<diskCache, late, clientVars, wireVars, brokerVars, starts>>

StopSilently == \* mutant: a clean disconnect without a word
    /\ main = "running"
    /\ main' = "leaving"
    /\ UNCHANGED <<diskCache, late, clientVars, wireVars, brokerVars, faults, starts>>

\* Without a socket paho keeps the message all the same, and publish_confirmed raises.
Leave(word) ==
    /\ main = "running"
    /\ IF connected
       THEN /\ unacked' = Append(unacked, word)
            /\ sent' = IF link = "up" THEN Append(sent, word) ELSE sent
            /\ main' = IF link = "up" THEN "waiting" ELSE "leaving"
       ELSE main' = "leaving" /\ UNCHANGED <<sent, unacked>>
    /\ UNCHANGED <<diskCache, late, connected, link, answers, brokerVars, faults, starts>>

\* The finally block publishes "offline" if `connected` is set.
Stop == Leave("offline")

\* wait_for_publish returns at the acknowledgement or at the timeout.
Waited ==
    /\ main = "waiting"
    /\ \/ ~Contains(unacked, "offline") /\ UNCHANGED faults
       \/ Contains(unacked, "offline") /\ Fault
    /\ main' = "leaving"
    /\ UNCHANGED <<diskCache, late, clientVars, wireVars, brokerVars, starts>>

\* client.disconnect(): a DISCONNECT behind what is queued, if there is a socket.
Disconnect ==
    /\ main = "leaving"
    /\ main' = "left"
    /\ sent' = IF link \in {"opening", "up"} THEN Append(sent, "DISCONNECT") ELSE sent
    /\ UNCHANGED <<diskCache, late, clientVars, answers, brokerVars, faults, starts>>

Forget ==
    /\ main' = "down" /\ connected' = FALSE
    /\ link' = "none" /\ unacked' = <<>> /\ answers' = <<>>

\* loop_stop: the network thread has written its packets and closed the socket.
Exit ==
    /\ main = "left"
    /\ Forget
    /\ UNCHANGED <<diskCache, late, sent, brokerVars, faults, starts>>

\* The process is gone at once, and the broker's session with it unnoticed.
Die ==
    /\ Up
    /\ Forget
    /\ sent' = <<>>
    /\ session' = IF session = "live" THEN "ghost" ELSE session
    /\ UNCHANGED <<diskCache, late, status, starts>>

Crash == Die /\ Fault

-----------------------------------------------------------------------------
(* paho's network thread.                                                   *)

Connect ==
    /\ Up /\ main # "left" /\ link = "none"
    /\ link' = "opening"
    /\ sent' = <<"CONNECT">> /\ answers' = <<>>
    /\ UNCHANGED <<main, diskCache, late, connected, unacked, brokerVars, faults, starts>>

\* The shutdown takes an "online" back if its "offline" is the last that paho holds:
\* then it is sent again behind it.
Unanswered ==
    \/ main = "leaving"
    \/ main = "waiting" /\ (unacked = <<>> \/ Last(unacked) = "online")

ConnectedWith(packets) ==
    /\ link = "opening" /\ answers # <<>> /\ Head(answers) = "CONNACK"
    /\ main # "left"
    /\ link' = "up" /\ connected' = TRUE
    /\ unacked' = Append(unacked, "online")
    /\ sent' = sent \o packets
    /\ answers' = Tail(answers)
    /\ late' = (Unanswered \/ (late /\ main \in {"waiting", "leaving"}))
    /\ UNCHANGED <<main, diskCache, brokerVars, faults, starts>>

OnConnectSilently == \* mutant: connected, but nothing is published
    /\ link = "opening" /\ answers # <<>> /\ Head(answers) = "CONNACK"
    /\ main # "left"
    /\ link' = "up" /\ connected' = TRUE
    /\ answers' = Tail(answers)
    /\ UNCHANGED <<main, diskCache, unacked, sent, brokerVars, late, faults, starts>>

OnConnectAfterPending == \* mutant: "online" comes behind what is sent again
    ConnectedWith(Append(unacked, "online"))

\* on_connect publishes "online"; then paho sends again what it holds.  After
\* disconnect() the socket is closed before another packet is written.
OnConnect == ConnectedWith(<<"online">> \o unacked)

\* The broker refuses: on_connect clears `connected`, paho tries again.
OnRefused ==
    /\ link = "opening" /\ answers # <<>> /\ Head(answers) = "refused"
    /\ link' = "none" /\ connected' = FALSE
    /\ sent' = <<>> /\ answers' = <<>>
    /\ UNCHANGED <<main, diskCache, late, unacked, brokerVars, faults, starts>>

OnPuback ==
    /\ link = "up" /\ answers # <<>>
    /\ \/ \E i \in DOMAIN unacked :
             /\ unacked[i] = Head(answers)
             /\ \A j \in 1 .. i - 1 : unacked[j] # Head(answers)
             /\ unacked' = RemoveAt(unacked, i)
       \/ ~Contains(unacked, Head(answers)) /\ UNCHANGED unacked
    /\ answers' = Tail(answers)
    /\ UNCHANGED <<main, diskCache, late, connected, link, sent, brokerVars, faults, starts>>

\* What has not arrived is lost.
LinkBreaks ==
    /\ link \in {"opening", "up"} \/ sent # <<>>
    /\ Fault
    /\ link' = IF link = "none" THEN "none" ELSE "lost"
    /\ sent' = <<>> /\ answers' = <<>>
    /\ session' = IF session = "live" THEN "ghost" ELSE session
    /\ UNCHANGED <<main, diskCache, late, connected, unacked, status, starts>>

OnDisconnect ==
    /\ link = "lost"
    /\ link' = "none" /\ connected' = FALSE
    /\ UNCHANGED <<main, diskCache, late, unacked, wireVars, brokerVars, faults, starts>>

-----------------------------------------------------------------------------
(* The broker.                                                              *)

\* A session that ends without a DISCONNECT has its will published, also when a
\* new connection with its client id ends it.
BrokerConnects ==
    /\ sent # <<>> /\ Head(sent) = "CONNECT"
    /\ sent' = Tail(sent)
    /\ \/ /\ answers' = Append(answers, "CONNACK")
          /\ session' = "live"
          /\ status' = IF session = "none" THEN status ELSE "offline"
          /\ UNCHANGED faults
       \/ /\ Fault
          /\ answers' = Append(answers, "refused")
          /\ UNCHANGED brokerVars
    /\ UNCHANGED <<main, diskCache, late, clientVars, starts>>

BrokerRetains ==
    /\ sent # <<>> /\ Head(sent) \in {"online", "offline"} /\ session = "live"
    /\ status' = Head(sent)
    /\ sent' = Tail(sent)
    /\ answers' = Append(answers, Head(sent))
    /\ UNCHANGED <<main, diskCache, late, clientVars, session, faults, starts>>

\* A clean end: the will is discarded.  A connection that was refused ends without
\* a word about the session.
BrokerDisconnects ==
    /\ sent # <<>> /\ Head(sent) = "DISCONNECT"
    /\ session' = IF session = "live" THEN "none" ELSE session
    /\ sent' = <<>>
    /\ UNCHANGED <<main, diskCache, late, clientVars, answers, status, faults, starts>>

\* The keepalive of 60 s runs out.
BrokerNotices ==
    /\ session = "ghost"
    /\ session' = "none" /\ status' = "offline"
    /\ UNCHANGED <<main, diskCache, late, clientVars, wireVars, faults, starts>>

-----------------------------------------------------------------------------
Main == Started \/ Waited \/ Disconnect \/ Exit
Network == Connect \/ OnConnect \/ OnRefused \/ OnPuback \/ OnDisconnect
Broker == BrokerConnects \/ BrokerRetains \/ BrokerDisconnects \/ BrokerNotices

Next == Start \/ Stop \/ Crash \/ Main \/ Network \/ Broker \/ LinkBreaks

\* No thread is stuck, and the broker answers; whether the gateway is started or
\* stopped is the operator's choice.
Spec == Init /\ [][Next]_vars /\ WF_vars(Main) /\ WF_vars(Network) /\ WF_vars(Broker)

-----------------------------------------------------------------------------
\* A gateway the broker knows nothing of any more is not shown as available: every
\* session ends with a will or with a word, unless on_connect came too late for the
\* shutdown to answer it (cli.py:766, 1008-1011).
AbsentIsOffline == session = "none" /\ ~late => status = "offline"

\* A running gateway whose connection has settled is shown as available, also
\* when an old session's will has been published meanwhile (cli.py:747-756).
SettledIsOnline ==
    main = "running" /\ link = "up" /\ sent = <<>> /\ session = "live"
        => status = "online"

\* What is shown follows the process: in the end online, if it stays running with
\* an unbroken link, and in the end offline if it stays down, however it ended.
StatusFollowsProcess ==
    /\ <>[](main = "running" /\ link = "up") => <>[](status = "online")
    /\ <>[](main = "down" /\ ~late) => <>[](status = "offline")
=============================================================================
