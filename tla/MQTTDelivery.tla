---------------------------- MODULE MQTTDelivery ----------------------------
(***************************************************************************)
(* publish_confirmed, publish_or_cache and flush_cache of cli.bridge(),    *)
(* between the disk spool (MQTTCache), the paho client's queue of          *)
(* unacknowledged messages and the broker.                                 *)
(*                                                                         *)
(* Message k is the k-th message of the bridge's program order, all of     *)
(* them QoS 1 and retained.  The bridge's thread, paho's network thread    *)
(* and the broker interleave; the link drops, acknowledgements are late,   *)
(* the process dies.                                                       *)
(***************************************************************************)
EXTENDS Integers, Sequences

CONSTANTS
    MaxMessages,    \* bound on the program order
    Size, MaxBytes, BatchLimit,     \* of the spool
    MaxFaults       \* bound on dropped links, late acknowledgements and crashes

Messages == 1 .. MaxMessages

ASSUME DeliveryAssumption ==
    /\ MaxMessages \in Nat
    /\ Size \in [Messages -> Nat \ {0}]
    /\ MaxBytes \in Nat \ {0}
    /\ BatchLimit \in Nat \ {0}
    /\ MaxFaults \in Nat

VARIABLES
    rows, nextId,   \* the spool
    batch,      \* flush_cache: rows read and not yet handled
    pc,         \* where the bridge's thread is
    current,    \* the message publish_or_cache is waiting on, 0 for none
    next,       \* the next message of the program order
    session,    \* "offline": connected is clear; "online"; "lost": the socket
                \* is gone but on_disconnect has not yet cleared connected
    outbox,     \* paho's _out_messages: sent or to be sent, not acknowledged
    received,   \* how many of outbox the broker received in this session
    got,        \* every message the broker ever received
    gone,       \* undelivered messages given up by the bridge
    faults

spoolVars == <<rows, nextId>>
clientVars == <<session, outbox, received>>
vars == <<spoolVars, batch, pc, current, next, clientVars, got, gone, faults>>

Spool == INSTANCE MQTTCache
            WITH limit <- MaxBytes, archive <- <<>>, Limits <- {MaxBytes},
                 Archives <- {}, MaxId <- 0

Spooled == {rows[i].msg : i \in 1 .. Len(rows)}
Connected == session # "offline"
Fault == faults < MaxFaults /\ faults' = faults + 1

Init ==
    /\ rows = <<>> /\ nextId = 1
    /\ batch = <<>>
    /\ pc = "sleep" /\ current = 0 /\ next = 1
    /\ session = "offline" /\ outbox = <<>> /\ received = 0
    /\ got = {} /\ gone = {}
    /\ faults = 0

-----------------------------------------------------------------------------
(* The bridge's thread.                                                     *)

\* cache_message: an enqueue may displace old rows; a message above the limit
\* raises ValueError, which ends the cycle.
CacheMessage(m) ==
    \/ /\ Spool!Enqueue(m)
       /\ gone' = gone \cup
                  (Spooled \ ({rows'[i].msg : i \in 1 .. Len(rows')} \cup got))
       /\ pc' = "cycle"
    \/ /\ Size[m] > MaxBytes
       /\ gone' = gone \cup ({m} \ got)
       /\ pc' = "sleep"
       /\ UNCHANGED spoolVars

\* client.publish: paho queues a QoS 1 message also when it has no socket.
PahoPublish(m) == outbox' = Append(outbox, m)

\* The message published last is the youngest, and brokers acknowledge in
\* order: it is acknowledged when paho holds no message at all.
IsPublished == outbox = <<>>

\* No cycle starts in the moment between a socket's loss and on_disconnect: a
\* scan of seconds lies between two cycles.
StartCycle ==
    /\ pc = "sleep" /\ session # "lost"
    /\ pc' = IF Connected THEN "flush" ELSE "cycle"
    /\ UNCHANGED <<spoolVars, batch, current, next, clientVars, got, gone, faults>>

FlushRead ==
    /\ pc = "flush" /\ batch = <<>>
    /\ \/ /\ Connected /\ rows # <<>>
          /\ batch' = Spool!Oldest(BatchLimit)
          /\ pc' = pc
       \/ /\ ~Connected \/ rows = <<>>
          /\ batch' = batch
          /\ pc' = "cycle"
    /\ UNCHANGED <<spoolVars, current, next, clientVars, got, gone, faults>>

FlushSendDeletesFirst == \* mutant: the row goes before the acknowledgement
    /\ pc = "flush" /\ batch # <<>>
    /\ \/ /\ session = "online"
          /\ PahoPublish(Head(batch).msg)
          /\ Spool!Delete(Head(batch).id)
          /\ pc' = "flushWait" /\ batch' = batch
       \/ /\ session # "online"
          /\ pc' = "cycle" /\ batch' = <<>>
          /\ UNCHANGED <<spoolVars, outbox>>
    /\ UNCHANGED <<current, next, session, received, got, gone, faults>>

\* publish_confirmed of the head of the batch: any failure pauses the flush.
FlushSend ==
    /\ pc = "flush" /\ batch # <<>>
    /\ \/ /\ session = "online"
          /\ PahoPublish(Head(batch).msg)
          /\ pc' = "flushWait"
          /\ batch' = batch
       \/ /\ session = "lost"
          /\ PahoPublish(Head(batch).msg)
          /\ pc' = "cycle"
          /\ batch' = <<>>
       \/ /\ session = "offline"
          /\ outbox' = outbox
          /\ pc' = "cycle"
          /\ batch' = <<>>
    /\ UNCHANGED <<spoolVars, current, next, session, received, got, gone, faults>>

FlushAcknowledgedKeepsRow == \* mutant: the row is not deleted
    /\ pc = "flushWait" /\ IsPublished
    /\ batch' = Tail(batch)
    /\ pc' = "flush"
    /\ UNCHANGED <<spoolVars, current, next, clientVars, got, gone, faults>>

FlushAcknowledged ==
    /\ pc = "flushWait" /\ IsPublished
    /\ Spool!Delete(Head(batch).id)
    /\ batch' = Tail(batch)
    /\ pc' = "flush"
    /\ UNCHANGED <<current, next, clientVars, got, gone, faults>>

FlushTimeout ==
    /\ pc = "flushWait" /\ ~IsPublished
    /\ Fault
    /\ batch' = <<>>
    /\ pc' = "cycle"
    /\ UNCHANGED <<spoolVars, current, next, clientVars, got, gone>>

\* publish_or_cache of the next message.
Publish ==
    /\ pc = "cycle" /\ next \in Messages
    /\ next' = next + 1
    /\ \/ /\ session = "online"
          /\ PahoPublish(next)
          /\ current' = next
          /\ pc' = "wait"
          /\ UNCHANGED <<spoolVars, gone>>
       \/ /\ session = "lost"
          /\ PahoPublish(next)
          /\ CacheMessage(next)
          /\ UNCHANGED current
       \/ /\ session = "offline"
          /\ CacheMessage(next)
          /\ UNCHANGED <<current, outbox>>
    /\ UNCHANGED <<batch, session, received, got, faults>>

PublishAcknowledged ==
    /\ pc = "wait" /\ IsPublished
    /\ current' = 0
    /\ pc' = "cycle"
    /\ UNCHANGED <<spoolVars, batch, next, clientVars, got, gone, faults>>

PublishTimeoutIgnored == \* mutant: queued in paho is taken for delivered
    /\ pc = "wait" /\ ~IsPublished
    /\ Fault
    /\ current' = 0 /\ pc' = "cycle"
    /\ UNCHANGED <<spoolVars, batch, next, clientVars, got, gone>>

PublishTimeout ==
    /\ pc = "wait" /\ ~IsPublished
    /\ Fault
    /\ CacheMessage(current)
    /\ current' = 0
    /\ UNCHANGED <<batch, next, clientVars, got>>

EndCycle ==
    /\ pc = "cycle"
    /\ pc' = "sleep"
    /\ UNCHANGED <<spoolVars, batch, current, next, clientVars, got, gone, faults>>

Bridge ==
    \/ StartCycle \/ FlushRead \/ FlushSend \/ FlushAcknowledged \/ FlushTimeout
    \/ Publish \/ PublishAcknowledged \/ PublishTimeout \/ EndCycle

-----------------------------------------------------------------------------
(* paho's network thread and the broker.                                    *)

bridgeVars == <<spoolVars, batch, pc, current, next>>

\* CONNACK: on_connect sets connected, then paho sends its queue again.
OnConnect ==
    /\ session = "offline"
    /\ session' = "online"
    /\ received' = 0
    /\ UNCHANGED <<bridgeVars, outbox, got, gone, faults>>

DropLink ==
    /\ session = "online"
    /\ Fault
    /\ session' = "lost"
    /\ UNCHANGED <<bridgeVars, outbox, received, got, gone>>

OnDisconnect ==
    /\ session = "lost"
    /\ session' = "offline"
    /\ UNCHANGED <<bridgeVars, outbox, received, got, gone, faults>>

BrokerReceives ==
    /\ session = "online" /\ received < Len(outbox)
    /\ received' = received + 1
    /\ got' = got \cup {outbox[received + 1]}
    /\ UNCHANGED <<bridgeVars, session, outbox, gone, faults>>

Puback ==
    /\ session = "online" /\ received > 0
    /\ received' = received - 1
    /\ outbox' = Tail(outbox)
    /\ UNCHANGED <<bridgeVars, session, got, gone, faults>>

\* The process dies and is started again: only the spool survives, and the
\* message in hand is given up.
Crash ==
    /\ Fault
    /\ pc' = "sleep" /\ current' = 0 /\ batch' = <<>>
    /\ session' = "offline" /\ outbox' = <<>> /\ received' = 0
    /\ gone' = gone \cup ({current} \ ({0} \cup got))
    /\ UNCHANGED <<spoolVars, next, got>>

Network == OnConnect \/ OnDisconnect \/ BrokerReceives \/ Puback

Next == Bridge \/ Network \/ DropLink \/ Crash

\* The bridge's loop goes on (wait_for_publish has a timeout, a cycle is
\* followed by the next), paho keeps reconnecting and resending
\* (reconnect_delay_set, loop_start), the broker answers.  Nothing makes the
\* link drop or the process die.
Fairness ==
    /\ WF_vars(StartCycle) /\ WF_vars(FlushRead) /\ WF_vars(FlushSend)
    /\ WF_vars(FlushAcknowledged) /\ WF_vars(PublishAcknowledged)
    /\ WF_vars(EndCycle)
    /\ WF_vars(Network)

Spec == Init /\ [][Next]_vars /\ Fairness

-----------------------------------------------------------------------------
\* A message handed to publish_or_cache is with the broker, on disk, in the
\* hand of the waiting call, or was given up for want of room or in a crash.
\* What only paho's memory holds does not count (cli.py:781-838).
NothingLost ==
    \A m \in 1 .. next - 1 :
        m \in got \cup gone \cup Spooled \cup {current}

\* Without a fault no message reaches the broker twice: the flush deletes what
\* it sent before it reads again, and only failed publishes are spooled.
OnceWithoutFaults ==
    [][ received' = received + 1 /\ faults = 0 => outbox[received'] \notin got ]_vars

\* What the promise is about: where each message of the program order stands.
Status == [m \in Messages |->
            IF m \in got THEN "delivered"
            ELSE IF m \in gone THEN "given_up"
            ELSE IF m < next THEN "owed" ELSE "new"]

\* The delivery path implements the promise.
Promise == INSTANCE AtLeastOnce WITH status <- Status
Promised == Promise!Spec
=============================================================================
