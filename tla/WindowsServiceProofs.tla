------------------------ MODULE WindowsServiceProofs -------------------------
(***************************************************************************)
(* Proofs about BridgeStatus and WindowsService for any number of faults,  *)
(* processes, editors and saved configurations.                            *)
(*                                                                         *)
(* First the gateway.  What the broker will retain is decided by what is   *)
(* on its way to it.  The packets of a connection are CONNECT, then words, *)
(* then DISCONNECT.  While the process runs all the words are "online";    *)
(* once it ends, none is "online" without an "offline" behind it.  A       *)
(* session that is live after the process has hung up has the DISCONNECT   *)
(* still before it.                                                        *)
(*                                                                         *)
(* Then the service.  A child lives only while the wrapper is between its  *)
(* Popen and its end, unless it outlived its 15 s; and an editor reports a *)
(* restart only when the service was stopped, before the Popen that reads  *)
(* the file.  What is shown of the gateway holds under either manager: the *)
(* service manager only starts, stops and kills.                           *)
(***************************************************************************)
EXTENDS WindowsService, SequenceTheorems, TLAPS

Words == {"online", "offline"}
Packets == Words \cup {"CONNECT", "DISCONNECT"}

Typed ==
    /\ main \in {"down", "starting", "running", "waiting", "leaving", "left"}
    /\ link \in {"none", "opening", "up", "lost"}
    /\ session \in {"none", "live", "ghost"} /\ status \in Words
    /\ connected \in BOOLEAN /\ late \in BOOLEAN
    /\ sent \in Seq(Packets) /\ unacked \in Seq(Words)
    /\ answers \in Seq(Words \cup {"CONNACK", "refused"})

\* A process without a connection, and the time between two processes.
Offline ==
    /\ main = "down" => link = "none" /\ unacked = <<>>
    /\ main # "down" /\ link \in {"none", "lost"} => sent = <<>> /\ session # "live"
    /\ link = "up" => connected
    /\ connected => link \in {"up", "lost"}

\* A connection that is not accepted yet: one CONNECT, one answer.
Opening ==
    link = "opening" =>
    /\ answers \in {<<>>, <<"CONNACK">>, <<"refused">>}
    /\ IF main = "left"
       THEN sent \in {<<>>, <<"DISCONNECT">>, <<"CONNECT", "DISCONNECT">>}
       ELSE sent \in {<<>>, <<"CONNECT">>}
    /\ answers # <<>> => sent \in {<<>>, <<"DISCONNECT">>}
    /\ answers = <<"refused">> => session # "live"
    /\ answers = <<"CONNACK">> /\ main # "left" => session = "live"
    /\ session = "live" /\ ~late => status = "offline"

\* The order of the packets.
Ordered ==
    /\ \A i \in DOMAIN sent : sent[i] = "CONNECT" => i = 1 /\ session # "live"
    /\ \A i \in DOMAIN sent :
          sent[i] = "DISCONNECT" => i = Len(sent) /\ main \in {"left", "down"}

\* A process that is not told to stop says "online" only.
SaysOnline ==
    main \in {"starting", "running"} =>
    /\ \A i \in DOMAIN unacked : unacked[i] = "online"
    /\ link = "up" => /\ \A i \in DOMAIN sent : sent[i] = "online"
                      /\ sent = <<>> /\ session = "live" => status = "online"

\* One that ends leaves no "online" without an "offline" behind it.
EndsOffline ==
    ~late /\ main \notin {"starting", "running"} =>
    /\ session = "live" /\ status = "online" => \E k \in DOMAIN sent : sent[k] = "offline"
    /\ \A j \in DOMAIN sent : sent[j] = "online" =>
          \E k \in DOMAIN sent : k > j /\ sent[k] = "offline"

\* One that has disconnected has its DISCONNECT last on the way, and no session without.
HangsUp ==
    main \in {"left", "down"} =>
    /\ sent # <<>> => sent[Len(sent)] = "DISCONNECT"
    /\ session = "live" => sent # <<>>

StatusInv ==
    /\ Typed /\ Offline /\ Opening /\ Ordered /\ SaysOnline /\ EndsOffline /\ HangsUp
    /\ AbsentIsOffline

-----------------------------------------------------------------------------
(* Sequences.                                                               *)

LEMMA AppendFacts ==
  ASSUME NEW S, NEW s \in Seq(S), NEW e \in S
  PROVE  /\ Append(s, e) \in Seq(S) /\ Append(s, e) # <<>>
         /\ Len(Append(s, e)) = Len(s) + 1 /\ Len(s) \in Nat
         /\ DOMAIN Append(s, e) = 1 .. Len(s) + 1 /\ DOMAIN s = 1 .. Len(s)
         /\ Append(s, e)[Len(s) + 1] = e
         /\ \A i \in DOMAIN s : Append(s, e)[i] = s[i]
  OBVIOUS

LEMMA TailFacts ==
  ASSUME NEW S, NEW s \in Seq(S), s # <<>>
  PROVE  /\ Tail(s) \in Seq(S) /\ Head(s) = s[1] /\ Head(s) \in S
         /\ Len(s) \in Nat /\ Len(s) >= 1 /\ Len(Tail(s)) = Len(s) - 1
         /\ DOMAIN s = 1 .. Len(s) /\ DOMAIN Tail(s) = 1 .. Len(s) - 1
         /\ \A i \in DOMAIN Tail(s) : i + 1 \in DOMAIN s /\ Tail(s)[i] = s[i + 1]
         /\ \A i \in DOMAIN s : i # 1 => i - 1 \in DOMAIN Tail(s) /\ Tail(s)[i - 1] = s[i]
         /\ Tail(s) # <<>> => Len(s) # 1
<1>1. /\ Tail(s) \in Seq(S) /\ Len(Tail(s)) = Len(s) - 1 /\ Head(s) \in S
      /\ \A i \in 1 .. Len(Tail(s)) : Tail(s)[i] = s[i + 1]
  BY HeadTailProperties
<1>2. /\ Len(s) \in Nat /\ Len(s) >= 1 /\ DOMAIN s = 1 .. Len(s)
      /\ DOMAIN Tail(s) = 1 .. Len(Tail(s))
  BY <1>1, LenProperties, EmptySeq
<1>3. Tail(s) # <<>> => Len(s) # 1
  BY <1>1, <1>2, EmptySeq
<1>4. Head(s) = s[1]
  OBVIOUS
<1>5. \A i \in DOMAIN s : i # 1 => i - 1 \in DOMAIN Tail(s) /\ Tail(s)[i - 1] = s[i]
  BY <1>1, <1>2
<1> QED
  BY <1>1, <1>2, <1>3, <1>4, <1>5

LEMMA RemovedFacts ==
  ASSUME NEW S, NEW s \in Seq(S), NEW i \in DOMAIN s
  PROVE  /\ RemoveAt(s, i) \in Seq(S)
         /\ \A j \in DOMAIN RemoveAt(s, i) : \E k \in DOMAIN s : RemoveAt(s, i)[j] = s[k]
<1>1. i \in 1 .. Len(s) /\ Len(s) \in Nat /\ DOMAIN s = 1 .. Len(s)
  BY LenProperties
<1> DEFINE front == SubSeq(s, 1, i - 1)
           back == SubSeq(s, i + 1, Len(s))
<1>2. /\ front \in Seq(S) /\ Len(front) = i - 1
      /\ \A j \in 1 .. i - 1 : front[j] = s[j]
  BY <1>1
<1>3. /\ back \in Seq(S) /\ Len(back) = Len(s) - i
      /\ \A j \in 1 .. Len(s) - i : back[j] = s[j + i]
  BY <1>1
<1> HIDE DEF front, back
<1>4. /\ front \o back \in Seq(S) /\ Len(front \o back) = Len(s) - 1
      /\ \A j \in 1 .. Len(front) + Len(back) :
            (front \o back)[j] = IF j <= Len(front) THEN front[j] ELSE back[j - Len(front)]
  <2>1. Len(front) + Len(back) = Len(s) - 1
    BY <1>1, <1>2, <1>3
  <2> QED
    BY <1>2, <1>3, <2>1, ConcatProperties, Zenon
<1>5. ASSUME NEW j \in DOMAIN (front \o back) PROVE \E k \in DOMAIN s : (front \o back)[j] = s[k]
  <2>1. j \in 1 .. Len(s) - 1
    BY <1>4, LenProperties
  <2>2. CASE j <= i - 1
    <3>1. (front \o back)[j] = s[j] /\ j \in DOMAIN s
      BY <1>1, <1>2, <1>3, <1>4, <2>1, <2>2
    <3> QED
      BY <3>1
  <2>3. CASE ~(j <= i - 1)
    <3>1. /\ j - (i - 1) \in 1 .. Len(s) - i /\ j + 1 \in DOMAIN s
          /\ (j - (i - 1)) + i = j + 1
      BY <1>1, <2>1, <2>3
    <3>2. (front \o back)[j] = back[j - (i - 1)]
      BY <1>1, <1>2, <1>3, <1>4, <2>1, <2>3
    <3>3. (front \o back)[j] = s[j + 1]
      BY <1>3, <3>1, <3>2
    <3> QED
      BY <3>1, <3>3
  <2> QED
    BY <2>2, <2>3
<1> QED
  BY <1>4, <1>5 DEF RemoveAt, front, back

LEMMA AppendToOne ==
  ASSUME NEW x, NEW y
  PROVE  Append(<<x>>, y) = <<x, y>>
<1> DEFINE one == <<x>>
           two == <<x, y>>
<1>1. one \in Seq({x, y}) /\ Len(one) = 1 /\ one[1] = x
  OBVIOUS
<1>2. /\ two \in Seq({x, y}) /\ Len(two) = 2 /\ two[1] = x /\ two[2] = y
      /\ y \in {x, y}
  OBVIOUS
<1> HIDE DEF one, two
<1>3. /\ Append(one, y) \in Seq({x, y}) /\ Len(Append(one, y)) = 2
      /\ Append(one, y)[1] = x /\ Append(one, y)[2] = y
  BY <1>1, <1>2, AppendFacts
<1>4. Append(one, y) = two
  BY <1>2, <1>3, SeqEqual
<1> QED
  BY <1>4 DEF one, two

LEMMA ShortSequences ==
  /\ \A S : <<>> \in Seq(S)
  /\ Append(<<>>, "CONNACK") = <<"CONNACK">> /\ Append(<<>>, "refused") = <<"refused">>
  /\ Append(<<>>, "DISCONNECT") = <<"DISCONNECT">>
  /\ Append(<<"CONNECT">>, "DISCONNECT") = <<"CONNECT", "DISCONNECT">>
  /\ Tail(<<"CONNECT">>) = <<>> /\ Tail(<<"CONNECT", "DISCONNECT">>) = <<"DISCONNECT">>
  /\ <<"CONNECT">> \notin {<<>>, <<"DISCONNECT">>}
  /\ <<"CONNECT", "DISCONNECT">> \notin {<<>>, <<"DISCONNECT">>}
  /\ Head(<<"DISCONNECT">>) # "CONNECT"
  /\ <<"CONNACK">> # <<"refused">> /\ <<"CONNACK">> # <<>> /\ <<"refused">> # <<>>
<1>1. \A S : <<>> \in Seq(S)
  OBVIOUS
<1>2. Append(<<>>, "CONNACK") = <<"CONNACK">> /\ Append(<<>>, "refused") = <<"refused">>
  OBVIOUS
<1>3. Append(<<>>, "DISCONNECT") = <<"DISCONNECT">>
  OBVIOUS
<1>4. Append(<<"CONNECT">>, "DISCONNECT") = <<"CONNECT", "DISCONNECT">>
  BY AppendToOne
<1>5. Tail(<<"CONNECT">>) = <<>> /\ Tail(<<"CONNECT", "DISCONNECT">>) = <<"DISCONNECT">>
  OBVIOUS
<1>6. <<"CONNECT">> \notin {<<>>, <<"DISCONNECT">>}
  OBVIOUS
<1>7. <<"CONNECT", "DISCONNECT">> \notin {<<>>, <<"DISCONNECT">>}
  OBVIOUS
<1>8. Head(<<"DISCONNECT">>) # "CONNECT"
  OBVIOUS
<1>9. <<"CONNACK">> # <<"refused">> /\ <<"CONNACK">> # <<>> /\ <<"refused">> # <<>>
  OBVIOUS
<1> QED
  BY <1>1, <1>2, <1>3, <1>4, <1>5, <1>6, <1>7, <1>8, <1>9

LEMMA PrependFacts ==
  ASSUME NEW S, NEW s \in Seq(S), NEW e \in S
  PROVE  LET p == <<>> \o (<<e>> \o s)
         IN  /\ p \in Seq(S) /\ p # <<>> /\ Len(p) = Len(s) + 1 /\ Len(s) \in Nat
             /\ DOMAIN p = 1 .. Len(s) + 1 /\ DOMAIN s = 1 .. Len(s) /\ p[1] = e
             /\ \A i \in DOMAIN p : i # 1 => i - 1 \in DOMAIN s /\ p[i] = s[i - 1]
<1> DEFINE p == <<e>> \o s
<1>1. <<e>> \in Seq(S) /\ Len(<<e>>) = 1 /\ <<e>>[1] = e
  OBVIOUS
<1>2. Len(s) \in Nat /\ DOMAIN s = 1 .. Len(s)
  BY LenProperties
<1>3. /\ p \in Seq(S) /\ Len(p) = Len(s) + 1
      /\ \A i \in 1 .. Len(s) + 1 : p[i] = IF i <= 1 THEN <<e>>[i] ELSE s[i - 1]
  <2>1. /\ p \in Seq(S) /\ Len(p) = Len(<<e>>) + Len(s)
        /\ \A i \in 1 .. Len(<<e>>) + Len(s) :
              p[i] = IF i <= Len(<<e>>) THEN <<e>>[i] ELSE s[i - Len(<<e>>)]
    BY <1>1, ConcatProperties, Zenon
  <2>2. Len(<<e>>) + Len(s) = Len(s) + 1
    BY <1>1, <1>2
  <2> HIDE DEF p
  <2> QED
    BY <1>1, <2>1, <2>2
<1> HIDE DEF p
<1>4. <<>> \o p = p /\ DOMAIN p = 1 .. Len(p) /\ p # <<>>
  BY <1>2, <1>3, ConcatEmptySeq, LenProperties, EmptySeq
<1>5. p[1] = e
  BY <1>1, <1>2, <1>3
<1>6. \A i \in DOMAIN p : i # 1 => i - 1 \in DOMAIN s /\ p[i] = s[i - 1]
  BY <1>2, <1>3, <1>4
<1> QED
  BY <1>2, <1>3, <1>4, <1>5, <1>6 DEF p

-----------------------------------------------------------------------------
(* One lemma for each step.                                                 *)

LEMMA StartKeeps ==
  ASSUME StatusInv, Start
  PROVE  StatusInv'
<1>1. Typed'
  BY DEF StatusInv, Typed, Start, clientVars, wireVars, brokerVars
<1>2. Offline'
  BY DEF StatusInv, Offline, HangsUp, Start, clientVars, wireVars, brokerVars
<1>3. Opening'
  BY DEF StatusInv, Opening, Start, clientVars, wireVars, brokerVars
<1>4. Ordered'
  BY DEF StatusInv, Ordered, Start, wireVars
<1>5. SaysOnline'
  BY DEF StatusInv, Offline, SaysOnline, Start, clientVars
<1>6. EndsOffline'
  BY DEF StatusInv, EndsOffline, Start
<1>7. HangsUp'
  BY DEF StatusInv, HangsUp, Start
<1>8. AbsentIsOffline'
  BY DEF StatusInv, AbsentIsOffline, Start, brokerVars
<1> QED
  BY <1>1, <1>2, <1>3, <1>4, <1>5, <1>6, <1>7, <1>8 DEF StatusInv

LEMMA StartedKeeps ==
  ASSUME StatusInv, Started
  PROVE  StatusInv'
<1>1. Typed'
  BY DEF StatusInv, Typed, Started, clientVars, wireVars, brokerVars
<1>2. Offline'
  BY DEF StatusInv, Offline, Started, clientVars, wireVars, brokerVars
<1>3. Opening'
  BY DEF StatusInv, Opening, Started, clientVars, wireVars, brokerVars
<1>4. Ordered'
  BY DEF StatusInv, Ordered, Started, wireVars, brokerVars
<1>5. SaysOnline'
  BY DEF StatusInv, SaysOnline, Started, clientVars, wireVars, brokerVars
<1>6. EndsOffline'
  BY DEF StatusInv, Typed, Offline, Opening, EndsOffline, Started, wireVars, brokerVars
<1>7. HangsUp'
  BY DEF StatusInv, HangsUp, Started
<1>8. AbsentIsOffline'
  BY DEF StatusInv, AbsentIsOffline, Started, brokerVars
<1> QED
  BY <1>1, <1>2, <1>3, <1>4, <1>5, <1>6, <1>7, <1>8 DEF StatusInv

LEMMA StopKeeps ==
  ASSUME StatusInv, Stop
  PROVE  StatusInv'
<1>1. /\ sent \in Seq(Packets) /\ unacked \in Seq(Words)
      /\ answers \in Seq(Words \cup {"CONNACK", "refused"})
  BY DEF StatusInv, Typed
<1>2. /\ Append(sent, "offline") \in Seq(Packets) /\ Append(sent, "offline") # <<>>
      /\ DOMAIN Append(sent, "offline") = 1 .. Len(sent) + 1 /\ DOMAIN sent = 1 .. Len(sent)
      /\ Append(sent, "offline")[Len(sent) + 1] = "offline" /\ Len(sent) \in Nat
      /\ \A i \in DOMAIN sent : Append(sent, "offline")[i] = sent[i]
  BY <1>1, AppendFacts DEF Packets, Words
<1>3. Append(unacked, "offline") \in Seq(Words)
  BY <1>1, AppendFacts DEF Words
<1>4. Typed'
  BY <1>2, <1>3 DEF StatusInv, Typed, Stop, Leave, brokerVars
<1>5. Offline'
  BY DEF StatusInv, Offline, Stop, Leave, brokerVars
<1>6. Opening'
  BY DEF StatusInv, Opening, Stop, Leave, brokerVars
<1>7. Ordered'
  <2>1. \A i \in DOMAIN sent :
          sent[i] # "DISCONNECT" /\ (sent[i] = "CONNECT" => i = 1 /\ session # "live")
    BY DEF StatusInv, Ordered, Stop, Leave
  <2>2. session' = session /\ sent' \in {sent, Append(sent, "offline")}
    BY DEF Stop, Leave, brokerVars
  <2>3. \A i \in DOMAIN Append(sent, "offline") :
          i \in DOMAIN sent \/ Append(sent, "offline")[i] = "offline"
    BY <1>2
  <2> QED
    BY <1>2, <2>1, <2>2, <2>3 DEF Ordered
<1>8. SaysOnline'
  BY DEF StatusInv, SaysOnline, Stop, Leave
<1>9. EndsOffline'
  BY <1>3 DEF StatusInv, Typed, Offline, Opening, SaysOnline, EndsOffline, HangsUp,
         AbsentIsOffline, Stop, Leave, brokerVars
<1>10. HangsUp'
  BY DEF StatusInv, HangsUp, Stop, Leave
<1>11. AbsentIsOffline'
  BY DEF StatusInv, AbsentIsOffline, Stop, Leave, brokerVars
<1> QED
  BY <1>4, <1>5, <1>6, <1>7, <1>8, <1>9, <1>10, <1>11 DEF StatusInv

LEMMA WaitedKeeps ==
  ASSUME StatusInv, Waited
  PROVE  StatusInv'
<1>1. Typed'
  BY DEF StatusInv, Typed, Waited, clientVars, wireVars, brokerVars
<1>2. Offline'
  BY DEF StatusInv, Offline, Waited, clientVars, wireVars, brokerVars
<1>3. Opening'
  BY DEF StatusInv, Opening, Waited, clientVars, wireVars, brokerVars
<1>4. Ordered'
  BY DEF StatusInv, Ordered, Waited, wireVars, brokerVars
<1>5. SaysOnline'
  BY DEF StatusInv, SaysOnline, Waited
<1>6. EndsOffline'
  BY DEF StatusInv, EndsOffline, Waited, wireVars, brokerVars
<1>7. HangsUp'
  BY DEF StatusInv, HangsUp, Waited
<1>8. AbsentIsOffline'
  BY DEF StatusInv, AbsentIsOffline, Waited, brokerVars
<1> QED
  BY <1>1, <1>2, <1>3, <1>4, <1>5, <1>6, <1>7, <1>8 DEF StatusInv

LEMMA DisconnectKeeps ==
  ASSUME StatusInv, Disconnect
  PROVE  StatusInv'
<1>1. /\ sent \in Seq(Packets) /\ unacked \in Seq(Words)
      /\ answers \in Seq(Words \cup {"CONNACK", "refused"})
  BY DEF StatusInv, Typed
<1>2. /\ Append(sent, "DISCONNECT") \in Seq(Packets) /\ Append(sent, "DISCONNECT") # <<>>
      /\ DOMAIN Append(sent, "DISCONNECT") = 1 .. Len(sent) + 1 /\ DOMAIN sent = 1 .. Len(sent)
      /\ Len(Append(sent, "DISCONNECT")) = Len(sent) + 1
      /\ Append(sent, "DISCONNECT")[Len(sent) + 1] = "DISCONNECT" /\ Len(sent) \in Nat
      /\ \A i \in DOMAIN sent : Append(sent, "DISCONNECT")[i] = sent[i]
  BY <1>1, AppendFacts DEF Packets
<1>3. Typed'
  BY <1>2 DEF StatusInv, Typed, Disconnect, clientVars, brokerVars
<1>4. Offline'
  BY DEF StatusInv, Offline, Disconnect, clientVars, brokerVars
<1>5. Opening'
  <2> SUFFICES ASSUME link = "opening" PROVE Opening'
    BY DEF Opening, Disconnect, clientVars
  <2>1. sent \in {<<>>, <<"CONNECT">>} /\ (answers # <<>> => sent = <<>>)
    BY ShortSequences DEF StatusInv, Opening, Disconnect
  <2>2. sent' = Append(sent, "DISCONNECT")
    BY DEF Disconnect
  <2>3. /\ sent' \in {<<"DISCONNECT">>, <<"CONNECT", "DISCONNECT">>}
        /\ answers # <<>> => sent' = <<"DISCONNECT">>
    BY <2>1, <2>2, ShortSequences
  <2> QED
    BY <2>3 DEF StatusInv, Opening, Disconnect, clientVars, brokerVars
<1>6. Ordered'
  BY DEF StatusInv, Ordered, Disconnect, brokerVars
<1>7. SaysOnline'
  BY DEF StatusInv, SaysOnline, Disconnect
<1>8. EndsOffline'
  BY <1>2 DEF StatusInv, EndsOffline, Disconnect, brokerVars
<1>9. HangsUp'
  BY <1>2 DEF StatusInv, Typed, Offline, HangsUp, Disconnect, brokerVars
<1>10. AbsentIsOffline'
  BY DEF StatusInv, AbsentIsOffline, Disconnect, brokerVars
<1> QED
  BY <1>3, <1>4, <1>5, <1>6, <1>7, <1>8, <1>9, <1>10 DEF StatusInv

LEMMA ExitKeeps ==
  ASSUME StatusInv, Exit
  PROVE  StatusInv'
<1>1. Typed'
  BY ShortSequences DEF StatusInv, Typed, Exit, Forget, brokerVars
<1>2. Offline'
  BY DEF StatusInv, Offline, Exit, Forget
<1>3. Opening'
  BY DEF StatusInv, Opening, Exit, Forget
<1>4. Ordered'
  BY DEF StatusInv, Ordered, Exit, Forget, brokerVars
<1>5. SaysOnline'
  BY DEF StatusInv, SaysOnline, Exit, Forget
<1>6. EndsOffline'
  BY DEF StatusInv, EndsOffline, Exit, Forget, brokerVars
<1>7. HangsUp'
  BY DEF StatusInv, HangsUp, Exit, Forget, brokerVars
<1>8. AbsentIsOffline'
  BY DEF StatusInv, AbsentIsOffline, Exit, Forget, brokerVars
<1> QED
  BY <1>1, <1>2, <1>3, <1>4, <1>5, <1>6, <1>7, <1>8 DEF StatusInv

LEMMA DieKeeps ==
  ASSUME StatusInv, Die
  PROVE  StatusInv'
<1>1. Typed'
  BY ShortSequences DEF StatusInv, Typed, Die, Forget
<1>2. Offline'
  BY DEF StatusInv, Offline, Die, Forget
<1>3. Opening'
  BY DEF StatusInv, Opening, Die, Forget
<1>4. Ordered'
  BY DEF StatusInv, Ordered, Die, Forget
<1>5. SaysOnline'
  BY DEF StatusInv, SaysOnline, Die, Forget
<1>6. EndsOffline'
  BY DEF StatusInv, EndsOffline, Die, Forget
<1>7. HangsUp'
  BY DEF StatusInv, HangsUp, Die, Forget
<1>8. AbsentIsOffline'
  BY DEF StatusInv, AbsentIsOffline, Die, Forget
<1> QED
  BY <1>1, <1>2, <1>3, <1>4, <1>5, <1>6, <1>7, <1>8 DEF StatusInv

LEMMA ConnectKeeps ==
  ASSUME StatusInv, Connect
  PROVE  StatusInv'
<1>1. Typed'
  BY DEF StatusInv, Typed, Packets, Connect, brokerVars
<1>2. Offline'
  BY DEF StatusInv, Offline, Connect, Up
<1>3. Opening'
  BY DEF StatusInv, Offline, Opening, Connect, Up, brokerVars
<1>4. Ordered'
  BY DEF StatusInv, Offline, Ordered, Connect, Up, brokerVars
<1>5. SaysOnline'
  BY DEF StatusInv, SaysOnline, Connect
<1>6. EndsOffline'
  BY DEF StatusInv, Offline, EndsOffline, Connect, Up, brokerVars
<1>7. HangsUp'
  BY DEF StatusInv, HangsUp, Connect, Up
<1>8. AbsentIsOffline'
  BY DEF StatusInv, AbsentIsOffline, Connect, brokerVars
<1> QED
  BY <1>1, <1>2, <1>3, <1>4, <1>5, <1>6, <1>7, <1>8 DEF StatusInv

LEMMA OnConnectKeeps ==
  ASSUME StatusInv, OnConnect
  PROVE  StatusInv'
<1>1. /\ sent \in Seq(Packets) /\ unacked \in Seq(Words)
      /\ answers \in Seq(Words \cup {"CONNACK", "refused"})
  BY DEF StatusInv, Typed
<1>2. sent = <<>>
  BY DEF StatusInv, Opening, OnConnect, ConnectedWith
<1> DEFINE p == <<>> \o (<<"online">> \o unacked)
<1>3. sent' = p
  BY <1>2 DEF OnConnect, ConnectedWith
<1>4. unacked \in Seq(Packets)
  BY <1>1, SeqMonotonic DEF Packets
<1>5. /\ p \in Seq(Packets) /\ p # <<>> /\ Len(unacked) \in Nat
      /\ DOMAIN p = 1 .. Len(unacked) + 1 /\ DOMAIN unacked = 1 .. Len(unacked) /\ p[1] = "online"
      /\ \A i \in DOMAIN p : i # 1 => i - 1 \in DOMAIN unacked /\ p[i] = unacked[i - 1]
  BY <1>4, PrependFacts DEF Packets, Words
<1>6. \A i \in DOMAIN unacked : unacked[i] \in Words
  BY <1>1, ElementOfSeq, LenProperties
<1>7. /\ Append(unacked, "online") \in Seq(Words)
      /\ DOMAIN Append(unacked, "online") = 1 .. Len(unacked) + 1
      /\ Append(unacked, "online")[Len(unacked) + 1] = "online"
      /\ \A i \in DOMAIN unacked : Append(unacked, "online")[i] = unacked[i]
  BY <1>1, AppendFacts DEF Words
<1>8. Tail(answers) \in Seq(Words \cup {"CONNACK", "refused"})
  BY <1>1, TailFacts DEF OnConnect, ConnectedWith
<1> HIDE DEF p
<1>9. Typed'
  BY <1>4, <1>5, <1>7 DEF StatusInv, Typed, OnConnect, ConnectedWith, brokerVars
<1>10. Offline'
  BY DEF StatusInv, Offline, OnConnect, ConnectedWith
<1>11. Opening'
  BY DEF StatusInv, Opening, OnConnect, ConnectedWith
<1>12. Ordered'
  <2>1. \A i \in DOMAIN p : p[i] \in Words
    BY <1>5, <1>6 DEF Words
  <2> QED
    BY <1>3, <2>1 DEF Ordered, Words
<1>13. SaysOnline'
  BY <1>2 DEF StatusInv, SaysOnline, OnConnect, ConnectedWith
<1>14. EndsOffline'
  <2> SUFFICES ASSUME ~late', main \notin {"starting", "running"} PROVE EndsOffline'
    BY DEF EndsOffline, OnConnect, ConnectedWith
  <2>1. unacked # <<>> /\ unacked[Len(unacked)] # "online"
    BY DEF StatusInv, Typed, Offline, OnConnect, ConnectedWith, Unanswered, Last
  <2>2. Len(unacked) >= 1 /\ Len(unacked) \in DOMAIN unacked
    BY <1>1, <2>1, EmptySeq, LenProperties
  <2>3. unacked[Len(unacked)] = "offline"
    BY <1>6, <2>1, <2>2 DEF Words
  <2>4. Len(unacked) + 1 \in DOMAIN p /\ p[Len(unacked) + 1] = "offline"
    BY <1>5, <2>2, <2>3
  <2>5. \A j \in DOMAIN p : p[j] = "online" => Len(unacked) + 1 > j
    BY <1>5, <2>4
  <2> QED
    BY <1>3, <2>4, <2>5 DEF EndsOffline
<1>15. HangsUp'
  BY DEF StatusInv, Opening, HangsUp, OnConnect, ConnectedWith
<1>16. AbsentIsOffline'
  BY DEF StatusInv, Opening, AbsentIsOffline, OnConnect, ConnectedWith, brokerVars
<1> QED
  BY <1>9, <1>10, <1>11, <1>12, <1>13, <1>14, <1>15, <1>16 DEF StatusInv

LEMMA OnRefusedKeeps ==
  ASSUME StatusInv, OnRefused
  PROVE  StatusInv'
<1>1. Typed'
  BY ShortSequences DEF StatusInv, Typed, OnRefused, brokerVars
<1>2. Offline'
  BY DEF StatusInv, Offline, Opening, OnRefused, brokerVars
<1>3. Opening'
  BY DEF StatusInv, Opening, OnRefused
<1>4. Ordered'
  BY DEF StatusInv, Ordered, OnRefused
<1>5. SaysOnline'
  BY DEF StatusInv, SaysOnline, OnRefused
<1>6. EndsOffline'
  BY DEF StatusInv, Opening, EndsOffline, OnRefused, brokerVars
<1>7. HangsUp'
  BY DEF StatusInv, Opening, HangsUp, OnRefused, brokerVars
<1>8. AbsentIsOffline'
  BY DEF StatusInv, AbsentIsOffline, OnRefused, brokerVars
<1> QED
  BY <1>1, <1>2, <1>3, <1>4, <1>5, <1>6, <1>7, <1>8 DEF StatusInv

LEMMA OnPubackKeeps ==
  ASSUME StatusInv, OnPuback
  PROVE  StatusInv'
<1>1. /\ sent \in Seq(Packets) /\ unacked \in Seq(Words)
      /\ answers \in Seq(Words \cup {"CONNACK", "refused"})
  BY DEF StatusInv, Typed
<1>2. /\ unacked' \in Seq(Words)
      /\ \A j \in DOMAIN unacked' : \E k \in DOMAIN unacked : unacked'[j] = unacked[k]
  BY <1>1, RemovedFacts DEF OnPuback
<1>3. Tail(answers) \in Seq(Words \cup {"CONNACK", "refused"})
  BY <1>1, TailFacts DEF OnPuback
<1>4. Typed'
  BY <1>2 DEF StatusInv, Typed, OnPuback, brokerVars
<1>5. Offline'
  BY DEF StatusInv, Offline, OnPuback
<1>6. Opening'
  BY DEF StatusInv, Opening, OnPuback
<1>7. Ordered'
  BY DEF StatusInv, Ordered, OnPuback, brokerVars
<1>8. SaysOnline'
  BY <1>2 DEF StatusInv, SaysOnline, OnPuback, brokerVars
<1>9. EndsOffline'
  BY DEF StatusInv, EndsOffline, OnPuback, brokerVars
<1>10. HangsUp'
  BY DEF StatusInv, HangsUp, OnPuback, brokerVars
<1>11. AbsentIsOffline'
  BY DEF StatusInv, AbsentIsOffline, OnPuback, brokerVars
<1> QED
  BY <1>4, <1>5, <1>6, <1>7, <1>8, <1>9, <1>10, <1>11 DEF StatusInv

LEMMA LinkBreaksKeeps ==
  ASSUME StatusInv, LinkBreaks
  PROVE  StatusInv'
<1>1. Typed'
  BY DEF StatusInv, Typed, LinkBreaks
<1>2. Offline'
  BY DEF StatusInv, Offline, LinkBreaks
<1>3. Opening'
  BY DEF StatusInv, Opening, LinkBreaks
<1>4. Ordered'
  BY DEF StatusInv, Ordered, LinkBreaks
<1>5. SaysOnline'
  BY DEF StatusInv, SaysOnline, LinkBreaks
<1>6. EndsOffline'
  BY DEF StatusInv, EndsOffline, LinkBreaks
<1>7. HangsUp'
  BY DEF StatusInv, HangsUp, LinkBreaks
<1>8. AbsentIsOffline'
  BY DEF StatusInv, AbsentIsOffline, LinkBreaks
<1> QED
  BY <1>1, <1>2, <1>3, <1>4, <1>5, <1>6, <1>7, <1>8 DEF StatusInv

LEMMA OnDisconnectKeeps ==
  ASSUME StatusInv, OnDisconnect
  PROVE  StatusInv'
<1>1. Typed'
  BY DEF StatusInv, Typed, OnDisconnect, wireVars, brokerVars
<1>2. Offline'
  BY DEF StatusInv, Offline, OnDisconnect, wireVars, brokerVars
<1>3. Opening'
  BY DEF StatusInv, Opening, OnDisconnect
<1>4. Ordered'
  BY DEF StatusInv, Ordered, OnDisconnect, wireVars, brokerVars
<1>5. SaysOnline'
  BY DEF StatusInv, SaysOnline, OnDisconnect
<1>6. EndsOffline'
  BY DEF StatusInv, EndsOffline, OnDisconnect, wireVars, brokerVars
<1>7. HangsUp'
  BY DEF StatusInv, HangsUp, OnDisconnect, wireVars, brokerVars
<1>8. AbsentIsOffline'
  BY DEF StatusInv, AbsentIsOffline, OnDisconnect, brokerVars
<1> QED
  BY <1>1, <1>2, <1>3, <1>4, <1>5, <1>6, <1>7, <1>8 DEF StatusInv

LEMMA BrokerConnectsKeeps ==
  ASSUME StatusInv, BrokerConnects
  PROVE  StatusInv'
<1>1. /\ sent \in Seq(Packets) /\ unacked \in Seq(Words)
      /\ answers \in Seq(Words \cup {"CONNACK", "refused"})
  BY DEF StatusInv, Typed
<1>2. /\ Tail(sent) \in Seq(Packets) /\ Head(sent) = sent[1] /\ Len(sent) \in Nat /\ Len(sent) >= 1
      /\ Len(Tail(sent)) = Len(sent) - 1
      /\ DOMAIN sent = 1 .. Len(sent) /\ DOMAIN Tail(sent) = 1 .. Len(sent) - 1
      /\ \A i \in DOMAIN Tail(sent) : i + 1 \in DOMAIN sent /\ Tail(sent)[i] = sent[i + 1]
      /\ \A i \in DOMAIN sent :
            i # 1 => i - 1 \in DOMAIN Tail(sent) /\ Tail(sent)[i - 1] = sent[i]
      /\ Tail(sent) # <<>> => Len(sent) # 1
  BY <1>1, TailFacts DEF BrokerConnects
<1>3. answers' \in Seq(Words \cup {"CONNACK", "refused"})
  <2>1. /\ Append(answers, "CONNACK") \in Seq(Words \cup {"CONNACK", "refused"})
        /\ Append(answers, "refused") \in Seq(Words \cup {"CONNACK", "refused"})
    BY <1>1, AppendFacts
  <2>2. answers' \in {Append(answers, "CONNACK"), Append(answers, "refused")}
    BY DEF BrokerConnects
  <2> QED
    BY <2>1, <2>2
<1>4. Typed'
  BY <1>3 DEF StatusInv, Typed, Words, BrokerConnects, clientVars, brokerVars
<1>5. Offline'
  BY DEF StatusInv, Offline, BrokerConnects, clientVars
<1>6. Opening'
  <2> SUFFICES ASSUME link = "opening" PROVE Opening'
    BY DEF Opening, BrokerConnects, clientVars
  <2>1. /\ sent \in {<<"CONNECT">>, <<"CONNECT", "DISCONNECT">>} /\ answers = <<>>
        /\ main # "left" => sent = <<"CONNECT">>
    BY ShortSequences DEF StatusInv, Opening, BrokerConnects
  <2>2. /\ sent' \in {<<>>, <<"DISCONNECT">>} /\ (main # "left" => sent' = <<>>)
    <3>1. sent' = Tail(sent)
      BY DEF BrokerConnects
    <3> QED
      BY <2>1, <3>1, ShortSequences
  <2>3. session # "live"
    BY <1>2 DEF StatusInv, Ordered, BrokerConnects
  <2>4. \/ /\ answers' = <<"CONNACK">> /\ session' = "live"
           /\ status' = IF session = "none" THEN status ELSE "offline"
        \/ answers' = <<"refused">> /\ UNCHANGED <<session, status>>
    BY <2>1, ShortSequences DEF BrokerConnects, brokerVars
  <2>5. session' = "live" /\ ~late' => status' = "offline"
    BY <2>3, <2>4 DEF StatusInv, AbsentIsOffline, BrokerConnects
  <2>6. main' = main /\ link' = link
    BY DEF BrokerConnects, clientVars
  <2> QED
    BY <2>2, <2>3, <2>4, <2>5, <2>6, ShortSequences DEF Opening
<1>7. Ordered'
  BY <1>1 DEF StatusInv, Ordered, BrokerConnects, clientVars
<1>8. SaysOnline'
  BY <1>1 DEF StatusInv, Opening, Ordered, SaysOnline, HangsUp, BrokerConnects, clientVars
<1>9. EndsOffline'
  <2> SUFFICES ASSUME ~late', main \notin {"starting", "running"} PROVE EndsOffline'
    BY DEF EndsOffline, BrokerConnects
  <2>1. ~late /\ sent[1] = "CONNECT" /\ sent' = Tail(sent) /\ session # "live"
    BY <1>2 DEF StatusInv, Ordered, BrokerConnects
  <2>2. session' = "live" => status' = "offline"
    BY <2>1 DEF StatusInv, AbsentIsOffline, BrokerConnects, brokerVars
  <2>3. ASSUME NEW j \in DOMAIN Tail(sent), Tail(sent)[j] = "online"
        PROVE  \E k \in DOMAIN Tail(sent) : k > j /\ Tail(sent)[k] = "offline"
    <3>1. PICK k \in DOMAIN sent : k > j + 1 /\ sent[k] = "offline"
      BY <1>2, <2>1, <2>3 DEF StatusInv, EndsOffline
    <3>2. k - 1 \in DOMAIN Tail(sent) /\ k - 1 > j /\ Tail(sent)[k - 1] = "offline"
      BY <1>2, <2>3, <3>1
    <3> QED
      BY <3>2
  <2> QED
    BY <2>1, <2>2, <2>3 DEF EndsOffline
<1>10. HangsUp'
  BY <1>2 DEF StatusInv, Words, Packets, Offline, Opening, Ordered, SaysOnline, HangsUp,
         BrokerConnects, Fault
<1>11. AbsentIsOffline'
  BY DEF StatusInv, AbsentIsOffline, BrokerConnects, brokerVars
<1> QED
  BY <1>4, <1>5, <1>6, <1>7, <1>8, <1>9, <1>10, <1>11 DEF StatusInv

LEMMA BrokerRetainsKeeps ==
  ASSUME StatusInv, BrokerRetains
  PROVE  StatusInv'
<1>1. /\ sent \in Seq(Packets) /\ unacked \in Seq(Words)
      /\ answers \in Seq(Words \cup {"CONNACK", "refused"})
  BY DEF StatusInv, Typed
<1>2. /\ Tail(sent) \in Seq(Packets) /\ Head(sent) = sent[1] /\ Len(sent) \in Nat /\ Len(sent) >= 1
      /\ Len(Tail(sent)) = Len(sent) - 1
      /\ DOMAIN sent = 1 .. Len(sent) /\ DOMAIN Tail(sent) = 1 .. Len(sent) - 1
      /\ \A i \in DOMAIN Tail(sent) : i + 1 \in DOMAIN sent /\ Tail(sent)[i] = sent[i + 1]
      /\ \A i \in DOMAIN sent :
            i # 1 => i - 1 \in DOMAIN Tail(sent) /\ Tail(sent)[i - 1] = sent[i]
      /\ Tail(sent) # <<>> => Len(sent) # 1
  BY <1>1, TailFacts DEF BrokerRetains
<1>3. answers' \in Seq(Words \cup {"CONNACK", "refused"})
  BY <1>1, AppendFacts DEF BrokerRetains, Words
<1>4. Typed'
  BY <1>3 DEF StatusInv, Typed, BrokerRetains, clientVars
<1>5. Offline'
  BY DEF StatusInv, Offline, BrokerRetains, clientVars
<1>6. Opening'
  BY DEF StatusInv, Opening, BrokerRetains, clientVars
<1>7. Ordered'
  BY <1>1 DEF StatusInv, Typed, Ordered, BrokerRetains
<1>8. SaysOnline'
  BY DEF StatusInv, Typed, SaysOnline, BrokerRetains, clientVars
<1>9. EndsOffline'
  <2> SUFFICES ASSUME ~late', main \notin {"starting", "running"} PROVE EndsOffline'
    BY DEF EndsOffline, BrokerRetains
  <2>1. /\ ~late /\ sent' = Tail(sent) /\ session' = session
        /\ sent[1] \in {"online", "offline"} /\ status' = sent[1]
    BY <1>2 DEF BrokerRetains
  <2>2. ASSUME NEW j \in DOMAIN sent, sent[j] = "online"
        PROVE  \E k \in DOMAIN Tail(sent) : k + 1 > j /\ Tail(sent)[k] = "offline"
    <3>1. PICK k \in DOMAIN sent : k > j /\ sent[k] = "offline"
      BY <2>1, <2>2 DEF StatusInv, EndsOffline
    <3>2. k - 1 \in DOMAIN Tail(sent) /\ (k - 1) + 1 > j /\ Tail(sent)[k - 1] = "offline"
      BY <1>2, <2>2, <3>1
    <3> QED
      BY <3>2
  <2>3. status' = "online" => \E k \in DOMAIN Tail(sent) : Tail(sent)[k] = "offline"
    <3>1. 1 \in DOMAIN sent
      BY <1>2
    <3> QED
      BY <2>1, <2>2, <3>1
  <2>4. ASSUME NEW j \in DOMAIN Tail(sent), Tail(sent)[j] = "online"
        PROVE  \E k \in DOMAIN Tail(sent) : k > j /\ Tail(sent)[k] = "offline"
    <3>1. j + 1 \in DOMAIN sent /\ sent[j + 1] = "online"
      BY <1>2, <2>4
    <3>2. PICK k \in DOMAIN Tail(sent) : k + 1 > j + 1 /\ Tail(sent)[k] = "offline"
      BY <2>2, <3>1
    <3> QED
      BY <1>2, <2>4, <3>2
  <2> QED
    BY <2>1, <2>3, <2>4 DEF EndsOffline
<1>10. HangsUp'
  BY <1>2, <1>3 DEF StatusInv, Words, SaysOnline, HangsUp, AbsentIsOffline, BrokerRetains,
         clientVars
<1>11. AbsentIsOffline'
  BY DEF StatusInv, AbsentIsOffline, BrokerRetains
<1> QED
  BY <1>4, <1>5, <1>6, <1>7, <1>8, <1>9, <1>10, <1>11 DEF StatusInv

LEMMA BrokerDisconnectsKeeps ==
  ASSUME StatusInv, BrokerDisconnects
  PROVE  StatusInv'
<1>1. Typed'
  BY DEF StatusInv, Typed, BrokerDisconnects, clientVars
<1>2. Offline'
  BY DEF StatusInv, Offline, BrokerDisconnects, clientVars
<1>3. Opening'
  BY DEF StatusInv, Opening, BrokerDisconnects, clientVars
<1>4. Ordered'
  BY DEF StatusInv, Ordered, BrokerDisconnects
<1>5. SaysOnline'
  BY DEF StatusInv, SaysOnline, BrokerDisconnects, clientVars
<1>6. EndsOffline'
  BY DEF StatusInv, EndsOffline, BrokerDisconnects
<1>7. HangsUp'
  BY DEF StatusInv, HangsUp, BrokerDisconnects
<1>8. AbsentIsOffline'
  BY DEF StatusInv, Typed, Words, Ordered, EndsOffline, AbsentIsOffline, BrokerDisconnects
<1> QED
  BY <1>1, <1>2, <1>3, <1>4, <1>5, <1>6, <1>7, <1>8 DEF StatusInv

LEMMA BrokerNoticesKeeps ==
  ASSUME StatusInv, BrokerNotices
  PROVE  StatusInv'
<1>1. Typed'
  BY DEF StatusInv, Typed, Words, BrokerNotices, clientVars, wireVars
<1>2. Offline'
  BY DEF StatusInv, Offline, BrokerNotices, clientVars, wireVars
<1>3. Opening'
  BY DEF StatusInv, Opening, BrokerNotices, clientVars, wireVars
<1>4. Ordered'
  BY DEF StatusInv, Ordered, BrokerNotices, wireVars
<1>5. SaysOnline'
  BY DEF StatusInv, SaysOnline, BrokerNotices, clientVars, wireVars
<1>6. EndsOffline'
  BY DEF StatusInv, EndsOffline, BrokerNotices, wireVars
<1>7. HangsUp'
  BY DEF StatusInv, HangsUp, BrokerNotices, wireVars
<1>8. AbsentIsOffline'
  BY DEF StatusInv, AbsentIsOffline, BrokerNotices
<1> QED
  BY <1>1, <1>2, <1>3, <1>4, <1>5, <1>6, <1>7, <1>8 DEF StatusInv

-----------------------------------------------------------------------------
(* The specification.                                                       *)

LEMMA QuietIsStatusInv ==
  ASSUME Quiet
  PROVE  StatusInv
<1>1. Typed
  BY ShortSequences DEF Quiet, Typed, Words
<1>2. Offline /\ Opening /\ Ordered /\ SaysOnline /\ EndsOffline /\ HangsUp /\ AbsentIsOffline
  BY DEF Quiet, Offline, Opening, Ordered, SaysOnline, EndsOffline, HangsUp, AbsentIsOffline
<1> QED
  BY <1>1, <1>2 DEF StatusInv

\* What the invariant speaks of: all variables but the bounds and the disk cache.
statusVars == <<main, clientVars, wireVars, brokerVars, late>>

\* The steps of the gateway, the network and the broker, whoever starts or stops them.
LEMMA StepKeeps ==
  ASSUME StatusInv,
         \/ Start \/ Stop \/ Die \/ Main \/ Network \/ Broker \/ LinkBreaks
         \/ UNCHANGED statusVars
  PROVE  StatusInv'
<1>1. CASE UNCHANGED statusVars
  BY <1>1 DEF statusVars, clientVars, wireVars, brokerVars, StatusInv, Typed, Offline, Opening,
         Ordered, SaysOnline, EndsOffline, HangsUp, AbsentIsOffline
<1>2. CASE Main
  BY <1>2, StartedKeeps, WaitedKeeps, DisconnectKeeps, ExitKeeps DEF Main
<1>3. CASE Network
  BY <1>3, ConnectKeeps, OnConnectKeeps, OnRefusedKeeps, OnPubackKeeps, OnDisconnectKeeps
     DEF Network
<1>4. CASE Broker
  BY <1>4, BrokerConnectsKeeps, BrokerRetainsKeeps, BrokerDisconnectsKeeps, BrokerNoticesKeeps
     DEF Broker
<1> QED
  BY <1>1, <1>2, <1>3, <1>4, StartKeeps, StopKeeps, DieKeeps, LinkBreaksKeeps

LEMMA SettledByInv == StatusInv => SettledIsOnline
  BY DEF StatusInv, SaysOnline, SettledIsOnline

\* For any number of faults and processes: a gateway that the broker knows nothing of any
\* more is not shown as available, unless on_connect came too late for the shutdown to
\* answer it (cli.py:766, 1008-1011); and one whose connection has settled is shown as
\* available although its predecessor's will may have been published since (cli.py:747-756).
THEOREM StatusIsTrue == Spec => [](AbsentIsOffline /\ SettledIsOnline)
<1>1. Init => StatusInv
  BY QuietIsStatusInv DEF Init
<1>2. StatusInv /\ [Next]_vars => StatusInv'
  BY StepKeeps DEF Next, Crash, vars, statusVars
<1>3. StatusInv => AbsentIsOffline /\ SettledIsOnline
  BY SettledByInv DEF StatusInv
<1> QED
  BY <1>1, <1>2, <1>3, PTL DEF Spec

-----------------------------------------------------------------------------
(* The service.                                                             *)

\* Where a child can be alive, and what a stopped service means for the wrapper.
ChildHasWrapper ==
    windows =>
    /\ Up => wrapper \in {"watching", "ending", "waiting"} \/ overdue
    /\ service = "stopped" => wrapper = "none"

\* Configurations are numbered in the order they are saved.
SavesOrdered ==
    /\ file \in Nat /\ loaded \in Nat /\ confirmed \in Nat /\ confirmed <= file
    /\ mine \in [Editors -> Nat] /\ \A e \in Editors : mine[e] <= file

ServiceInv == ChildHasWrapper /\ SavesOrdered /\ ConfirmedIsLoaded

-----------------------------------------------------------------------------
\* Only Start brings a process up.
LEMMA OnlyStartRaises ==
    Stop \/ Crash \/ Die \/ Main \/ Network \/ Broker \/ LinkBreaks => (Up' => Up)
<1>1. Stop => (Up' => Up)
  BY DEF Stop, Leave, Up
<1>2. Crash \/ Die => (Up' => Up)
  BY DEF Crash, Die, Up
<1>3. Main => (Up' => Up)
  BY DEF Main, Started, Waited, Disconnect, Exit, Forget, Up
<1>4. Network => (Up' => Up)
  BY DEF Network, Connect, OnConnect, ConnectedWith, OnRefused, OnPuback, OnDisconnect, Up
<1>5. Broker => (Up' => Up)
  BY DEF Broker, BrokerConnects, BrokerRetains, BrokerDisconnects, BrokerNotices, Up
<1>6. LinkBreaks => (Up' => Up)
  BY DEF LinkBreaks, Up
<1> QED
  BY <1>1, <1>2, <1>3, <1>4, <1>5, <1>6

\* What leaves the service alone and raises no process preserves the invariant.
LEMMA GatewayStep ==
    ASSUME ServiceInv, UNCHANGED serviceVars, Up' => Up
    PROVE  ServiceInv'
  BY DEF ServiceInv, ChildHasWrapper, SavesOrdered, ConfirmedIsLoaded, serviceVars,
         wrapperVars, editorVars

LEMMA InitServiceInv == ServiceInit => ServiceInv
<1> SUFFICES ASSUME ServiceInit PROVE ServiceInv
  OBVIOUS
<1>1. ChildHasWrapper
  BY DEF ServiceInit, Quiet, ChildHasWrapper, Up
<1>2. SavesOrdered
  BY DEF ServiceInit, SavesOrdered
<1>3. ConfirmedIsLoaded
  BY DEF ServiceInit, ConfirmedIsLoaded
<1> QED
  BY <1>1, <1>2, <1>3 DEF ServiceInv

LEMMA NextServiceInv == ServiceInv /\ [ServiceNext]_allVars => ServiceInv'
<1> SUFFICES ASSUME ServiceInv, [ServiceNext]_allVars PROVE ServiceInv'
  OBVIOUS
<1> USE DEF ServiceInv, ChildHasWrapper, SavesOrdered, ConfirmedIsLoaded
<1>1. CASE /\ OtherManager \/ Crash \/ Main \/ Network \/ Broker \/ LinkBreaks
           /\ UNCHANGED serviceVars
  <2>1. CASE OtherManager
    <3>1. ~windows /\ ~windows'
      BY <1>1, <2>1 DEF OtherManager, serviceVars
    <3> QED
      BY <1>1, <3>1 DEF serviceVars, editorVars
  <2>2. CASE ~OtherManager
    BY <1>1, <2>2, OnlyStartRaises, GatewayStep
  <2> QED
    BY <2>1, <2>2
<1>2. CASE ScStart
  <2>1. /\ windows /\ service = "stopped" /\ service' = "start_pending"
        /\ UNCHANGED <<main, windows, overdue, loaded, file, mine, confirmed>>
    BY <1>2 DEF ScStart, Launch, vars, editorVars
  <2> QED
    BY <2>1 DEF Up
<1>3. CASE ScStop
  <2>1. /\ service' = "stop_pending"
        /\ UNCHANGED <<main, windows, wrapper, overdue, loaded, file, mine, confirmed>>
    BY <1>3 DEF ScStop, Ask, vars, editorVars
  <2> QED
    BY <2>1 DEF Up
<1>4. CASE Wrapper
  <2>1. CASE SvcRun
    <3>1. /\ wrapper = "starting" /\ service' = "running"
          /\ UNCHANGED <<main, windows, overdue, loaded, file, mine, confirmed>>
      BY <2>1 DEF SvcRun, vars, editorVars
    <3> QED
      BY <3>1 DEF Up
  <2>2. CASE Popen
    <3>1. /\ wrapper = "begun" /\ wrapper' = "watching" /\ loaded' = file
          /\ UNCHANGED <<windows, service, overdue, file, mine, confirmed>>
      BY <2>2 DEF Popen, editorVars
    <3> QED
      BY <3>1
  <2>3. CASE Watch
    <3>1. /\ wrapper = "watching" /\ wrapper' = "ending"
          /\ UNCHANGED <<main, windows, service, overdue, loaded, file, mine, confirmed>>
      BY <2>3 DEF Watch, vars, editorVars
    <3> QED
      BY <3>1 DEF Up
  <2>4. CASE End
    <3>1. /\ wrapper = "ending"
          /\ \/ Up /\ wrapper' = "waiting" /\ service' = service
             \/ ~Up /\ wrapper' = "none" /\ service' = "stopped"
          /\ UNCHANGED <<main, windows, overdue, loaded, file, mine, confirmed>>
      BY <2>4 DEF End, vars, editorVars
    <3> QED
      BY <3>1 DEF Up
  <2>5. CASE WaitForChild
    <3>1. /\ wrapper' = "none"
          /\ \/ ~Up /\ overdue' = overdue
             \/ overdue' = TRUE
          /\ UNCHANGED <<main, windows, loaded, file, mine, confirmed>>
      BY <2>5 DEF WaitForChild, editorVars
    <3> QED
      BY <3>1 DEF Up
  <2>6. CASE SvcStopTerminates
    <3>1. UNCHANGED <<main, windows, service, wrapper, overdue, loaded, file, mine,
                      confirmed>>
      BY <2>6 DEF SvcStopTerminates, vars, editorVars
    <3> QED
      BY <3>1 DEF Up
  <2>7. CASE Kill
    BY <2>7, OnlyStartRaises, GatewayStep DEF Kill
  <2> QED
    BY <1>4, <2>1, <2>2, <2>3, <2>4, <2>5, <2>6, <2>7 DEF Wrapper
<1>5. ASSUME NEW e \in Editors, Save(e) PROVE ServiceInv'
  <2>1. /\ file' = file + 1 /\ mine' = [mine EXCEPT ![e] = file + 1]
        /\ UNCHANGED <<main, windows, service, wrapper, overdue, loaded, confirmed>>
    BY <1>5 DEF Save, vars, wrapperVars
  <2> QED
    BY <2>1 DEF Up
<1>6. ASSUME NEW e \in Editors, RestartStops(e) PROVE ServiceInv'
  <2>1. /\ service' \in {service, "stop_pending"}
        /\ UNCHANGED <<main, windows, wrapper, overdue, loaded, file, mine, confirmed>>
    BY <1>6 DEF RestartStops, Ask, vars, wrapperVars
  <2> QED
    BY <2>1 DEF Up
<1>7. ASSUME NEW e \in Editors, RestartStarts(e) PROVE ServiceInv'
  <2>1. /\ mine' = [mine EXCEPT ![e] = 0]
        /\ UNCHANGED <<main, windows, loaded, file>>
    BY <1>7 DEF RestartStarts, vars
  <2>2. CASE service = "stopped"
    <3>1. /\ windows /\ service' = "start_pending" /\ overdue' = overdue
          /\ confirmed' \in {mine[e], confirmed}
      BY <1>7, <2>2 DEF RestartStarts, Launch, Confirm
    <3> QED
      BY <2>1, <2>2, <3>1 DEF Up
  <2>3. CASE service # "stopped"
    <3>1. UNCHANGED <<service, wrapper, overdue, confirmed>>
      BY <1>7, <2>3 DEF RestartStarts, wrapperVars
    <3> QED
      BY <2>1, <2>3, <3>1 DEF Up
  <2> QED
    BY <2>2, <2>3
<1>8. CASE UNCHANGED allVars
  BY <1>8 DEF allVars, vars, serviceVars, wrapperVars, editorVars, Up
<1> QED
  BY <1>1, <1>2, <1>3, <1>4, <1>5, <1>6, <1>7, <1>8 DEF ServiceNext

LEMMA SpecServiceInv == ServiceSpec => []ServiceInv
  BY InitServiceInv, NextServiceInv, PTL DEF ServiceSpec

-----------------------------------------------------------------------------
\* For any instance a service shown as stopped has left no gateway behind, but for a child
\* that withstood its 15 s (windows_service.py:44-70).
THEOREM StoppedIsGone == ServiceSpec => []StoppedLeavesNoGateway
<1>1. ServiceInv => StoppedLeavesNoGateway
  BY DEF ServiceInv, ChildHasWrapper, StoppedLeavesNoGateway
<1> QED
  BY <1>1, SpecServiceInv, PTL

\* For any number of editors and saves the gateway that runs after a restart that was
\* reported done runs what was saved, or something later (config_gui.py:55-62).
THEOREM ConfirmedRuns == ServiceSpec => []ConfirmedIsLoaded
<1>1. ServiceInv => ConfirmedIsLoaded
  BY DEF ServiceInv
<1> QED
  BY <1>1, SpecServiceInv, PTL

-----------------------------------------------------------------------------
LEMMA ServiceStepKeeps == StatusInv /\ [ServiceNext]_allVars => StatusInv'
<1> SUFFICES ASSUME StatusInv, [ServiceNext]_allVars PROVE StatusInv'
  OBVIOUS
<1>1. CASE OtherManager \/ Crash \/ Main \/ Network \/ Broker \/ LinkBreaks
  BY <1>1, StepKeeps DEF OtherManager, Crash
<1>2. CASE ScStart \/ ScStop \/ UNCHANGED allVars
  BY <1>2, StepKeeps DEF ScStart, ScStop, allVars, vars, statusVars
<1>3. CASE Wrapper
  <2>1. CASE Popen \/ Kill
    BY <2>1, StepKeeps DEF Popen, Kill
  <2>2. CASE SvcRun \/ Watch \/ End \/ WaitForChild \/ SvcStopTerminates
    BY <2>2, StepKeeps DEF SvcRun, Watch, End, WaitForChild, SvcStopTerminates, vars, statusVars
  <2> QED
    BY <1>3, <2>1, <2>2 DEF Wrapper
<1>4. CASE \E e \in Editors : Save(e) \/ RestartStops(e) \/ RestartStarts(e)
  BY <1>4, StepKeeps DEF Save, RestartStops, RestartStarts, vars, statusVars
<1> QED
  BY <1>1, <1>2, <1>3, <1>4 DEF ServiceNext

LEMMA SpecStatusInv == ServiceSpec => []StatusInv
<1>1. ServiceInit => StatusInv
  BY QuietIsStatusInv DEF ServiceInit
<1> QED
  BY <1>1, ServiceStepKeeps, PTL DEF ServiceSpec

\* A gateway that the broker knows nothing of any more is not shown as available, also one
\* that its wrapper has killed: the exception is an on_connect that came too late for the
\* shutdown to answer it (cli.py:766, 1008-1011).
THEOREM AbsentIsShown == ServiceSpec => []AbsentIsOffline
<1>1. StatusInv => AbsentIsOffline
  BY DEF StatusInv
<1> QED
  BY <1>1, SpecStatusInv, PTL

\* A running gateway whose connection has settled is shown as available, also after a
\* start beside the session of one that was killed (cli.py:747-756).
THEOREM SettledIsShown == ServiceSpec => []SettledIsOnline
  BY SettledByInv, SpecStatusInv, PTL
=============================================================================
