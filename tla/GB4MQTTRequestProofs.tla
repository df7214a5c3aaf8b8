------------------------ MODULE GB4MQTTRequestProofs ------------------------
(***************************************************************************)
(* What holds of a connection's packets and of a request's life, for every *)
(* value of the constants: the order of the packets, and that the client   *)
(* implements Session.  Session's rules need three invariants: SendInv     *)
(* counts the copies of the request, and AckInv says of every packet under *)
(* way that could be taken for the request's what it is evidence of.       *)
(***************************************************************************)
EXTENDS GB4MQTTProofs

(***************************************************************************)
(* WireOrder.  The client's state tells what has been sent on the          *)
(* connection it believes to have.                                         *)
(***************************************************************************)

WireInv ==
    /\ state \in {"CONNECTING_SOCKET", "CONNECT_MQTT"} => wire = "none"
    /\ state \in {"AWAIT_CONNACK", "BEGIN_STANDBY", "STANDBY"} => wire = "connect"
    /\ wire # "bad"

\* Handing a packet to the radio moves the wire on, or leaves it alone.
LEMMA TransmitWire ==
    ASSUME NEW packet, NEW r, NEW thenReset, NEW T,
           Transmit(packet, r, thenReset, T)
    PROVE  /\ r # "MESSAGE_SENT" => wire' = wire
           /\ packet.type = "CONNECT" /\ wire = "none" =>
                wire' = IF r = "MESSAGE_SENT" THEN "connect" ELSE "none"
           /\ packet.type = "PUBLISH" /\ wire = "connect" => wire' = "connect"
           /\ packet.type = "DISCONNECT" /\ wire = "connect" => wire' # "bad"
BY DEF Transmit

\* A poll of the client keeps to the order.
LEMMA WirePoll ==
    ASSUME WireInv, MQTTPoll
    PROVE  WireInv'
<1> USE DEF WireInv, Silent
<1>1. CASE PollRadioNotReady \/ PollNotConnected \/ PollConnectingSocket
  BY <1>1 DEF PollRadioNotReady, PollNotConnected, PollConnectingSocket
<1>2. CASE PollConnectMQTT
  <2>1. wire = "none" /\ CONNECT.type = "CONNECT"
    BY <1>2 DEF PollConnectMQTT, CONNECT
  <2>2. PICK r \in SendReturns :
         CASE r = "MESSAGE_SENT" ->
                Transmit(CONNECT, r, FALSE, {"connack"}) /\ state' = "AWAIT_CONNACK"
           [] r \in {"IN_PROGRESS", "PACKET_ERROR"} ->
                Transmit(CONNECT, r, FALSE, {}) /\ UNCHANGED state
           [] OTHER ->
                Transmit(CONNECT, r, TRUE, {}) /\ state' = "NOT_CONNECTED"
    BY <1>2 DEF PollConnectMQTT
  <2>3. state = "CONNECT_MQTT"
    BY <1>2 DEF PollConnectMQTT
  <2>4. \/ /\ r = "MESSAGE_SENT" /\ Transmit(CONNECT, r, FALSE, {"connack"})
           /\ state' = "AWAIT_CONNACK"
        \/ /\ r # "MESSAGE_SENT" /\ Transmit(CONNECT, r, FALSE, {})
           /\ state' = "CONNECT_MQTT"
        \/ /\ r # "MESSAGE_SENT" /\ Transmit(CONNECT, r, TRUE, {})
           /\ state' = "NOT_CONNECTED"
    <3>1. CASE r = "MESSAGE_SENT"
      BY <2>2, <3>1
    <3>2. CASE r # "MESSAGE_SENT" /\ r \in {"IN_PROGRESS", "PACKET_ERROR"}
      BY <2>2, <2>3, <3>2
    <3>3. CASE r # "MESSAGE_SENT" /\ r \notin {"IN_PROGRESS", "PACKET_ERROR"}
      BY <2>2, <3>3
    <3> QED
      BY <3>1, <3>2, <3>3
  <2>5. \E thenReset, T : Transmit(CONNECT, r, thenReset, T)
    BY <2>4
  <2>6. wire' = IF r = "MESSAGE_SENT" THEN "connect" ELSE "none"
    BY <2>1, <2>5, TransmitWire
  <2> QED
    BY <2>4, <2>6
<1>3. CASE PollAwaitConnack
  BY <1>3 DEF PollAwaitConnack
<1>4. CASE PollStandby
  <2>1. wire = "connect"
    BY <1>4 DEF PollStandby
  <2>2. CASE StandbyIdle \/ StandbyUnsendable \/ StandbyWait
    BY <2>1, <2>2 DEF StandbyIdle, StandbyUnsendable, StandbyWait, Standby
  <2>3. CASE StandbySend
    <3>1. PICK packet, r, thenReset, T :
            /\ packet.type = "PUBLISH" /\ Transmit(packet, r, thenReset, T)
            /\ \E healthy : Standby(healthy)
      <4> DEFINE req == [Acknowledged EXCEPT !.ready_to_send = FALSE]
                 packet == [type |-> "PUBLISH", qos |-> req.qos, id |-> req.packet_id,
                            dup |-> req.duplicate]
      <4>1. \E r, thenReset, T, healthy : Transmit(packet, r, thenReset, T) /\ Standby(healthy)
        BY <2>3 DEF StandbySend
      <4>2. packet.type = "PUBLISH"
        OBVIOUS
      <4> HIDE DEF packet
      <4> QED
        BY <4>1, <4>2
    <3>2. wire' = "connect" /\ state' \in {"STANDBY", "NOT_CONNECTED"}
      BY <2>1, <3>1, TransmitWire DEF Standby
    <3> QED
      BY <3>2
  <2>4. ASSUME SendDisconnect PROVE wire' # "bad" /\ state' = "NOT_CONNECTED"
    <3>1. DISCONNECT.type = "DISCONNECT"
      BY DEF DISCONNECT
    <3> QED
      BY <2>1, <2>4, <3>1, TransmitWire DEF SendDisconnect, Standby
  <2>5. CASE StandbyAcked \/ StandbyTimeout
    BY <2>1, <2>4, <2>5 DEF StandbyAcked, StandbyTimeout, Standby
  <2> QED
    BY <1>4, <2>2, <2>3, <2>5 DEF PollStandby
<1> QED
  BY <1>1, <1>2, <1>3, <1>4 DEF MQTTPoll

\* Nothing else is sent.
LEMMA WireStep ==
    ASSUME WireInv, [Next]_vars
    PROVE  WireInv'
<1>1. CASE UNCHANGED <<state, wire>>
  BY <1>1 DEF WireInv
<1>2. CASE ~MQTTPoll
  BY <1>1, <1>2 DEF Next, Radio, Modem, Broker, Clock, publish, vars, mqttVars, history
<1> QED
  BY <1>2, WirePoll

\* On every connection CONNECT goes first and once, and nothing follows
\* DISCONNECT.
THEOREM WireOrderKept == Spec => []WireOrder
<1>1. Init => WireInv
  BY DEF Init, WireInv
<1>2. WireInv => WireOrder
  BY DEF WireInv, WireOrder
<1> QED
  BY <1>1, <1>2, WireStep, PTL DEF Spec

-----------------------------------------------------------------------------
(***************************************************************************)
(* What a poll does to the request, to the packets under way and to the    *)
(* mailbox, whatever else it does.                                         *)
(***************************************************************************)

Unready == [Acknowledged EXCEPT !.ready_to_send = FALSE]

Reading(req, n) ==
    g_receive' = AfterRead /\ m_publish_request' = req /\ sent' = n

Unread == UNCHANGED <<g_receive, m_publish_request, sent>>
ReadOnly == Reading(Acknowledged, sent)
SendIt == /\ m_publish_request.active /\ m_publish_request.ready_to_send
          /\ Reading(Transmitted(Unready), sent + 1)
Refused == /\ m_publish_request.active /\ m_publish_request.ready_to_send
           /\ Reading(Unready, sent)
DropIt == /\ m_publish_request.active /\ "serialize" \in Faults
          /\ Reading([Unready EXCEPT !.active = FALSE], sent)
EndIt == /\ Sent
         /\ Acknowledged.got_puback \/ m_publish_request.disconnect \/ ~TriesLeft
         /\ Reading([Acknowledged EXCEPT !.active = FALSE], sent)
RetryIt == /\ Sent /\ ~Acknowledged.got_puback
           /\ ~m_publish_request.disconnect /\ TriesLeft
           /\ Reading(Retried, sent)

\* A poll does one of these.
LEMMA PollRequest ==
    ASSUME MQTTPoll
    PROVE  Unread \/ ReadOnly \/ SendIt \/ Refused \/ DropIt \/ EndIt \/ RetryIt
<1> USE DEF Reading
<1>1. CASE PollRadioNotReady \/ PollNotConnected \/ PollConnectingSocket \/ PollConnectMQTT
  BY <1>1 DEF PollRadioNotReady, PollNotConnected, PollConnectingSocket, PollConnectMQTT, Unread
<1>2. CASE PollAwaitConnack
  BY <1>2 DEF PollAwaitConnack, ReadOnly
<1>3. CASE PollStandby
  <2>1. CASE StandbyIdle \/ StandbyWait
    BY <1>3, <2>1 DEF PollStandby, StandbyIdle, StandbyWait, ReadOnly
  <2>2. CASE StandbySend
    <3>1. \/ m_publish_request' = Transmitted(Unready) /\ sent' = sent + 1
          \/ m_publish_request' = Unready /\ sent' = sent
      BY <2>2 DEF StandbySend, Unready
    <3> QED
      BY <1>3, <2>2, <3>1 DEF PollStandby, StandbySend, SendIt, Refused
  <2>3. CASE StandbyUnsendable
    <3>1. [Unready EXCEPT !.active = FALSE]
            = [Acknowledged EXCEPT !.ready_to_send = FALSE, !.active = FALSE]
      BY DEF Unready
    <3> QED
      BY <1>3, <2>3, <3>1 DEF PollStandby, StandbyUnsendable, DropIt
  <2>4. CASE StandbyAcked
    BY <1>3, <2>4 DEF PollStandby, StandbyAcked, EndIt
  <2>5. CASE StandbyTimeout
    BY <1>3, <2>5 DEF PollStandby, StandbyTimeout, EndIt, RetryIt
  <2> QED
    BY <1>3, <2>1, <2>2, <2>3, <2>4, <2>5 DEF PollStandby
<1> QED
  BY <1>1, <1>2, <1>3 DEF MQTTPoll

\* The fields of the request after it.
Becomes(active, ready, duplicate, tries) ==
    LET q == m_publish_request' IN
      /\ q.active = active /\ q.ready_to_send = ready
      /\ q.duplicate = duplicate /\ q.tries = tries
      /\ q.qos = m_publish_request.qos
      /\ q.disconnect = m_publish_request.disconnect
      /\ q.packet_id = m_publish_request.packet_id
      /\ q.got_puback = Acknowledged.got_puback

\* Which they are, for each of these.
LEMMA RequestFields ==
    ASSUME ClientTypeOK, NEW q, q = m_publish_request
    PROVE  /\ ReadOnly => Becomes(q.active, q.ready_to_send, q.duplicate, q.tries)
           /\ SendIt => Becomes(q.qos # 0, FALSE,
                               q.duplicate \/ (q.qos # 0 /\ ~q.disconnect), q.tries)
           /\ Refused => Becomes(q.active, FALSE, q.duplicate, q.tries)
           /\ DropIt => Becomes(FALSE, FALSE, q.duplicate, q.tries)
           /\ EndIt => Becomes(FALSE, FALSE, q.duplicate, q.tries)
           /\ RetryIt => Becomes(TRUE, TRUE, q.duplicate, q.tries + 1)
<1> DEFINE ack == \/ q.got_puback
                  \/ /\ g_receive.pending
                     /\ g_receive.pkt.type = "PUBACK"
                     /\ g_receive.pkt.id = q.packet_id
<1>1. q \in MQTTRequest /\ Acknowledged \in MQTTRequest
  BY AcknowledgedType DEF ClientTypeOK
<1>2. Acknowledged = [q EXCEPT !.got_puback = ack] /\ ack \in BOOLEAN
  BY DEF Acknowledged
<1> HIDE DEF ack
<1>3. /\ Acknowledged.active = q.active /\ Acknowledged.ready_to_send = q.ready_to_send
      /\ Acknowledged.duplicate = q.duplicate /\ Acknowledged.tries = q.tries
      /\ Acknowledged.qos = q.qos /\ Acknowledged.disconnect = q.disconnect
      /\ Acknowledged.packet_id = q.packet_id
  BY <1>1, <1>2 DEF MQTTRequest
<1>4. /\ Unready \in MQTTRequest
      /\ Unready.active = q.active /\ Unready.ready_to_send = FALSE
      /\ Unready.duplicate = q.duplicate /\ Unready.tries = q.tries
      /\ Unready.qos = q.qos /\ Unready.disconnect = q.disconnect
      /\ Unready.packet_id = q.packet_id
      /\ Unready.got_puback = Acknowledged.got_puback
  BY <1>1, <1>3 DEF Unready, MQTTRequest
<1> USE DEF Reading, Becomes
<1>5. ReadOnly => Becomes(q.active, q.ready_to_send, q.duplicate, q.tries)
  BY <1>3 DEF ReadOnly
<1>6. SendIt => Becomes(q.qos # 0, FALSE,
                        q.duplicate \/ (q.qos # 0 /\ ~q.disconnect), q.tries)
  BY <1>4 DEF SendIt, Transmitted, MQTTRequest
<1>7. Refused => Becomes(q.active, FALSE, q.duplicate, q.tries)
  BY <1>4 DEF Refused
<1>8. DropIt => Becomes(FALSE, FALSE, q.duplicate, q.tries)
  BY <1>4 DEF DropIt, MQTTRequest
<1>9. EndIt => Becomes(FALSE, FALSE, q.duplicate, q.tries)
  BY <1>1, <1>3 DEF EndIt, Sent, MQTTRequest
<1>10. RetryIt => Becomes(TRUE, TRUE, q.duplicate, q.tries + 1)
  BY <1>1, <1>3 DEF RetryIt, Retried, Sent, MQTTRequest
<1> QED
  BY <1>5, <1>6, <1>7, <1>8, <1>9, <1>10

-----------------------------------------------------------------------------
(***************************************************************************)
(* Counting the copies.  AtMostOnce and DupHonest are not inductive: that  *)
(* a request is still active has to leave room for one more copy, and the  *)
(* flag has to tell what was sent between two sends as well.               *)
(***************************************************************************)

SendInv ==
    /\ m_publish_request.disconnect => m_publish_request.tries = 0
    /\ sent <= m_publish_request.tries + 1
    /\ m_publish_request.ready_to_send => sent <= m_publish_request.tries
    /\ m_publish_request.qos = 0 =>
         sent <= 1 /\ (m_publish_request.active => sent = 0)
    /\ m_publish_request.active =>
         ( m_publish_request.duplicate
             <=> /\ sent > 0
                 /\ m_publish_request.qos # 0 /\ ~m_publish_request.disconnect )

\* A poll keeps count.
LEMMA SendPoll ==
    ASSUME ClientTypeOK, SendInv, MQTTPoll
    PROVE  SendInv'
<1> DEFINE q == m_publish_request
<1>1. /\ q.active \in BOOLEAN /\ q.ready_to_send \in BOOLEAN /\ q.qos \in 0 .. 2
      /\ q.disconnect \in BOOLEAN /\ q.duplicate \in BOOLEAN
      /\ q.tries \in Nat /\ sent \in Nat
  BY MaxTriesAssumption DEF ClientTypeOK, MQTTRequest, QoS
<1>2. CASE Unread
  BY <1>2 DEF Unread, SendInv
<1> USE DEF SendInv, Becomes, Reading
<1>3. CASE ReadOnly
  BY <1>1, <1>3, RequestFields DEF ReadOnly
<1>4. CASE SendIt
  <2>1. Becomes(q.qos # 0, FALSE, q.duplicate \/ (q.qos # 0 /\ ~q.disconnect), q.tries)
    BY <1>4, RequestFields
  <2>2. q.active /\ q.ready_to_send /\ sent' = sent + 1
    BY <1>4 DEF SendIt
  <2> QED
    BY <1>1, <2>1, <2>2
<1>5. CASE Refused
  BY <1>1, <1>5, RequestFields DEF Refused
<1>6. CASE DropIt
  BY <1>1, <1>6, RequestFields DEF DropIt
<1>7. CASE EndIt
  BY <1>1, <1>7, RequestFields DEF EndIt
<1>8. CASE RetryIt
  <2>1. Becomes(TRUE, TRUE, q.duplicate, q.tries + 1)
    BY <1>8, RequestFields
  <2>2. q.active /\ ~q.disconnect /\ sent' = sent
    BY <1>8 DEF RetryIt, Sent
  <2> QED
    BY <1>1, <2>1, <2>2
<1> QED
  BY <1>2, <1>3, <1>4, <1>5, <1>6, <1>7, <1>8, PollRequest

\* The fields of a request just published.
LEMMA PublishFields ==
    ASSUME NEW r \in Requests, publish(r)
    PROVE  LET q == m_publish_request' IN
             /\ q.active /\ q.ready_to_send /\ ~q.duplicate /\ q.tries = 0
             /\ q.qos = r.qos /\ q.disconnect = r.disconnect /\ q.got_puback = FALSE
             /\ q.packet_id = NextId(m_publish_request.packet_id)
BY DEF publish, NewRequest

\* So does every step of the system.
LEMMA SendStep ==
    ASSUME ClientTypeOK, SendInv, [Next]_vars
    PROVE  SendInv'
<1>1. CASE UNCHANGED <<m_publish_request, sent>>
  BY <1>1 DEF SendInv
<1>2. ASSUME NEW r \in Requests, publish(r)
      PROVE  SendInv'
  <2>1. sent' = 0
    BY <1>2 DEF publish
  <2>2. LET q == m_publish_request' IN
          /\ q.active /\ q.ready_to_send /\ ~q.duplicate /\ q.tries = 0
    BY <1>2, PublishFields
  <2> QED
    BY <2>1, <2>2 DEF SendInv
<1>3. CASE ~MQTTPoll /\ ~ \E r \in Requests : publish(r)
  BY <1>1, <1>3 DEF Next, Radio, Modem, Broker, Clock, vars, mqttVars, history
<1> QED
  BY <1>2, <1>3, SendPoll

\* Nothing has been published at first.
LEMMA SendInit == Init => SendInv
BY DEF Init, NoRequest, SendInv

\* One copy of a QoS 0 request, and an honest DUP flag.
LEMMA SendInvImplies ==
    ASSUME ClientTypeOK, SendInv
    PROVE  AtMostOnce /\ DupHonest
<1>1. /\ m_publish_request.tries \in 0 .. MaxTries + 1 /\ sent \in Nat
      /\ m_publish_request.qos \in 0 .. 2
  BY DEF ClientTypeOK, MQTTRequest, QoS
<1>2. DupHonest
  BY <1>1 DEF SendInv, DupHonest
<1>3. AtMostOnce
  BY DEF SendInv, AtMostOnce
<1> QED
  BY <1>2, <1>3

\* A QoS 0 request goes out once, whatever is refused, retried or reconnected.
THEOREM QoS0IsSentOnce == Spec => []AtMostOnce
BY ClientTypeInit, ClientTypeStep, SendInit, SendStep, SendInvImplies, PTL DEF Spec

\* A PUBLISH carries the DUP flag if and only if it was sent before.
THEOREM DupIsHonest == Spec => []DupHonest
BY ClientTypeInit, ClientTypeStep, SendInit, SendStep, SendInvImplies, PTL DEF Spec

-----------------------------------------------------------------------------
(***************************************************************************)
(* NoFalseAck.  The client compares identifiers only, so every packet that *)
(* bears the request's identifier has to be the request's: a PUBLISH on    *)
(* its way is a copy of it, and a PUBACK, on the line or in the mailbox,   *)
(* was sent for it.                                                        *)
(***************************************************************************)

OwnCopy(packet, id, copies) ==
    packet.type = "PUBLISH" /\ packet.id = id => copies > 0

Genuine(pkt, id, taken) ==
    pkt.type = "PUBACK" => pkt.ok /\ (pkt.id = id => taken)

AckInv ==
    /\ \A i \in DOMAIN net : OwnCopy(net[i], m_publish_request.packet_id, sent)
    /\ \A i \in DOMAIN uart :
         Genuine(uart[i].pkt, m_publish_request.packet_id, delivered)
    /\ g_receive.pending =>
         Genuine(g_receive.pkt, m_publish_request.packet_id, delivered)
    /\ NoFalseAck

\* The network as a queue: what is on it after a packet is sent or taken.
LEMMA NetQueue ==
    ASSUME net \in Seq(OutPacket)
    PROVE  /\ \A p \in OutPacket : net' = Append(net, p) =>
                \A i \in DOMAIN net' : net'[i] = p \/ (i \in DOMAIN net /\ net'[i] = net[i])
           /\ net # <<>> => 1 \in DOMAIN net /\ Head(net) = net[1]
           /\ net # <<>> /\ net' = Tail(net) =>
                \A i \in DOMAIN net' : i + 1 \in DOMAIN net /\ net'[i] = net[i + 1]
<1>1. ASSUME NEW p \in OutPacket, net' = Append(net, p)
      PROVE  \A i \in DOMAIN net' : net'[i] = p \/ (i \in DOMAIN net /\ net'[i] = net[i])
  BY <1>1
<1>2. ASSUME net # <<>>
      PROVE  /\ 1 \in DOMAIN net /\ Head(net) = net[1]
             /\ net' = Tail(net) =>
                  \A i \in DOMAIN net' : i + 1 \in DOMAIN net /\ net'[i] = net[i + 1]
  <2>1. Len(net) \in Nat \ {0} /\ DOMAIN net = 1 .. Len(net) /\ Head(net) = net[1]
    BY <1>2, EmptySeq
  <2>2. ASSUME net' = Tail(net)
        PROVE  \A i \in DOMAIN net' : i + 1 \in DOMAIN net /\ net'[i] = net[i + 1]
    BY <2>1, <2>2
  <2> QED
    BY <2>1, <2>2
<1> QED
  BY <1>1, <1>2

\* What a poll puts on the network: a copy of the request, or another packet.
LEMMA PollNet ==
    ASSUME ClientTypeOK, MQTTPoll
    PROVE  /\ uart' = uart
           /\ \/ net' \in {net, <<>>}
              \/ \E p \in OutPacket :
                   /\ net' = Append(net, p)
                   /\ OwnCopy(p, m_publish_request.packet_id, sent')
<1> DEFINE Quiet == net' \in {net, <<>>}
           Adds(p) == Quiet \/ net' = Append(net, p)
<1>1. \A p, r, thenReset, T : Transmit(p, r, thenReset, T) => uart' = uart /\ Adds(p)
  BY DEF Transmit, sendMessage, TakeMessage, Carry, modemVars, brokerVars
<1>2. /\ \A T : leaveRadio(T) \/ resetSocket(T) \/ connect(T) => uart' = uart
      /\ Silent \/ NewConnection => Quiet
  BY DEF leaveRadio, resetSocket, connect, ConnectSocket, modemVars, Silent, NewConnection,
     brokerVars
<1>3. /\ CONNECT \in OutPacket /\ DISCONNECT \in OutPacket
      /\ CONNECT.type # "PUBLISH" /\ DISCONNECT.type # "PUBLISH"
  BY PacketsType DEF CONNECT, DISCONNECT
<1> HIDE DEF Quiet
<1>4. CASE PollRadioNotReady \/ PollNotConnected \/ PollConnectingSocket \/ PollAwaitConnack
  <2>1. uart' = uart /\ Quiet
    BY <1>2, <1>4 DEF PollRadioNotReady, PollNotConnected, PollConnectingSocket, PollAwaitConnack
  <2> QED
    BY <2>1 DEF Quiet
<1>5. CASE PollConnectMQTT
  <2>1. uart' = uart /\ Adds(CONNECT)
    BY <1>1, <1>5 DEF PollConnectMQTT
  <2> QED
    BY <1>3, <2>1 DEF Quiet, OwnCopy
<1>6. CASE PollStandby
  <2>1. CASE StandbyIdle \/ StandbyUnsendable \/ StandbyWait
    <3>1. uart' = uart /\ Quiet
      BY <1>2, <2>1 DEF StandbyIdle, StandbyUnsendable, StandbyWait
    <3> QED
      BY <3>1 DEF Quiet
  <2>2. CASE StandbyAcked \/ StandbyTimeout
    <3>1. uart' = uart /\ Adds(DISCONNECT)
      BY <1>1, <1>2, <2>2 DEF StandbyAcked, StandbyTimeout, SendDisconnect
    <3> QED
      BY <1>3, <3>1 DEF Quiet, OwnCopy
  <2>3. CASE StandbySend
    <3> DEFINE packet == [type |-> "PUBLISH", qos |-> Unready.qos,
                          id |-> Unready.packet_id, dup |-> Unready.duplicate]
    <3>1. Unready \in MQTTRequest /\ Unready.packet_id = m_publish_request.packet_id
      <4>1. Unready \in MQTTRequest
        BY AcknowledgedType DEF Unready
      <4>2. m_publish_request \in MQTTRequest
        BY DEF ClientTypeOK
      <4> QED
        BY <4>1, <4>2 DEF Unready, Acknowledged, MQTTRequest
    <3>2. packet \in OutPacket /\ packet.id = m_publish_request.packet_id
      BY <3>1 DEF MQTTRequest, OutPacket
    <3>3. PICK r \in SendReturns, thenReset \in BOOLEAN :
            /\ \E T : Transmit(packet, r, thenReset, T)
            /\ r = "MESSAGE_SENT" => sent' = sent + 1
      BY <2>3 DEF StandbySend, Unready
    <3> HIDE DEF packet
    <3>4. uart' = uart /\ Adds(packet)
      BY <1>1, <3>3
    <3>5. CASE r = "MESSAGE_SENT"
      <4>1. sent' > 0
        BY <3>3, <3>5 DEF ClientTypeOK
      <4> QED
        BY <3>2, <3>4, <4>1 DEF Quiet, OwnCopy
    <3>6. CASE r # "MESSAGE_SENT"
      <4>1. net' = net
        BY <3>3, <3>6 DEF Transmit, brokerVars
      <4> QED
        BY <3>4, <4>1
    <3> QED
      BY <3>5, <3>6
  <2> QED
    BY <1>6, <2>1, <2>2, <2>3 DEF PollStandby
<1> QED
  BY <1>4, <1>5, <1>6 DEF MQTTPoll

\* A packet read in this poll acknowledges the request only if it is its own.
LEMMA AcknowledgedHonest ==
    ASSUME ClientTypeOK, AckInv
    PROVE  /\ Acknowledged.got_puback \in BOOLEAN
           /\ Acknowledged.got_puback => delivered
           /\ m_publish_request.got_puback => Acknowledged.got_puback
<1> DEFINE ack == \/ m_publish_request.got_puback
                  \/ /\ g_receive.pending
                     /\ g_receive.pkt.type = "PUBACK"
                     /\ g_receive.pkt.id = m_publish_request.packet_id
<1>1. ack \in BOOLEAN /\ (ack => delivered)
  BY DEF AckInv, NoFalseAck, Genuine
<1>2. m_publish_request \in MQTTRequest
  BY DEF ClientTypeOK
<1>3. Acknowledged = [m_publish_request EXCEPT !.got_puback = ack]
  BY DEF Acknowledged
<1>4. m_publish_request.got_puback => ack
  OBVIOUS
<1> HIDE DEF ack
<1>5. Acknowledged.got_puback = ack
  BY <1>2, <1>3 DEF MQTTRequest
<1>6. m_publish_request.got_puback \in BOOLEAN
  BY <1>2 DEF MQTTRequest
<1> QED
  BY <1>1, <1>4, <1>5, <1>6

\* A poll reads the mailbox, and may send a copy.
LEMMA AckPoll ==
    ASSUME RadioTypeOK, ClientTypeOK, AckInv, MQTTPoll
    PROVE  AckInv'
<1>1. delivered' = delivered
  BY DEF MQTTPoll
<1>2. m_publish_request'.packet_id = m_publish_request.packet_id
  BY PollRequest, RequestFields DEF Becomes, Unread
<1>3. /\ g_receive' \in {g_receive, AfterRead}
      /\ sent' \in {sent, sent + 1}
      /\ m_publish_request'.got_puback
           \in {m_publish_request.got_puback, Acknowledged.got_puback}
  <2>1. CASE Unread
    BY <2>1 DEF Unread
  <2>2. CASE ReadOnly \/ SendIt \/ Refused \/ DropIt \/ EndIt \/ RetryIt
    <3>1. m_publish_request'.got_puback = Acknowledged.got_puback
      BY <2>2, RequestFields DEF Becomes
    <3> QED
      BY <2>2, <3>1 DEF ReadOnly, SendIt, Refused, DropIt, EndIt, RetryIt, Reading
  <2> QED
    BY <2>1, <2>2, PollRequest
<1>4. \A i \in DOMAIN net' : OwnCopy(net'[i], m_publish_request.packet_id, sent')
  <2>1. \A p : OwnCopy(p, m_publish_request.packet_id, sent)
                 => OwnCopy(p, m_publish_request.packet_id, sent')
    BY <1>3 DEF OwnCopy, ClientTypeOK
  <2>2. CASE net' = net
    BY <2>1, <2>2 DEF AckInv
  <2>3. CASE net' = <<>>
    BY <2>3
  <2>4. ASSUME NEW p \in OutPacket, net' = Append(net, p),
               OwnCopy(p, m_publish_request.packet_id, sent')
        PROVE  \A i \in DOMAIN net' : OwnCopy(net'[i], m_publish_request.packet_id, sent')
    BY <2>1, <2>4, NetQueue DEF AckInv, ClientTypeOK, BrokerTypeOK
  <2> QED
    BY <2>2, <2>3, <2>4, PollNet
<1>5. NoFalseAck'
  <2>1. Acknowledged.got_puback => delivered
    BY AcknowledgedHonest
  <2>2. m_publish_request.got_puback => delivered
    BY DEF AckInv, NoFalseAck
  <2> QED
    BY <1>1, <1>3, <2>1, <2>2 DEF NoFalseAck
<1>6. g_receive'.pending =>
        Genuine(g_receive'.pkt, m_publish_request.packet_id, delivered)
  <2>1. g_receive \in [pending : BOOLEAN, pkt : InPacket]
    BY DEF RadioTypeOK, NotifyTypeOK
  <2>2. g_receive' = g_receive \/ g_receive'.pending = FALSE
    BY <1>3, <2>1 DEF AfterRead
  <2> QED
    BY <2>2 DEF AckInv
<1> QED
  BY <1>1, <1>2, <1>4, <1>5, <1>6, PollNet DEF AckInv

\* A new request has an identifier that nothing under way bears.
LEMMA AckPublish ==
    ASSUME RadioTypeOK, AckInv, NEW r \in Requests, publish(r)
    PROVE  AckInv'
<1> DEFINE id == NextId(m_publish_request.packet_id)
<1>1. Unused(id) /\ UNCHANGED <<net, uart, g_receive>>
  BY DEF publish, brokerVars, modemVars, notifyVars
<1>2. m_publish_request'.packet_id = id /\ m_publish_request'.got_puback = FALSE
  BY PublishFields
<1>3. \A pkt \in InPacket : pkt.type = "PUBACK" /\ pkt.ok => pkt = Puback(pkt.id)
  BY DEF InPacket, Puback
<1>4. /\ g_receive.pkt \in InPacket
      /\ \A i \in DOMAIN uart : uart[i].pkt \in InPacket
  <2>1. g_receive \in [pending : BOOLEAN, pkt : InPacket] /\ uart \in Seq(Frame)
    BY DEF RadioTypeOK, NotifyTypeOK, ModemTypeOK
  <2>2. \A i \in DOMAIN uart : uart[i] \in Frame
    BY <2>1
  <2> QED
    BY <2>1, <2>2 DEF Frame
<1> HIDE DEF id
<1>5. \A i \in DOMAIN net' : OwnCopy(net'[i], id, sent')
  BY <1>1 DEF Unused, OwnCopy
<1>6. \A i \in DOMAIN uart' : Genuine(uart'[i].pkt, id, delivered')
  <2>1. \A i \in DOMAIN uart : uart[i].pkt.type = "PUBACK" =>
          uart[i].pkt.ok /\ uart[i].pkt.id # id
    BY <1>1, <1>3, <1>4 DEF AckInv, Unused, Genuine
  <2> QED
    BY <1>1, <2>1 DEF Genuine
<1>7. g_receive'.pending => Genuine(g_receive'.pkt, id, delivered')
  BY <1>1, <1>3, <1>4 DEF AckInv, Unused, Genuine
<1> QED
  BY <1>2, <1>5, <1>6, <1>7 DEF AckInv, NoFalseAck

\* A frame taken from the line goes to the mailbox, or is no packet.
LEMMA AckDispatch ==
    ASSUME RadioTypeOK, AckInv, Radio(Dispatch)
    PROVE  AckInv'
<1>1. /\ Dispatch
      /\ UNCHANGED <<net, m_publish_request, sent, delivered>>
  BY DEF Radio, brokerVars, mqttVars, history
<1>2. uart \in Seq(Frame) /\ uart # <<>> /\ uart' = Tail(uart)
  BY <1>1 DEF Dispatch, RadioTypeOK, ModemTypeOK
<1>3. /\ 1 \in DOMAIN uart /\ Head(uart) = uart[1]
      /\ \A i \in DOMAIN uart' : i + 1 \in DOMAIN uart /\ uart'[i] = uart[i + 1]
  BY <1>2, TakeFrame
<1>4. \A i \in DOMAIN uart' : Genuine(uart'[i].pkt, m_publish_request.packet_id, delivered)
  BY <1>3 DEF AckInv
<1>5. g_receive' = g_receive \/ g_receive'.pkt = Head(uart).pkt
  BY <1>1 DEF Dispatch, ReceiveCallback
<1>6. g_receive'.pending =>
        Genuine(g_receive'.pkt, m_publish_request.packet_id, delivered)
  BY <1>3, <1>5 DEF AckInv
<1> QED
  BY <1>1, <1>4, <1>6 DEF AckInv, NoFalseAck

\* The frames the modem makes of its own are no acknowledgements, and leave
\* those on the line where they are.
LEMMA AckPut ==
    ASSUME RadioTypeOK, AckInv, NEW f \in Frame, Put(f), NEW taken,
           delivered => taken, Genuine(f.pkt, m_publish_request.packet_id, taken)
    PROVE  \A i \in DOMAIN uart' :
             Genuine(uart'[i].pkt, m_publish_request.packet_id, taken)
<1>1. uart \in Seq(Frame)
  BY DEF RadioTypeOK, ModemTypeOK
<1>2. \A i \in DOMAIN uart' : uart'[i] = f \/ (i \in DOMAIN uart /\ uart'[i] = uart[i])
  BY <1>1, PutFrame
<1> QED
  BY <1>2 DEF AckInv, Genuine

\* A notification, or a packet that is no PUBACK, passes for nobody's.
LEMMA NoAck ==
    /\ \A t, ok, id, taken : Genuine(Notice(t, ok).pkt, id, taken)
    /\ \A ok, id, taken : Genuine(Rx(Connack(ok)).pkt, id, taken)
    /\ \A n, id, taken : Genuine(Rx(Pubrec(n)).pkt, id, taken)
    /\ \A id, taken : Genuine(Rx(Push).pkt, id, taken)
BY DEF Genuine, Notice, Rx, Connack, Pubrec, Push

\* radio.poll() drops the line or leaves it.
LEMMA AckRadioPoll ==
    ASSUME AckInv, Radio(RadioPoll)
    PROVE  AckInv'
<1>1. UNCHANGED <<net, m_publish_request, sent, delivered>>
  BY DEF Radio, brokerVars, mqttVars, history
<1>2. g_receive' = g_receive /\ uart' \in {uart, <<>>, <<Notice("SOCK_CLOSE_RESP", TRUE)>>}
  <2>1. RadioPoll
    BY DEF Radio
  <2>2. CASE PollSocketCooldown \/ PollSocketReady
    BY <2>2 DEF PollSocketCooldown, PollSocketReady, notifyVars, modemVars
  <2>3. CASE PollCreateSocket
    BY <2>3 DEF PollCreateSocket, ResetAndCreate
  <2>4. CASE PollAwaitSocketId \/ PollAwaitConnectResponse \/ PollAwaitConnection
    BY <2>4 DEF PollAwaitSocketId, PollAwaitConnectResponse, PollAwaitConnection, Await, modemVars
  <2>5. CASE PollConnected
    BY <2>5 DEF PollConnected, modemVars
  <2> QED
    BY <2>1, <2>2, <2>3, <2>4, <2>5 DEF RadioPoll
<1>3. \A i \in DOMAIN uart' : Genuine(uart'[i].pkt, m_publish_request.packet_id, delivered)
  <2>1. CASE uart' = uart
    BY <2>1 DEF AckInv
  <2>2. CASE uart' = <<>>
    BY <2>2
  <2>3. CASE uart' = <<Notice("SOCK_CLOSE_RESP", TRUE)>>
    <3>1. \A f : DOMAIN <<f>> = {1} /\ <<f>>[1] = f
      OBVIOUS
    <3>2. \A i \in DOMAIN uart' : uart'[i] = Notice("SOCK_CLOSE_RESP", TRUE)
      BY <2>3, <3>1
    <3>3. \A id, taken : Genuine(Notice("SOCK_CLOSE_RESP", TRUE).pkt, id, taken)
      BY NoAck
    <3> QED
      BY <3>2, <3>3
  <2> QED
    BY <1>2, <2>1, <2>2, <2>3
<1> QED
  BY <1>1, <1>2, <1>3 DEF AckInv, NoFalseAck

\* The modem.
LEMMA AckModem ==
    ASSUME RadioTypeOK, AckInv, Modem
    PROVE  AckInv'
<1>1. UNCHANGED <<net, m_publish_request, sent, delivered, g_receive>>
  BY DEF Modem, Radio, brokerVars, mqttVars, history, notifyVars
<1>2. PICK t \in FrameType, ok \in BOOLEAN : Put(Notice(t, ok))
  BY DEF Modem, Radio, ModemStep, ModemCreateResp, ModemConnectResp, ModemSockState,
     ModemTxStatus, ModemClose, HangUp, FrameType, Counted
<1>3. Notice(t, ok) \in Frame
  BY FramesType
<1>4. \A i \in DOMAIN uart' : Genuine(uart'[i].pkt, m_publish_request.packet_id, delivered)
  BY <1>2, <1>3, AckPut, NoAck
<1> QED
  BY <1>1, <1>4 DEF AckInv, NoFalseAck

\* The broker answers a copy of the request with the request's identifier, and
\* has it then.
LEMMA AckBroker ==
    ASSUME RadioTypeOK, ClientTypeOK, AckInv, Broker
    PROVE  AckInv' /\ (delivered' # delivered => delivered' /\ sent > 0)
<1> DEFINE id == m_publish_request.packet_id
<1>1. UNCHANGED <<g_receive, m_publish_request, sent>>
  BY DEF Broker, notifyVars, mqttVars
<1>2. \A type : Takes(type) =>
        /\ 1 \in DOMAIN net /\ Head(net) = net[1] /\ Head(net).type = type
        /\ Head(net).id \in PacketId
        /\ \A i \in DOMAIN net' : i + 1 \in DOMAIN net /\ net'[i] = net[i + 1]
  <2>1. net \in Seq(OutPacket)
    BY DEF ClientTypeOK, BrokerTypeOK
  <2> QED
    BY <2>1, NetQueue, NetType DEF Takes, OutPacket
<1>3. \A i \in DOMAIN net' : OwnCopy(net'[i], id, sent')
  <2>1. net' = net \/ \E type : Takes(type)
    BY DEF Broker, BrokerConnect, BrokerPublish, BrokerHangUp, BrokerPush, brokerVars
  <2> QED
    BY <1>1, <1>2, <2>1 DEF AckInv
<1>4. /\ delivered => delivered'
      /\ delivered' # delivered => delivered' /\ sent > 0
  <2>1. CASE BrokerPublish /\ delivered' = (delivered \/ Head(net).id = id)
    <3>1. OwnCopy(Head(net), id, sent) /\ Head(net).type = "PUBLISH"
      BY <1>2, <2>1 DEF BrokerPublish, AckInv
    <3> QED
      BY <2>1, <3>1 DEF OwnCopy, ClientTypeOK
  <2>2. CASE UNCHANGED delivered
    BY <2>2
  <2> QED
    BY <2>1, <2>2 DEF Broker
<1>5. \A i \in DOMAIN uart' : Genuine(uart'[i].pkt, id, delivered')
  <2>1. CASE uart' = uart
    BY <1>4, <2>1 DEF AckInv, Genuine
  <2>2. ASSUME NEW f \in Frame, Put(f), Genuine(f.pkt, id, delivered')
        PROVE  \A i \in DOMAIN uart' : Genuine(uart'[i].pkt, id, delivered')
    BY <1>4, <2>2, AckPut
  <2>3. \A pkt \in InPacket : Genuine(pkt, id, delivered') /\ Answers(pkt) =>
          \/ uart' = uart
          \/ \E f \in Frame : Put(f) /\ Genuine(f.pkt, id, delivered')
    BY FramesType DEF Answers, Rx
  <2>4. CASE BrokerPublish /\ delivered' = (delivered \/ Head(net).id = id)
    <3>1. Head(net).qos \in {0, 1, 2} /\ Head(net).id \in PacketId
      BY <1>2, <2>4, NetType DEF BrokerPublish, Takes, ClientTypeOK, BrokerTypeOK, OutPacket, QoS
    <3>2. /\ Genuine(Puback(Head(net).id), id, delivered')
          /\ Genuine(Pubrec(Head(net).id), id, delivered')
      BY <2>4 DEF Genuine, Puback, Pubrec
    <3>3. \/ uart' = uart
          \/ Answers(Puback(Head(net).id))
          \/ Answers(Pubrec(Head(net).id))
      BY <2>4, <3>1 DEF BrokerPublish, modemVars
    <3>4. Puback(Head(net).id) \in InPacket /\ Pubrec(Head(net).id) \in InPacket
      BY <3>1, PacketsType
    <3> QED
      BY <2>1, <2>2, <2>3, <3>2, <3>3, <3>4
  <2>5. CASE BrokerHangUp
    <3>1. Put(Notice("SOCK_STATE", FALSE)) /\ Notice("SOCK_STATE", FALSE) \in Frame
      BY <2>5, FramesType DEF BrokerHangUp, HangUp, FrameType, Counted
    <3> QED
      BY <2>2, <3>1, NoAck
  <2>6. CASE BrokerPush \/ \E accepts \in BOOLEAN : BrokerConnect(accepts)
    <3>1. PICK pkt \in InPacket : pkt.type # "PUBACK" /\ Answers(pkt)
      BY <2>6, PacketsType DEF BrokerPush, BrokerConnect, Push, Connack
    <3> QED
      BY <2>1, <2>2, <2>3, <3>1 DEF Genuine
  <2> QED
    BY <2>4, <2>5, <2>6 DEF Broker
<1>6. NoFalseAck'
  BY <1>1, <1>4 DEF AckInv, NoFalseAck
<1>7. g_receive'.pending => Genuine(g_receive'.pkt, id, delivered')
  BY <1>1, <1>4 DEF AckInv, Genuine
<1> QED
  BY <1>1, <1>3, <1>4, <1>5, <1>6, <1>7 DEF AckInv

\* No step of the system makes a packet evidence of what did not happen.
LEMMA AckStep ==
    ASSUME RadioTypeOK, ClientTypeOK, AckInv, [Next]_vars
    PROVE  AckInv'
<1>1. CASE UNCHANGED <<net, uart, g_receive, m_publish_request, sent, delivered>>
  BY <1>1 DEF AckInv, NoFalseAck
<1>2. CASE Clock \/ UNCHANGED vars
  BY <1>1, <1>2 DEF Clock, Radio, vars, RadioVars, notifyVars, modemVars, brokerVars,
     mqttVars, history
<1> QED
  BY <1>2, AckPoll, AckPublish, AckDispatch, AckRadioPoll, AckModem, AckBroker DEF Next

\* Nothing is under way at first.
LEMMA AckInit == Init => AckInv
BY DEF Init, RadioInit, BrokerInit, ModemInit, NotifyInit, NoRequest, AckInv, NoFalseAck

\* The client never takes a request for acknowledged that the broker has not.
THEOREM NoneFalselyAcknowledged == Spec => []NoFalseAck
<1>1. AckInv => NoFalseAck
  BY DEF AckInv
<1>2. TypeOK => RadioTypeOK
  BY DEF TypeOK
<1> QED
  BY <1>1, <1>2, TypeCorrect, ClientTypeInit, ClientTypeStep, AckInit, AckStep, PTL DEF Spec

-----------------------------------------------------------------------------
(***************************************************************************)
(* The client implements Session.                                          *)
(***************************************************************************)

\* A poll is a poll of the session.
LEMMA SessionPoll ==
    ASSUME ClientTypeOK, SendInv, AckInv, MQTTPoll
    PROVE  [Life!Next]_(Life!vars)
<1> DEFINE q == m_publish_request
<1>1. /\ q.active \in BOOLEAN /\ q.ready_to_send \in BOOLEAN /\ q.qos \in 0 .. 2
      /\ q.disconnect \in BOOLEAN /\ q.duplicate \in BOOLEAN /\ q.got_puback \in BOOLEAN
      /\ q.tries \in Nat /\ sent \in Nat
  BY MaxTriesAssumption DEF ClientTypeOK, MQTTRequest, QoS
<1>2. UNCHANGED delivered
  BY DEF MQTTPoll
<1>3. Acknowledged.got_puback \in {q.got_puback, q.got_puback \/ delivered}
  <2>1. CASE Acknowledged.got_puback
    <3>1. delivered = TRUE /\ Acknowledged.got_puback = TRUE
      BY <2>1, AcknowledgedHonest DEF ClientTypeOK
    <3> QED
      BY <1>1, <3>1
  <2>2. CASE ~Acknowledged.got_puback
    <3>1. Acknowledged.got_puback = FALSE /\ q.got_puback = FALSE
      BY <1>1, <2>2, AcknowledgedHonest
    <3> QED
      BY <3>1
  <2> QED
    BY <2>1, <2>2
<1>4. CASE Unread
  BY <1>2, <1>4 DEF Unread, Life!vars
<1>5. ASSUME NEW active, NEW ready, NEW duplicate, NEW tries,
             Becomes(active, ready, duplicate, tries),
             \/ Life!Send \/ Life!Retry \/ Life!Finish
             \/ active = q.active /\ tries = q.tries /\ sent' = sent
      PROVE  Life!Poll
  BY <1>2, <1>3, <1>5 DEF Becomes, Life!Poll
<1>6. CASE ReadOnly \/ Refused
  <2>1. \E ready : Becomes(q.active, ready, q.duplicate, q.tries)
    BY <1>6, RequestFields
  <2>2. sent' = sent
    BY <1>6 DEF ReadOnly, Refused, Reading
  <2>3. Life!Poll
    BY <1>5, <2>1, <2>2
  <2> QED
    BY <2>3 DEF Life!Next
<1>7. CASE SendIt
  <2>1. Becomes(q.qos # 0, FALSE, q.duplicate \/ (q.qos # 0 /\ ~q.disconnect), q.tries)
    BY <1>7, RequestFields
  <2>2. q.active /\ q.ready_to_send /\ sent' = sent + 1
    BY <1>7 DEF SendIt, Reading
  <2>3. sent <= q.tries /\ (q.qos = 0 \/ q.disconnect => sent = 0)
    BY <1>1, <2>2 DEF SendInv
  <2>4. Life!Send
    BY <2>1, <2>2, <2>3 DEF Becomes, Life!Send, Life!Unrepeated
  <2> QED
    BY <1>5, <2>1, <2>4 DEF Life!Next
<1>8. CASE DropIt \/ EndIt
  <2>1. Becomes(FALSE, FALSE, q.duplicate, q.tries)
    BY <1>8, RequestFields
  <2>2. q.active /\ sent' = sent
    BY <1>8 DEF DropIt, EndIt, Sent, Reading
  <2>3. \/ q'.got_puback \/ q.disconnect \/ q.tries > MaxTries
        \/ ~("serialize" \notin Faults)
    BY <1>1, <1>8, <2>1, MaxTriesAssumption DEF DropIt, EndIt, TriesLeft, Becomes
  <2>4. Life!Finish
    BY <2>1, <2>2, <2>3 DEF Becomes, Life!Finish
  <2> QED
    BY <1>5, <2>1, <2>4 DEF Life!Next
<1>9. CASE RetryIt
  <2>1. Becomes(TRUE, TRUE, q.duplicate, q.tries + 1)
    BY <1>9, RequestFields
  <2>2. /\ q.active /\ ~q.disconnect /\ q.tries <= MaxTries /\ sent' = sent
        /\ ~Acknowledged.got_puback
    BY <1>9 DEF RetryIt, Sent, TriesLeft, Reading
  <2>3. Life!Retry
    BY <1>1, <2>1, <2>2 DEF Becomes, Life!Retry
  <2> QED
    BY <1>5, <2>1, <2>3 DEF Life!Next
<1> QED
  BY <1>4, <1>6, <1>7, <1>8, <1>9, PollRequest

\* Every step of the system is one of the session, or none of its business.
LEMMA SessionStep ==
    ASSUME RadioTypeOK, ClientTypeOK, SendInv, AckInv, [Next]_vars
    PROVE  [Life!Next]_(Life!vars)
<1>1. CASE UNCHANGED <<m_publish_request, sent, delivered>>
  BY <1>1 DEF Life!vars
<1>2. ASSUME NEW r \in Requests, publish(r)
      PROVE  Life!Next
  <2>1. LET q == m_publish_request' IN
          /\ q.active = TRUE /\ q.tries = 0 /\ q.got_puback = FALSE
          /\ q.qos = r.qos /\ q.disconnect = r.disconnect
    BY <1>2 DEF publish, NewRequest
  <2>2. r = [qos |-> r.qos, disconnect |-> r.disconnect]
    BY RequestsAssumption
  <2>3. sent' = 0 /\ delivered' = FALSE
    BY <1>2 DEF publish
  <2>4. Life!Publish(r)
    BY <2>1, <2>2, <2>3 DEF Life!Publish
  <2> QED
    BY <2>4 DEF Life!Next
<1>3. CASE Broker
  <2>1. UNCHANGED <<m_publish_request, sent>>
    BY <1>3 DEF Broker, mqttVars
  <2>2. delivered' = delivered \/ Life!Take
    <3>1. CASE delivered' # delivered
      <4>1. delivered' = TRUE /\ sent > 0
        BY <1>3, <3>1, AckBroker, ClientTypeStep DEF ClientTypeOK
      <4> QED
        BY <2>1, <4>1 DEF Life!Take
    <3> QED
      BY <3>1
  <2> QED
    BY <1>1, <2>1, <2>2 DEF Life!Next
<1>4. CASE Radio(Dispatch) \/ Radio(RadioPoll) \/ Modem \/ Clock \/ UNCHANGED vars
  BY <1>1, <1>4 DEF Radio, Modem, Clock, vars, mqttVars, history
<1> QED
  BY <1>2, <1>3, <1>4, SessionPoll DEF Next

\* The client, over radio, modem and broker, leads every request through a life
\* that Session describes.
THEOREM LivesAsSession == Spec => ImplementsSession
<1>1. Init => Life!Init
  BY DEF Init, NoRequest, Life!Init
<1>2. TypeOK => RadioTypeOK
  BY DEF TypeOK
<1> QED
  BY <1>1, <1>2, TypeCorrect, ClientTypeInit, ClientTypeStep, SendInit, SendStep, AckInit,
     AckStep, SessionStep, PTL
     DEF Spec, ImplementsSession, Life!Spec
=============================================================================
