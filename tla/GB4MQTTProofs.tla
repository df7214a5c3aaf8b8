--------------------------- MODULE GB4MQTTProofs ----------------------------
(***************************************************************************)
(* What holds of the client over the radio, for every value of the         *)
(* constants.  The order of the argument: the two state machines stay in   *)
(* step; hence every step of the system is a step of the radio with its    *)
(* general client (GB4XBee); hence what GB4XBeeProofs shows of that client *)
(* holds here.                                                             *)
(***************************************************************************)
EXTENDS GB4MQTT, GB4XBeeProofs

(***************************************************************************)
(* Lockstep.  The one fact it does not say itself: a socket that is being  *)
(* created has not been connected, so SOCKET_READY finds the flag reset.   *)
(***************************************************************************)

LockstepInv ==
    /\ Lockstep
    /\ m_state = "AWAIT_SOCKET_ID" => ~connect_in_progress

\* Client and radio begin in step.
LEMMA LockstepInit == Init => LockstepInv
BY DEF Init, RadioInit, LockstepInv, Lockstep, BelowReady

\* radio.poll() moves its state on, or down below SOCKET_READY.
LEMMA LockstepRadioPoll ==
    ASSUME LockstepInv, RadioPoll, UNCHANGED mqttVars
    PROVE  LockstepInv'
<1> USE DEF LockstepInv, Lockstep, InStep, Open, BelowReady, mqttVars
<1>1. CASE PollSocketCooldown \/ PollSocketReady
  BY <1>1 DEF RadioPoll, PollSocketCooldown, PollSocketReady
<1>2. CASE PollCreateSocket
  BY <1>2 DEF RadioPoll, PollCreateSocket, Enter
<1>3. CASE PollAwaitSocketId
  BY <1>3 DEF RadioPoll, PollAwaitSocketId, Await, Enter
<1>4. CASE PollAwaitConnectResponse
  BY <1>4 DEF RadioPoll, PollAwaitConnectResponse, Await, Enter
<1>5. CASE PollAwaitConnection
  BY <1>5 DEF RadioPoll, PollAwaitConnection, Await, Enter
<1>6. CASE PollConnected
  <2>1. m_state' \in {"CONNECTED", "SENDING", "SOCKET_COOLDOWN_PERIOD"}
    BY <1>6 DEF PollConnected, Enter
  <2> QED
    BY <1>6, <2>1 DEF RadioPoll, PollConnected
<1> QED
  BY <1>1, <1>2, <1>3, <1>4, <1>5, <1>6 DEF RadioPoll

\* sendMessage() leaves the radio open, unless the client resets the socket.
LEMMA SendKeepsOpen ==
    ASSUME NEW r, NEW thenReset \in BOOLEAN, NEW T, m_state \in Open,
           sendMessage(r, thenReset, T)
    PROVE  IF thenReset THEN m_state' = "SOCKET_COOLDOWN_PERIOD" ELSE m_state' \in Open
BY DEF sendMessage, Open

\* poll() follows it.
LEMMA LockstepMQTTPoll ==
    ASSUME LockstepInv, MQTTPoll
    PROVE  LockstepInv'
<1> USE DEF LockstepInv, Lockstep, InStep
<1>0. pc = "client" /\ pc' = "radio"
  BY DEF MQTTPoll
<1>1. CASE PollRadioNotReady
  BY <1>0, <1>1 DEF PollRadioNotReady, leaveRadio, BelowReady
<1>2. CASE PollNotConnected
  <2>1. m_state = "SOCKET_READY" /\ ~connect_in_progress
    BY <1>2 DEF PollNotConnected
  <2> QED
    BY <1>0, <1>2, <2>1 DEF PollNotConnected, leaveRadio, connect, resetSocket, BelowReady
<1>3. CASE PollConnectingSocket
  BY <1>0, <1>3 DEF PollConnectingSocket, leaveRadio, resetSocket, BelowReady, Open
<1>4. CASE PollConnectMQTT
  <2>1. m_state \in Open
    BY <1>4 DEF PollConnectMQTT
  <2>2. PICK r \in SendReturns :
          \/ sendMessage(r, FALSE, {"connack"}) /\ state' = "AWAIT_CONNACK"
          \/ sendMessage(r, FALSE, {}) /\ state' = "CONNECT_MQTT"
          \/ sendMessage(r, TRUE, {}) /\ state' = "NOT_CONNECTED"
    BY <1>4 DEF PollConnectMQTT, Transmit
  <2>3. \/ m_state' \in Open /\ state' \in {"CONNECT_MQTT", "AWAIT_CONNACK"}
        \/ m_state' = "SOCKET_COOLDOWN_PERIOD" /\ state' = "NOT_CONNECTED"
    BY <2>1, <2>2, SendKeepsOpen
  <2> QED
    BY <1>0, <2>1, <2>3 DEF BelowReady, Open
<1>5. CASE PollAwaitConnack
  <2>1. m_state \in Open
    BY <1>5 DEF PollAwaitConnack
  <2>2. \/ m_state' = m_state /\ state' \in {"AWAIT_CONNACK", "BEGIN_STANDBY"}
        \/ m_state' = "SOCKET_COOLDOWN_PERIOD" /\ state' = "NOT_CONNECTED"
    BY <1>5 DEF PollAwaitConnack, leaveRadio, resetSocket
  <2> QED
    BY <1>0, <2>1, <2>2 DEF BelowReady, Open
<1>6. CASE PollStandby
  <2>1. m_state \in Open
    BY <1>6 DEF PollStandby
  <2>2. \/ m_state' \in Open /\ state' = "STANDBY"
        \/ m_state' = "SOCKET_COOLDOWN_PERIOD" /\ state' = "NOT_CONNECTED"
    <3> USE <2>1 DEF Standby, leaveRadio, resetSocket
    <3>1. CASE StandbyIdle \/ StandbyUnsendable \/ StandbyWait
      BY <3>1 DEF StandbyIdle, StandbyUnsendable, StandbyWait
    <3>2. CASE StandbySend
      <4>1. \E r, T :
              \/ sendMessage(r, FALSE, T) /\ Standby(TRUE)
              \/ sendMessage(r, TRUE, T) /\ Standby(FALSE)
        BY <3>2 DEF StandbySend, Transmit
      <4> QED
        BY <4>1, SendKeepsOpen
    <3>3. ASSUME SendDisconnect
          PROVE  m_state' = "SOCKET_COOLDOWN_PERIOD" /\ state' = "NOT_CONNECTED"
      BY <3>3, SendKeepsOpen DEF SendDisconnect, Transmit
    <3>4. CASE StandbyAcked \/ StandbyTimeout
      BY <3>3, <3>4 DEF StandbyAcked, StandbyTimeout
    <3> QED
      BY <1>6, <3>1, <3>2, <3>4 DEF PollStandby
  <2> QED
    BY <1>0, <2>1, <2>2 DEF BelowReady, Open
<1> QED
  BY <1>1, <1>2, <1>3, <1>4, <1>5, <1>6 DEF MQTTPoll

\* No step of the system takes them out of step.
LEMMA LockstepStep ==
    ASSUME LockstepInv, [Next]_vars
    PROVE  LockstepInv'
<1>1. CASE UNCHANGED <<radioVars, mqttVars>>
  BY <1>1 DEF radioVars, mqttVars, LockstepInv, Lockstep, InStep
<1>2. CASE Radio(Dispatch) \/ Modem \/ Broker \/ Clock \/ UNCHANGED vars
  BY <1>1, <1>2 DEF Radio, Dispatch, Modem, Broker, Clock, vars, RadioVars
<1>3. CASE \E r \in Requests : publish(r)
  BY <1>3 DEF publish, radioVars, LockstepInv, Lockstep, InStep
<1> QED
  BY <1>2, <1>3, LockstepRadioPoll, LockstepMQTTPoll DEF Next, Radio

\* The client and the radio keep in step.
THEOREM StaysInStep == Spec => []Lockstep
<1>1. LockstepInv => Lockstep
  BY DEF LockstepInv
<1> QED
  BY <1>1, LockstepInit, LockstepStep, PTL DEF Spec

-----------------------------------------------------------------------------
(***************************************************************************)
(* Types                                                                   *)
(***************************************************************************)

\* The packets the client sends are packets.
LEMMA PacketsType ==
    /\ \A ok \in BOOLEAN : Connack(ok) \in InPacket
    /\ \A n \in PacketId : Puback(n) \in InPacket /\ Pubrec(n) \in InPacket
    /\ Push \in InPacket
    /\ CONNECT \in OutPacket /\ DISCONNECT \in OutPacket
    /\ 0 \in PacketId
    /\ \A n \in PacketId : NextId(n) \in PacketId
BY IdModAssumption
   DEF Connack, Puback, Pubrec, Push, CONNECT, DISCONNECT, InPacket, OutPacket, PacketId,
       QoS, NextId

\* The part of TypeOK that is the client's own.
ClientTypeOK ==
    /\ BrokerTypeOK
    /\ state \in MQTTState
    /\ m_publish_request \in MQTTRequest
    /\ sent \in Nat
    /\ delivered \in BOOLEAN
    /\ wire \in {"none", "connect", "disconnect", "bad"}

\* The network as a queue.
LEMMA NetType ==
    ASSUME net \in Seq(OutPacket)
    PROVE  /\ \A p \in OutPacket : Append(net, p) \in Seq(OutPacket)
           /\ net # <<>> => Head(net) \in OutPacket /\ Tail(net) \in Seq(OutPacket)
OBVIOUS

\* The timers the client starts are its own.
LEMMA ClientTimers ==
    /\ {} \in SUBSET (Timer \ RadioTimer)
    /\ {"connack"} \in SUBSET (Timer \ RadioTimer)
    /\ {"publish"} \in SUBSET (Timer \ RadioTimer)
    /\ KeptAlive \in SUBSET (Timer \ RadioTimer)
    /\ KeptAlive \cup {"publish"} \in SUBSET (Timer \ RadioTimer)
    /\ KeptAlive \cup {} \in SUBSET (Timer \ RadioTimer)
BY MQTTTimerAssumption DEF RadioTimer, MQTTTimer, KeptAlive

(***************************************************************************)
(* Every step of the system is a step of the radio and its general client. *)
(***************************************************************************)

\* A call of the general client that restarts the client timers T.
Call(T) ==
    \/ leaveRadio(T)
    \/ resetSocket(T)
    \/ MayConnect /\ connect(T)
    \/ \E r \in SendReturns, thenReset \in BOOLEAN : sendMessage(r, thenReset, T)

\* A poll of the client is a step of the general client of the radio.
LEMMA MQTTPollSimulates ==
    ASSUME LockstepInv, MQTTPoll
    PROVE  ClientStep
<1>1. Reads
  BY DEF MQTTPoll, PollRadioNotReady, PollNotConnected, PollConnectingSocket,
     PollConnectMQTT, PollAwaitConnack, PollStandby, Reads
<1>2. \E T \in SUBSET (Timer \ RadioTimer) : Call(T)
  <2>1. CASE PollRadioNotReady \/ PollConnectingSocket
    <3>1. Call({})
      BY <2>1 DEF PollRadioNotReady, PollConnectingSocket, Call
    <3> QED
      BY <3>1, ClientTimers
  <2>2. CASE PollNotConnected
    <3>1. MayConnect
      BY <2>2 DEF MQTTPoll, PollNotConnected, LockstepInv, Lockstep, InStep, MayConnect
    <3>2. Call({})
      BY <2>2, <3>1 DEF PollNotConnected, Call
    <3> QED
      BY <3>2, ClientTimers
  <2>3. CASE PollConnectMQTT
    <3>1. Call({}) \/ Call({"connack"})
      BY <2>3 DEF PollConnectMQTT, Transmit, Call
    <3> QED
      BY <3>1, ClientTimers
  <2>4. CASE PollAwaitConnack
    <3>1. Call(KeptAlive)
      BY <2>4 DEF PollAwaitConnack, Call
    <3> QED
      BY <3>1, ClientTimers
  <2>5. CASE PollStandby
    <3>1. CASE StandbyIdle \/ StandbyUnsendable \/ StandbyWait
      <4>1. Call(KeptAlive)
        BY <3>1 DEF StandbyIdle, StandbyUnsendable, StandbyWait, Call
      <4> QED
        BY <4>1, ClientTimers
    <3>2. CASE StandbySend
      <4>1. PICK r \in SendReturns :
              \/ sendMessage(r, FALSE, KeptAlive \cup {"publish"})
              \/ sendMessage(r, FALSE, KeptAlive \cup {})
              \/ sendMessage(r, FALSE, KeptAlive)
              \/ sendMessage(r, TRUE, KeptAlive)
        BY <3>2 DEF StandbySend, Transmit
      <4>2. \/ Call(KeptAlive \cup {"publish"})
            \/ Call(KeptAlive \cup {})
            \/ Call(KeptAlive)
        BY <4>1 DEF Call
      <4> QED
        BY <4>2, ClientTimers
    <3>3. CASE StandbyAcked \/ StandbyTimeout
      <4>1. SendDisconnect => Call(KeptAlive)
        BY DEF SendDisconnect, Transmit, Call
      <4>2. Call(KeptAlive) \/ Call(KeptAlive \cup {"publish"})
        BY <3>3, <4>1 DEF StandbyAcked, StandbyTimeout, Call
      <4> QED
        BY <4>2, ClientTimers
    <3> QED
      BY <2>5, <3>1, <3>2, <3>3 DEF PollStandby
  <2> QED
    BY <2>1, <2>2, <2>3, <2>4, <2>5 DEF MQTTPoll
<1> QED
  BY <1>1, <1>2 DEF MQTTPoll, ClientStep, Call

\* Every step of the system is one of the radio with its general client.
LEMMA NextSimulates ==
    ASSUME ClientTypeOK, LockstepInv, [Next]_vars
    PROVE  [RadioNext]_RadioVars
<1>1. CASE Radio(Dispatch) \/ Radio(RadioPoll)
  BY <1>1 DEF Radio, RadioNext
<1>2. CASE MQTTPoll
  BY <1>2, MQTTPollSimulates DEF RadioNext
<1>3. CASE \E r \in Requests : publish(r)
  BY <1>3, ClientTimers DEF publish, RadioNext, Passing
<1>4. CASE Modem
  BY <1>4 DEF Modem, Radio, RadioNext, Environment
<1>5. CASE Broker
  <2>1. ASSUME net # <<>>
        PROVE  Head(net).id \in PacketId
    BY <2>1, NetType DEF ClientTypeOK, BrokerTypeOK, OutPacket
  <2>2. ASSUME NEW pkt \in InPacket, link = "up", Answers(pkt),
               UNCHANGED <<radioVars, elapsed, notifyVars>>
        PROVE  Environment \/ UNCHANGED modemVars
    BY <2>2 DEF Answers, Environment, modemVars
  <2>3. CASE BrokerPublish
    <3>1. net # <<>> /\ link = "up"
      BY <2>3 DEF BrokerPublish, Takes
    <3>2. \/ UNCHANGED modemVars
          \/ Answers(Puback(Head(net).id))
          \/ Answers(Pubrec(Head(net).id))
      <4>1. Head(net).qos \in {0, 1, 2}
        BY <3>1, NetType DEF ClientTypeOK, BrokerTypeOK, OutPacket, QoS
      <4> QED
        BY <2>3, <4>1 DEF BrokerPublish
    <3> QED
      BY <1>5, <2>1, <2>2, <3>1, <3>2, PacketsType DEF Broker, RadioNext, RadioVars
  <2>4. CASE BrokerHangUp
    BY <1>5, <2>4 DEF Broker, BrokerHangUp, Takes, Environment, RadioNext
  <2>5. CASE BrokerPush \/ \E accepts \in BOOLEAN : BrokerConnect(accepts)
    <3>1. Environment \/ UNCHANGED modemVars
      BY <1>5, <2>2, <2>5, PacketsType DEF Broker, BrokerPush, BrokerConnect, Takes
    <3> QED
      BY <1>5, <3>1 DEF Broker, RadioNext, RadioVars
  <2> QED
    BY <1>5, <2>3, <2>4, <2>5 DEF Broker
<1>6. CASE Clock
  BY <1>6 DEF Clock, Radio, RadioNext, Passing
<1>7. CASE UNCHANGED vars
  BY <1>7 DEF vars
<1> QED
  BY <1>1, <1>2, <1>3, <1>4, <1>5, <1>6, <1>7 DEF Next

(***************************************************************************)
(* The types of the client's own variables                                 *)
(***************************************************************************)

\* Handing a packet to the radio.
LEMMA TransmitType ==
    ASSUME ClientTypeOK, NEW packet \in OutPacket, NEW r, NEW thenReset, NEW T,
           Transmit(packet, r, thenReset, T)
    PROVE  BrokerTypeOK' /\ wire' \in {"none", "connect", "disconnect", "bad"}
<1>1. CASE r = "MESSAGE_SENT"
  <2>1. Carry(packet)
    BY <1>1 DEF Transmit
  <2>2. BrokerTypeOK'
    BY <2>1, NetType DEF Carry, BrokerTypeOK, ClientTypeOK
  <2>3. wire' \in {"connect", "disconnect", "bad"}
    BY <1>1 DEF Transmit
  <2> QED
    BY <2>2, <2>3
<1>2. CASE r # "MESSAGE_SENT"
  BY <1>2 DEF Transmit, brokerVars, BrokerTypeOK, ClientTypeOK
<1> QED
  BY <1>1, <1>2

\* Setting flags of a request, and counting a try.
LEMMA RequestUpdate ==
    ASSUME NEW req \in MQTTRequest, NEW b \in BOOLEAN, NEW c \in BOOLEAN,
           NEW n \in 0 .. MaxTries + 1
    PROVE  /\ [req EXCEPT !.got_puback = b] \in MQTTRequest
           /\ [req EXCEPT !.ready_to_send = b] \in MQTTRequest
           /\ [req EXCEPT !.active = b] \in MQTTRequest
           /\ [req EXCEPT !.active = b, !.duplicate = c] \in MQTTRequest
           /\ [req EXCEPT !.ready_to_send = b, !.active = c] \in MQTTRequest
           /\ [req EXCEPT !.tries = n, !.ready_to_send = b] \in MQTTRequest
<1>1. /\ [req EXCEPT !.got_puback = b] \in MQTTRequest
      /\ [req EXCEPT !.ready_to_send = b] \in MQTTRequest
  BY DEF MQTTRequest
<1>2. /\ [req EXCEPT !.active = b] \in MQTTRequest
      /\ [req EXCEPT !.active = b, !.duplicate = c] \in MQTTRequest
  BY DEF MQTTRequest
<1>3. [req EXCEPT !.ready_to_send = b, !.active = c] \in MQTTRequest
  BY DEF MQTTRequest
<1>4. [req EXCEPT !.tries = n, !.ready_to_send = b] \in MQTTRequest
  BY DEF MQTTRequest
<1> QED
  BY <1>1, <1>2, <1>3, <1>4

\* The request after a packet has been dispatched, and after what poll() then does.
LEMMA AcknowledgedType ==
    ASSUME ClientTypeOK
    PROVE  /\ Acknowledged \in MQTTRequest
           /\ [Acknowledged EXCEPT !.ready_to_send = FALSE] \in MQTTRequest
           /\ [Acknowledged EXCEPT !.active = FALSE] \in MQTTRequest
           /\ [Acknowledged EXCEPT !.ready_to_send = FALSE, !.active = FALSE] \in MQTTRequest
           /\ TriesLeft => Retried \in MQTTRequest
<1>1. Acknowledged \in MQTTRequest
  <2> DEFINE b == \/ m_publish_request.got_puback
                  \/ /\ g_receive.pending
                     /\ g_receive.pkt.type = "PUBACK"
                     /\ g_receive.pkt.id = m_publish_request.packet_id
  <2>1. b \in BOOLEAN
    OBVIOUS
  <2>2. Acknowledged = [m_publish_request EXCEPT !.got_puback = b]
    BY DEF Acknowledged
  <2>3. m_publish_request \in MQTTRequest
    BY DEF ClientTypeOK
  <2>4. 0 \in 0 .. MaxTries + 1
    BY MaxTriesAssumption
  <2> HIDE DEF b
  <2> QED
    BY <2>1, <2>2, <2>3, <2>4, RequestUpdate
<1>2. TriesLeft => Acknowledged.tries + 1 \in 0 .. MaxTries + 1
  BY MaxTriesAssumption DEF TriesLeft, Acknowledged, ClientTypeOK, MQTTRequest
<1>3. 0 \in 0 .. MaxTries + 1
  BY MaxTriesAssumption
<1> QED
  BY <1>1, <1>2, <1>3, RequestUpdate DEF Retried

\* The request once it is sent.
LEMMA TransmittedType ==
    ASSUME NEW req \in MQTTRequest
    PROVE  Transmitted(req) \in MQTTRequest
<1> DEFINE a == req.qos # 0
           d == req.duplicate \/ (req.qos # 0 /\ ~req.disconnect)
<1>1. a \in BOOLEAN /\ d \in BOOLEAN
  OBVIOUS
<1>2. Transmitted(req) = [req EXCEPT !.active = a, !.duplicate = d]
  BY DEF Transmitted
<1>3. 0 \in 0 .. MaxTries + 1
  BY MaxTriesAssumption
<1> HIDE DEF a, d
<1> QED
  BY <1>1, <1>2, <1>3, RequestUpdate

\* A poll of the client keeps the client's types.
LEMMA MQTTPollType ==
    ASSUME ClientTypeOK, MQTTPoll
    PROVE  ClientTypeOK'
<1> DEFINE WireOK == BrokerTypeOK' /\ wire' \in {"none", "connect", "disconnect", "bad"}
           RequestOK == m_publish_request' \in MQTTRequest
           StateOK == state' \in MQTTState
           SentOK == sent' \in Nat
<1>1. Silent => WireOK
  BY DEF Silent, brokerVars, BrokerTypeOK, ClientTypeOK
<1>2. \A p \in OutPacket : \A r, thenReset, T : Transmit(p, r, thenReset, T) => WireOK
  BY TransmitType
<1>3. /\ UNCHANGED m_publish_request => RequestOK
      /\ UNCHANGED sent => SentOK
      /\ \A healthy : Standby(healthy) => StateOK
  BY DEF ClientTypeOK, Standby, MQTTState
<1>4. CASE PollRadioNotReady \/ PollConnectingSocket
  <2>1. WireOK /\ RequestOK /\ SentOK
    BY <1>1, <1>3, <1>4 DEF PollRadioNotReady, PollConnectingSocket
  <2>2. StateOK
    BY <1>4 DEF PollRadioNotReady, PollConnectingSocket, ClientTypeOK, MQTTState
  <2> QED
    BY <2>1, <2>2 DEF MQTTPoll, ClientTypeOK
<1>5. CASE PollNotConnected
  <2>1. RequestOK /\ SentOK
    BY <1>3, <1>5 DEF PollNotConnected
  <2>2. NewConnection /\ wire' = "none" => WireOK
    BY EmptySeq DEF NewConnection, BrokerTypeOK
  <2>3. WireOK
    BY <1>1, <1>5, <2>2 DEF PollNotConnected
  <2>4. StateOK
    BY <1>5 DEF PollNotConnected, ClientTypeOK, MQTTState
  <2> QED
    BY <2>1, <2>3, <2>4 DEF MQTTPoll, ClientTypeOK
<1>6. CASE PollConnectMQTT
  <2>1. RequestOK /\ SentOK
    BY <1>3, <1>6 DEF PollConnectMQTT
  <2>2. \E r, thenReset, T : Transmit(CONNECT, r, thenReset, T)
    BY <1>6 DEF PollConnectMQTT
  <2>3. StateOK
    BY <1>6 DEF PollConnectMQTT, MQTTState
  <2> QED
    BY <1>2, <2>1, <2>2, <2>3, PacketsType DEF MQTTPoll, ClientTypeOK
<1>7. CASE PollAwaitConnack
  <2>1. WireOK /\ SentOK
    BY <1>1, <1>3, <1>7 DEF PollAwaitConnack
  <2>2. RequestOK
    BY <1>7, AcknowledgedType DEF PollAwaitConnack
  <2>3. StateOK
    BY <1>7 DEF PollAwaitConnack, MQTTState
  <2> QED
    BY <2>1, <2>2, <2>3 DEF MQTTPoll, ClientTypeOK
<1>8. CASE PollStandby
  <2>1. ASSUME SendDisconnect PROVE WireOK /\ StateOK
    BY <1>2, <1>3, <2>1, PacketsType DEF SendDisconnect
  <2>2. CASE StandbyIdle \/ StandbyUnsendable \/ StandbyWait
    BY <1>1, <1>3, <2>2, AcknowledgedType
       DEF StandbyIdle, StandbyUnsendable, StandbyWait, MQTTPoll, ClientTypeOK
  <2>3. CASE StandbyAcked \/ StandbyTimeout
    BY <1>1, <1>3, <2>1, <2>3, AcknowledgedType
       DEF StandbyAcked, StandbyTimeout, MQTTPoll, ClientTypeOK
  <2>4. CASE StandbySend
    <3> DEFINE req == [Acknowledged EXCEPT !.ready_to_send = FALSE]
               packet == [type |-> "PUBLISH", qos |-> req.qos, id |-> req.packet_id,
                          dup |-> req.duplicate]
    <3>1. req \in MQTTRequest
      BY AcknowledgedType
    <3>2. packet \in OutPacket
      BY <3>1 DEF MQTTRequest, OutPacket
    <3>3. m_publish_request' \in {req, Transmitted(req)}
      BY <2>4 DEF StandbySend
    <3>4. \E r, thenReset, T : Transmit(packet, r, thenReset, T)
      BY <2>4 DEF StandbySend
    <3>5. (\E healthy : Standby(healthy)) /\ sent' \in {sent, sent + 1}
      BY <2>4 DEF StandbySend
    <3> HIDE DEF req, packet
    <3>6. RequestOK
      BY <3>1, <3>3, TransmittedType
    <3>7. WireOK
      BY <1>2, <3>2, <3>4
    <3>8. StateOK /\ SentOK
      BY <1>3, <3>5 DEF ClientTypeOK
    <3> QED
      BY <3>6, <3>7, <3>8 DEF MQTTPoll, ClientTypeOK
  <2> QED
    BY <1>8, <2>2, <2>3, <2>4 DEF PollStandby
<1> QED
  BY <1>4, <1>5, <1>6, <1>7, <1>8 DEF MQTTPoll

\* So does every step of the system.
LEMMA ClientTypeStep ==
    ASSUME ClientTypeOK, [Next]_vars
    PROVE  ClientTypeOK'
<1>1. CASE UNCHANGED <<brokerVars, mqttVars, history>>
  BY <1>1 DEF brokerVars, mqttVars, history, ClientTypeOK, BrokerTypeOK
<1>2. CASE Radio(Dispatch) \/ Radio(RadioPoll) \/ Modem \/ Clock \/ UNCHANGED vars
  BY <1>1, <1>2 DEF Radio, Modem, Clock, vars
<1>3. ASSUME NEW r \in Requests, publish(r)
      PROVE  ClientTypeOK'
  <2>1. m_publish_request' \in MQTTRequest
    <3>1. NextId(m_publish_request.packet_id) \in PacketId
      BY PacketsType DEF ClientTypeOK, MQTTRequest
    <3>2. r.qos \in QoS /\ r.disconnect \in BOOLEAN
      BY RequestsAssumption
    <3>3. 0 \in 0 .. MaxTries + 1
      BY MaxTriesAssumption
    <3>4. m_publish_request' = NewRequest(r, NextId(m_publish_request.packet_id))
      BY <1>3 DEF publish
    <3> QED
      BY <3>1, <3>2, <3>3, <3>4 DEF NewRequest, MQTTRequest
  <2> QED
    BY <1>3, <2>1 DEF publish, brokerVars, ClientTypeOK, BrokerTypeOK
<1>4. CASE Broker
  <2>1. UNCHANGED <<mqttVars, sent, wire>>
    BY <1>4 DEF Broker
  <2>2. BrokerTypeOK'
    <3>1. ASSUME NEW type, Takes(type)
          PROVE  net' \in Seq(OutPacket)
      BY <3>1, NetType DEF Takes, ClientTypeOK, BrokerTypeOK
    <3>2. CASE \E accepts \in BOOLEAN : BrokerConnect(accepts)
      BY <3>1, <3>2 DEF BrokerConnect, BrokerTypeOK
    <3>3. CASE BrokerPublish \/ BrokerHangUp
      BY <3>1, <3>3 DEF BrokerPublish, BrokerHangUp, BrokerTypeOK, ClientTypeOK
    <3>4. CASE BrokerPush
      BY <3>4 DEF BrokerPush, brokerVars, BrokerTypeOK, ClientTypeOK
    <3> QED
      BY <1>4, <3>2, <3>3, <3>4 DEF Broker
  <2>3. delivered' \in BOOLEAN
    BY <1>4 DEF Broker, ClientTypeOK
  <2> QED
    BY <2>1, <2>2, <2>3 DEF mqttVars, ClientTypeOK
<1>5. CASE MQTTPoll
  BY <1>5, MQTTPollType
<1> QED
  BY <1>2, <1>3, <1>4, <1>5 DEF Next

-----------------------------------------------------------------------------
(***************************************************************************)
(* The system implements the radio with its general client.                *)
(***************************************************************************)

\* The client's variables begin with their types.
LEMMA ClientTypeInit == Init => ClientTypeOK
<1> SUFFICES ASSUME Init PROVE ClientTypeOK
  OBVIOUS
<1>1. NoRequest \in MQTTRequest
  BY PacketsType, MaxTriesAssumption DEF NoRequest, MQTTRequest, QoS
<1>2. BrokerTypeOK
  BY EmptySeq DEF Init, BrokerInit, BrokerTypeOK
<1> QED
  BY <1>1, <1>2 DEF Init, ClientTypeOK, MQTTState

\* Every behaviour of the system is one of the radio and its general client:
\* GB4MQTT keeps the rule of calling connect() in SOCKET_READY, once a socket.
THEOREM ClientKeepsTheRule == Spec => ImplementsRadio
<1>1. Init => RadioInit
  BY DEF Init
<1> QED
  BY <1>1, ClientTypeInit, ClientTypeStep, LockstepInit, LockstepStep, NextSimulates, PTL
     DEF Spec, ImplementsRadio, RadioSpec

\* Every variable of the system keeps its type.
THEOREM TypeCorrect == Spec => []TypeOK
<1>1. RadioTypeOK /\ ClientTypeOK => TypeOK
  BY DEF TypeOK, ClientTypeOK
<1> QED
  BY <1>1, ClientKeepsTheRule, RadioTypeCorrect, ClientTypeInit, ClientTypeStep, PTL
     DEF Spec, ImplementsRadio

\* Under the real client too, the radio takes its socket for connected only
\* when it is, and notices that it is not.
THEOREM ConnectionCorrect == Spec => [](ConnectedMeansConnected /\ CloseIsNoticed)
BY ClientKeepsTheRule, RadioConnectedMeansConnected, RadioCloseIsNoticed, PTL
   DEF ImplementsRadio

-----------------------------------------------------------------------------
(***************************************************************************)
(* Waits.  Every limit is the age of a timer that nothing restarts in the  *)
(* wait it is for.                                                         *)
(***************************************************************************)

\* The timers of the radio's waits are the radio's.
LEMMA WaitTimers ==
    /\ \A s \in Waiting : WaitTimer(s) \in RadioTimer
    /\ RadioTimer \subseteq Timer
    /\ {"connack", "publish"} \subseteq Timer \ RadioTimer
    /\ "connack" \notin KeptAlive /\ "publish" \notin KeptAlive
BY MQTTTimerAssumption
   DEF Waiting, WaitTimer, RadioTimer, MQTTTimer, KeptAlive

\* A timer that is not restarted keeps its age, and time only adds to it.
LEMMA Ages ==
    ASSUME MillisTypeOK, NEW t \in Timer
    PROVE  /\ \A T : Restart(T) /\ t \notin T => elapsed'[t] >= elapsed[t]
           /\ Tick => elapsed'[t] >= elapsed[t]
           /\ UNCHANGED elapsed => elapsed'[t] >= elapsed[t]
BY DEF MillisTypeOK, Restart, Tick

\* radio.poll(): where the radio goes on waiting its timer has not run out, and
\* the client's timers are not its business.
LEMMA RadioPollWaits ==
    ASSUME MillisTypeOK, RadioPoll
    PROVE  /\ \A s \in Waiting : (m_state = s /\ m_state' = s) =>
                ~Expired(WaitTimer(s)) /\ UNCHANGED elapsed
           /\ \A t \in Timer \ RadioTimer : elapsed'[t] >= elapsed[t]
<1>1. \/ UNCHANGED elapsed
      \/ Restart({"socket_cooldown"})
      \/ Restart({"socket_create"})
  BY DEF RadioPoll, PollSocketCooldown, PollCreateSocket, PollAwaitSocketId, PollSocketReady,
         PollAwaitConnectResponse, PollAwaitConnection, PollConnected, Await, Enter
<1>2. ASSUME NEW t \in Timer \ RadioTimer
      PROVE  elapsed'[t] >= elapsed[t]
  <2>1. t \notin {"socket_cooldown"} /\ t \notin {"socket_create"}
    BY DEF RadioTimer
  <2> QED
    BY <1>1, <2>1, Ages
<1>3. ASSUME NEW s \in Waiting, m_state = s, m_state' = s
      PROVE  ~Expired(WaitTimer(s)) /\ UNCHANGED elapsed
  <2>1. CASE PollSocketCooldown
    BY <1>3, <2>1 DEF PollSocketCooldown, WaitTimer
  <2>2. CASE PollCreateSocket \/ PollSocketReady
    BY <1>3, <2>2 DEF PollCreateSocket, PollSocketReady, Waiting
  <2>3. CASE PollAwaitSocketId
    BY <1>3, <2>3 DEF PollAwaitSocketId, Await, Enter, WaitTimer
  <2>4. CASE PollAwaitConnectResponse
    BY <1>3, <2>4 DEF PollAwaitConnectResponse, Await, Enter, WaitTimer
  <2>5. CASE PollAwaitConnection
    BY <1>3, <2>5 DEF PollAwaitConnection, Await, Enter, WaitTimer
  <2>6. CASE PollConnected
    BY <1>3, <2>6 DEF PollConnected, Enter, Waiting, WaitTimer
  <2> QED
    BY <2>1, <2>2, <2>3, <2>4, <2>5, <2>6 DEF RadioPoll
<1> QED
  BY <1>2, <1>3

\* A poll of the client does not lengthen a wait of the radio: below SOCKET_READY
\* it does not call resetSocket(), above it only sends when nothing is being sent.
LEMMA ClientSparesRadio ==
    ASSUME MillisTypeOK, LockstepInv, MQTTPoll,
           NEW s \in Waiting, m_state = s, m_state' = s
    PROVE  elapsed'[WaitTimer(s)] >= elapsed[WaitTimer(s)]
<1> DEFINE t == WaitTimer(s)
<1>1. t \in RadioTimer /\ t \in Timer
  BY WaitTimers
<1>2. CASE m_state \in BelowReady
  <2>1. Restart({})
    BY <1>2 DEF MQTTPoll, PollRadioNotReady, PollNotConnected, PollConnectingSocket,
                PollConnectMQTT, PollAwaitConnack, PollStandby, leaveRadio
  <2> QED
    BY <1>1, <2>1, Ages
<1>3. CASE m_state \notin BelowReady
  <2>1. PICK T \in SUBSET (Timer \ RadioTimer) :
          \/ leaveRadio(T)
          \/ resetSocket(T)
          \/ MayConnect /\ connect(T)
          \/ \E r \in SendReturns, thenReset \in BOOLEAN : sendMessage(r, thenReset, T)
    BY MQTTPollSimulates DEF ClientStep
  <2>2. t \notin T
    BY <1>1
  <2>3. CASE leaveRadio(T)
    BY <1>1, <2>2, <2>3, Ages DEF leaveRadio
  <2>4. ~resetSocket(T) /\ ~MayConnect
    BY <1>3 DEF resetSocket, MayConnect, Waiting, BelowReady
  <2>5. ASSUME NEW r \in SendReturns, NEW thenReset \in BOOLEAN, sendMessage(r, thenReset, T)
        PROVE  elapsed'[t] >= elapsed[t]
    <3>1. thenReset = FALSE
      BY <1>3, <2>5 DEF sendMessage, BelowReady
    <3>2. r # "MESSAGE_SENT"
      BY <1>3, <2>5 DEF SendReturns, Waiting, BelowReady
    <3>3. Restart(T \cup {} \cup {})
      BY <2>5, <3>1, <3>2 DEF sendMessage
    <3> QED
      BY <1>1, <2>2, <3>3, Ages
  <2> QED
    BY <2>1, <2>3, <2>4, <2>5
<1> QED
  BY <1>2, <1>3

\* The client waits for CONNACK no longer than its timer, whatever it receives.
LEMMA ConnackWait ==
    ASSUME MillisTypeOK, MQTTPoll, state = "AWAIT_CONNACK", state' = "AWAIT_CONNACK"
    PROVE  elapsed'["connack"] >= elapsed["connack"] /\ ~Expired("connack")
<1>1. PollAwaitConnack
  BY DEF MQTTPoll, PollRadioNotReady, PollNotConnected, PollConnectingSocket,
         PollConnectMQTT, PollStandby
<1>2. Restart(KeptAlive) /\ ~Expired("connack")
  BY <1>1 DEF PollAwaitConnack, leaveRadio
<1> QED
  BY <1>2, WaitTimers, Ages

\* So does a request that has been sent or refused: its timer is restarted only
\* in the step that makes it ready to be sent, or sends it.
LEMMA RequestWait ==
    ASSUME MillisTypeOK, ClientTypeOK, MQTTPoll, Sent, Sent'
    PROVE  /\ elapsed'["publish"] >= elapsed["publish"]
           /\ state' = "STANDBY" => ~Due("publish")
<1>1. ASSUME NEW T, Restart(T), "publish" \notin T
      PROVE  elapsed'["publish"] >= elapsed["publish"]
  BY <1>1, WaitTimers, Ages
<1>2. CASE PollRadioNotReady
  BY <1>1, <1>2 DEF PollRadioNotReady, leaveRadio
<1>3. CASE PollNotConnected
  <2>1. /\ Restart({}) \/ Restart({} \cup {"connect"}) \/ Restart({} \cup {"socket_cooldown"})
        /\ state' # "STANDBY"
    BY <1>3 DEF PollNotConnected, leaveRadio, connect, resetSocket
  <2> QED
    BY <1>1, <2>1
<1>4. CASE PollConnectingSocket
  <2>1. /\ Restart({}) \/ Restart({} \cup {"socket_cooldown"})
        /\ state' # "STANDBY"
    BY <1>4 DEF PollConnectingSocket, leaveRadio, resetSocket
  <2> QED
    BY <1>1, <2>1
<1>5. CASE PollConnectMQTT
  <2>1. /\ \E r, thenReset, T : T \in {{}, {"connack"}} /\ sendMessage(r, thenReset, T)
        /\ state' # "STANDBY"
    BY <1>5 DEF PollConnectMQTT, Transmit
  <2>2. \E T : Restart(T) /\ "publish" \notin T
    BY <2>1 DEF sendMessage
  <2> QED
    BY <1>1, <2>1, <2>2
<1>6. CASE PollAwaitConnack
  <2>1. /\ Restart(KeptAlive) \/ Restart(KeptAlive \cup {"socket_cooldown"})
        /\ state' # "STANDBY"
    BY <1>6 DEF PollAwaitConnack, leaveRadio, resetSocket
  <2> QED
    BY <1>1, <2>1, WaitTimers
<1>7. CASE PollStandby
  <2>1. Acknowledged \in MQTTRequest
    BY AcknowledgedType
  <2>2. ~StandbyIdle /\ ~StandbySend /\ ~StandbyUnsendable
    BY DEF Sent, StandbyIdle, StandbySend, StandbyUnsendable
  <2>3. ~StandbyAcked
    BY <2>1 DEF Sent, StandbyAcked, MQTTRequest
  <2>4. ~StandbyTimeout
    BY <2>1 DEF Sent, StandbyTimeout, Retried, MQTTRequest
  <2>5. StandbyWait
    BY <1>7, <2>2, <2>3, <2>4 DEF PollStandby
  <2>6. Restart(KeptAlive) /\ ~Due("publish")
    BY <2>5 DEF StandbyWait, leaveRadio
  <2> QED
    BY <1>1, <2>6, WaitTimers
<1> QED
  BY <1>2, <1>3, <1>4, <1>5, <1>6, <1>7 DEF MQTTPoll

\* Every step of the system.
LEMMA WaitsStep ==
    ASSUME MillisTypeOK, ClientTypeOK, LockstepInv, Next
    PROVE  /\ \A s \in Waiting : (m_state = s /\ m_state' = s) =>
                RunsOut(WaitTimer(s), Expired(WaitTimer(s)), RadioPolled)
           /\ (state = "AWAIT_CONNACK" /\ state' = "AWAIT_CONNACK") =>
                RunsOut("connack", Expired("connack"), ClientPolled)
           /\ (Sent /\ Sent') =>
                RunsOut("publish", Due("publish"), ClientPolled /\ state' = "STANDBY")
<1> DEFINE Older(t) == elapsed'[t] >= elapsed[t]
<1>0. /\ \A s \in Waiting : WaitTimer(s) \in Timer /\ WaitTimer(s) # "publish"
      /\ "connack" \in Timer \ RadioTimer /\ "publish" \in Timer \ RadioTimer
  BY WaitTimers
<1>1. ASSUME UNCHANGED pc, \A t \in Timer : Older(t)
      PROVE  /\ \A s \in Waiting : RunsOut(WaitTimer(s), Expired(WaitTimer(s)), RadioPolled)
             /\ RunsOut("connack", Expired("connack"), ClientPolled)
             /\ RunsOut("publish", Due("publish"), ClientPolled /\ state' = "STANDBY")
  BY <1>0, <1>1 DEF RunsOut, RadioPolled, ClientPolled
<1>2. CASE Radio(Dispatch) \/ Modem \/ Broker
  <2>1. UNCHANGED pc /\ UNCHANGED elapsed
    BY <1>2 DEF Radio, Dispatch, Modem, Broker, radioVars
  <2> QED
    BY <1>1, <2>1, Ages
<1>3. CASE Clock
  <2>1. UNCHANGED pc /\ Tick
    BY <1>3 DEF Clock, Radio, radioVars
  <2> QED
    BY <1>1, <2>1, Ages
<1>4. CASE \E r \in Requests : publish(r)
  <2>1. UNCHANGED pc /\ Restart({"publish"}) /\ m_publish_request'.ready_to_send
    BY <1>4 DEF publish, radioVars, NewRequest
  <2>2. ~Sent'
    BY <2>1 DEF Sent
  <2>3. \A t \in Timer : t # "publish" => Older(t)
    BY <2>1, Ages
  <2> QED
    BY <1>0, <2>1, <2>2, <2>3 DEF RunsOut, RadioPolled, ClientPolled
<1>5. CASE Radio(RadioPoll)
  <2>1. RadioPoll
    BY <1>5 DEF Radio
  <2>2. ~ClientPolled
    BY <2>1 DEF RadioPoll, ClientPolled
  <2> QED
    BY <1>0, <2>1, <2>2, RadioPollWaits, Ages DEF RunsOut
<1>6. CASE MQTTPoll
  <2>1. ~RadioPolled
    BY <1>6 DEF MQTTPoll, RadioPolled
  <2> QED
    BY <1>6, <2>1, ClientSparesRadio, ConnackWait, RequestWait DEF RunsOut
<1> QED
  BY <1>2, <1>3, <1>4, <1>5, <1>6 DEF Next

\* Whatever the limits, and whatever modem, network and broker do: the timer of
\* a wait of the radio, of the client or of a request is not restarted while
\* that wait goes on, and the poll that finds it run out ends the wait.
THEOREM WaitsAreLimited == Spec => WaitsRunOut
<1>1. RadioTypeOK => MillisTypeOK
  BY DEF RadioTypeOK
<1>2. MillisTypeOK /\ ClientTypeOK /\ LockstepInv /\ [Next]_vars =>
        [ /\ \A s \in Waiting : (m_state = s /\ m_state' = s) =>
               RunsOut(WaitTimer(s), Expired(WaitTimer(s)), RadioPolled)
          /\ (state = "AWAIT_CONNACK" /\ state' = "AWAIT_CONNACK") =>
               RunsOut("connack", Expired("connack"), ClientPolled)
          /\ (Sent /\ Sent') =>
               RunsOut("publish", Due("publish"), ClientPolled /\ state' = "STANDBY")
        ]_vars
  BY WaitsStep
<1> QED
  BY <1>1, <1>2, ClientKeepsTheRule, RadioTypeCorrect, ClientTypeInit, ClientTypeStep,
     LockstepInit, LockstepStep, PTL
     DEF Spec, ImplementsRadio, WaitsRunOut
=============================================================================
