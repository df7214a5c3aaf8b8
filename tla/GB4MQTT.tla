------------------------------ MODULE GB4MQTT -------------------------------
(***************************************************************************)
(* gb4mqtt.cpp: the MQTT client on top of the radio.  One action for each  *)
(* way through GB4MQTT::poll() after its call of GB4XBee::poll(), and one  *)
(* for publish(), which main.cpp calls between two polls.                  *)
(***************************************************************************)
EXTENDS GB4XBee, MQTTBroker

CONSTANTS MaxTries,     \* GB4MQTT_PUBLISH_MAX_TRIES
          Requests      \* what the application publishes: [qos, disconnect]

MQTTTimer == {"connack", "publish", "keepalive"}

ASSUME MQTTTimerAssumption == Timer = RadioTimer \cup MQTTTimer
ASSUME MaxTriesAssumption == MaxTries \in Nat
ASSUME RequestsAssumption == Requests \subseteq [qos : QoS, disconnect : BOOLEAN]

VARIABLES state,
          m_publish_request,
          sent,         \* history: times the request was handed to the radio
          delivered,    \* history: the broker has taken the request
          wire          \* history: what was sent on this connection

mqttVars == <<state, m_publish_request>>
history == <<sent, delivered, wire>>
vars == <<RadioVars, brokerVars, mqttVars, history>>

MQTTState == {"NOT_CONNECTED", "CONNECTING_SOCKET", "CONNECT_MQTT",
              "AWAIT_CONNACK", "BEGIN_STANDBY", "STANDBY"}

MQTTRequest == [active : BOOLEAN, ready_to_send : BOOLEAN, qos : QoS,
                disconnect : BOOLEAN, duplicate : BOOLEAN, tries : 0 .. MaxTries + 1,
                got_puback : BOOLEAN, packet_id : PacketId]

NoRequest == [active |-> FALSE, ready_to_send |-> FALSE, qos |-> 0,
              disconnect |-> FALSE, duplicate |-> FALSE, tries |-> 0,
              got_puback |-> FALSE, packet_id |-> 0]

TypeOK ==
    /\ RadioTypeOK
    /\ BrokerTypeOK
    /\ state \in MQTTState
    /\ m_publish_request \in MQTTRequest
    /\ sent \in Nat
    /\ delivered \in BOOLEAN
    /\ wire \in {"none", "connect", "disconnect", "bad"}

Init ==
    /\ RadioInit
    /\ BrokerInit
    /\ state = "NOT_CONNECTED"
    /\ m_publish_request = NoRequest
    /\ sent = 0
    /\ delivered = FALSE
    /\ wire = "none"

-----------------------------------------------------------------------------
(***************************************************************************)
(* publish()                                                               *)
(***************************************************************************)

\* Bound on the environment: by the time an identifier comes round again,
\* nothing of its previous use is still under way.
Unused(n) ==
    /\ ~ \E i \in DOMAIN net : net[i].type = "PUBLISH" /\ net[i].id = n
    /\ ~ \E i \in DOMAIN uart : uart[i].pkt = Puback(n)
    /\ ~ (g_receive.pending /\ g_receive.pkt = Puback(n))

\* Mutant: the DUP flag of the overwritten request is kept.
NewRequest_StaleDup(r, id) ==
    [active |-> TRUE, ready_to_send |-> TRUE, qos |-> r.qos,
     disconnect |-> r.disconnect, duplicate |-> m_publish_request.duplicate,
     tries |-> 0, got_puback |-> FALSE, packet_id |-> id]

NewRequest(r, id) ==
    [active |-> TRUE, ready_to_send |-> TRUE, qos |-> r.qos,
     disconnect |-> r.disconnect, duplicate |-> FALSE,
     tries |-> 0, got_puback |-> FALSE, packet_id |-> id]

\* The request in progress, if any, is overwritten.
publish(r) ==
    /\ pc = "radio"
    /\ LET id == NextId(m_publish_request.packet_id) IN
         /\ Unused(id)
         /\ m_publish_request' = NewRequest(r, id)
    /\ Restart({"publish"})
    /\ sent' = 0
    /\ delivered' = FALSE
    /\ UNCHANGED <<radioVars, notifyVars, modemVars, brokerVars, state, wire>>

-----------------------------------------------------------------------------
(***************************************************************************)
(* Sending: radio.sendMessage(packet) returns r, and the socket is then    *)
(* reset if the caller does that in the same step.                         *)
(***************************************************************************)

Transmit(packet, r, thenReset, T) ==
    /\ sendMessage(r, thenReset, T)
    /\ IF r = "MESSAGE_SENT"
         THEN /\ Carry(packet)
              /\ wire' = CASE packet.type = "CONNECT" /\ wire = "none" -> "connect"
                           [] packet.type = "PUBLISH" /\ wire = "connect" -> "connect"
                           [] packet.type = "DISCONNECT" /\ wire = "connect" -> "disconnect"
                           [] OTHER -> "bad"
         ELSE UNCHANGED <<brokerVars, wire>>

\* The branch makes no call that sends.
Silent == UNCHANGED <<brokerVars, wire>>

-----------------------------------------------------------------------------
(***************************************************************************)
(* dispatchIncomming(): take the received packet, if any.                  *)
(***************************************************************************)

\* What it returns.  A PUBLISH leaves the result uninitialised.
DispatchReturns ==
    IF ~g_receive.pending THEN {"LISTENING"}
    ELSE CASE g_receive.pkt.type = "CONNACK" ->
                {IF g_receive.pkt.ok THEN "GOT_CONNACK" ELSE "CONNACK_REJECTED"}
           [] g_receive.pkt.type = "PUBACK" -> {"DISPATCHED_PUBACK"}
           [] g_receive.pkt.type = "PUBREC" -> {"DISPATCH_TYPE_ERROR"}
           [] g_receive.pkt.type = "PUBLISH" ->
                {"LISTENING", "GOT_CONNACK", "DISPATCH_TYPE_ERROR"}

\* Mutant: any PUBACK will do.
Acknowledged_AnyId ==
    [m_publish_request EXCEPT !.got_puback =
        @ \/ (g_receive.pending /\ g_receive.pkt.type = "PUBACK")]

\* The request after it: checkPuback() compares the identifiers.
Acknowledged ==
    [m_publish_request EXCEPT !.got_puback =
        @ \/ ( /\ g_receive.pending
               /\ g_receive.pkt.type = "PUBACK"
               /\ g_receive.pkt.id = m_publish_request.packet_id )]

\* Mutant: what is received restarts the wait for the acknowledgement too.
KeptAlive_Publish ==
    IF g_receive.pending /\ g_receive.pkt.type # "PUBLISH"
      THEN {"keepalive", "publish"} ELSE {}

\* The timers resetKeepAliveTimer() restarts in it.
KeptAlive ==
    IF g_receive.pending /\ g_receive.pkt.type # "PUBLISH" THEN {"keepalive"} ELSE {}

-----------------------------------------------------------------------------
(***************************************************************************)
(* GB4MQTT::poll(), after radio.poll() has returned m_state.               *)
(***************************************************************************)

PollRadioNotReady ==
    /\ m_state \in BelowReady
    /\ state' = "NOT_CONNECTED"
    /\ leaveRadio({}) /\ Silent
    /\ UNCHANGED <<g_receive, m_publish_request, sent>>

\* Mutant: the state does not follow the call of connect().
PollNotConnected_Stays ==
    /\ m_state \notin BelowReady
    /\ state = "NOT_CONNECTED"
    /\ IF m_publish_request.active
         THEN connect({}) /\ NewConnection /\ wire' = "none"
         ELSE leaveRadio({}) /\ Silent
    /\ UNCHANGED <<state, g_receive, m_publish_request, sent>>

PollNotConnected ==
    /\ m_state \notin BelowReady
    /\ state = "NOT_CONNECTED"
    /\ \/ /\ ~m_publish_request.active
          /\ leaveRadio({}) /\ Silent
          /\ UNCHANGED state
       \/ /\ m_publish_request.active
          /\ connect({})
          /\ NewConnection
          /\ wire' = "none"
          /\ state' = "CONNECTING_SOCKET"
       \/ /\ m_publish_request.active
          /\ "connect_send" \in Faults
          /\ resetSocket({}) /\ Silent
          /\ UNCHANGED state
    /\ UNCHANGED <<g_receive, m_publish_request, sent>>

PollConnectingSocket ==
    /\ m_state \notin BelowReady
    /\ state = "CONNECTING_SOCKET"
    /\ IF m_state \in {"AWAIT_CONNECTION", "AWAIT_CONNECT_RESPONSE"}
         THEN leaveRadio({}) /\ UNCHANGED state
       ELSE IF m_state # "CONNECTED"
         THEN resetSocket({}) /\ state' = "NOT_CONNECTED"
       ELSE leaveRadio({}) /\ state' = "CONNECT_MQTT"
    /\ Silent
    /\ UNCHANGED <<g_receive, m_publish_request, sent>>

\* sendConnectRequest()
PollConnectMQTT ==
    /\ m_state \notin BelowReady
    /\ state = "CONNECT_MQTT"
    /\ \E r \in SendReturns :
         CASE r = "MESSAGE_SENT" ->
                Transmit(CONNECT, r, FALSE, {"connack"}) /\ state' = "AWAIT_CONNACK"
           [] r \in {"IN_PROGRESS", "PACKET_ERROR"} ->
                Transmit(CONNECT, r, FALSE, {}) /\ UNCHANGED state
           [] OTHER ->
                Transmit(CONNECT, r, TRUE, {}) /\ state' = "NOT_CONNECTED"
    /\ UNCHANGED <<g_receive, m_publish_request, sent>>

\* Mutant: no timeout.
PollAwaitConnack_NoTimeout ==
    /\ m_state \notin BelowReady
    /\ state = "AWAIT_CONNACK"
    /\ g_receive' = AfterRead
    /\ m_publish_request' = Acknowledged
    /\ \E status \in DispatchReturns :
         CASE status = "GOT_CONNACK" -> leaveRadio(KeptAlive) /\ state' = "BEGIN_STANDBY"
           [] status = "LISTENING" -> leaveRadio(KeptAlive) /\ UNCHANGED state
           [] OTHER -> resetSocket(KeptAlive) /\ state' = "NOT_CONNECTED"
    /\ Silent
    /\ UNCHANGED sent

\* pollConnackStatus()
PollAwaitConnack ==
    /\ m_state \notin BelowReady
    /\ state = "AWAIT_CONNACK"
    /\ g_receive' = AfterRead
    /\ m_publish_request' = Acknowledged
    /\ \E status \in DispatchReturns :
         IF status = "GOT_CONNACK"
           THEN leaveRadio(KeptAlive) /\ state' = "BEGIN_STANDBY"
         ELSE IF status = "LISTENING" /\ ~Expired("connack")
           THEN leaveRadio(KeptAlive) /\ UNCHANGED state
         ELSE resetSocket(KeptAlive) /\ state' = "NOT_CONNECTED"
    /\ Silent
    /\ UNCHANGED sent

-----------------------------------------------------------------------------
(***************************************************************************)
(* handlePublishRequests(), after dispatchIncomming() in the same poll.    *)
(* Its result false resets the socket.                                     *)
(***************************************************************************)

\* Mutant: the socket is reset under a client that stays in STANDBY.
Standby_Stays(healthy) == state' = "STANDBY"

Standby(healthy) == state' = IF healthy THEN "STANDBY" ELSE "NOT_CONNECTED"

StandbyIdle ==
    /\ ~m_publish_request.active
    /\ m_publish_request' = Acknowledged
    /\ leaveRadio(KeptAlive) /\ Silent
    /\ Standby(TRUE)
    /\ UNCHANGED sent

\* Mutant: QoS 0 waits for its timeout as the others do.
Transmitted_Waits(req) ==
    [req EXCEPT !.duplicate = @ \/ (req.qos # 0 /\ ~req.disconnect)]

\* The request once it is sent.  A request that disconnects is not sent again
\* and never becomes a duplicate.
Transmitted(req) ==
    [req EXCEPT !.active = (req.qos # 0),
                !.duplicate = @ \/ (req.qos # 0 /\ ~req.disconnect)]

\* sendPublishRequest(): ready_to_send is cleared whatever comes of it.
StandbySend ==
    LET req == [Acknowledged EXCEPT !.ready_to_send = FALSE]
        packet == [type |-> "PUBLISH", qos |-> req.qos, id |-> req.packet_id,
                   dup |-> req.duplicate]
        first == req.qos # 0 /\ ~req.duplicate
    IN
    /\ m_publish_request.active
    /\ m_publish_request.ready_to_send
    /\ \E r \in SendReturns :
         CASE r = "MESSAGE_SENT" ->
                /\ m_publish_request' = Transmitted(req)
                /\ Transmit(packet, r, FALSE,
                            KeptAlive \cup (IF first THEN {"publish"} ELSE {}))
                /\ Standby(TRUE)
                /\ sent' = sent + 1
           [] r = "IN_PROGRESS" ->
                /\ m_publish_request' = req
                /\ Transmit(packet, r, FALSE, KeptAlive)
                /\ Standby(TRUE)
                /\ UNCHANGED sent
           [] OTHER ->
                /\ m_publish_request' = req
                /\ Transmit(packet, r, TRUE, KeptAlive)
                /\ Standby(FALSE)
                /\ UNCHANGED sent

\* PUBLISH_PACKET_ERROR: the packet cannot be serialised.
StandbyUnsendable ==
    /\ "serialize" \in Faults
    /\ m_publish_request.active
    /\ m_publish_request.ready_to_send
    /\ m_publish_request' =
         [Acknowledged EXCEPT !.ready_to_send = FALSE, !.active = FALSE]
    /\ leaveRadio(KeptAlive) /\ Silent
    /\ Standby(TRUE)
    /\ UNCHANGED sent

Sent == m_publish_request.active /\ ~m_publish_request.ready_to_send

\* Mutant: the socket is not reset after it.
SendDisconnect_NoReset ==
    /\ \E r \in SendReturns : Transmit(DISCONNECT, r, FALSE, KeptAlive)
    /\ Standby(TRUE)

\* "Disconnect after transmission": the result of this send is ignored.
SendDisconnect ==
    /\ \E r \in SendReturns : Transmit(DISCONNECT, r, TRUE, KeptAlive)
    /\ Standby(FALSE)

StandbyAcked ==
    /\ Sent
    /\ Acknowledged.got_puback
    /\ m_publish_request' = [Acknowledged EXCEPT !.active = FALSE]
    /\ IF m_publish_request.disconnect
         THEN SendDisconnect
         ELSE leaveRadio(KeptAlive) /\ Silent /\ Standby(TRUE)
    /\ UNCHANGED sent

\* Mutant: the time is not compared.
StandbyWait_NoTimeout ==
    /\ Sent
    /\ ~Acknowledged.got_puback
    /\ m_publish_request' = Acknowledged
    /\ leaveRadio(KeptAlive) /\ Silent
    /\ Standby(TRUE)
    /\ UNCHANGED sent

StandbyWait ==
    /\ Sent
    /\ ~Acknowledged.got_puback
    /\ ~Due("publish")
    /\ m_publish_request' = Acknowledged
    /\ leaveRadio(KeptAlive) /\ Silent
    /\ Standby(TRUE)
    /\ UNCHANGED sent

\* Mutant: one try too few.
TriesLeft_Fewer == m_publish_request.tries < MaxTries

TriesLeft == m_publish_request.tries <= MaxTries

Retried == [Acknowledged EXCEPT !.tries = @ + 1, !.ready_to_send = TRUE]

\* The publish timeout: give up after one try if the request disconnects,
\* else try again until tries has passed MaxTries.
StandbyTimeout ==
    /\ Sent
    /\ ~Acknowledged.got_puback
    /\ Due("publish")
    /\ \/ /\ m_publish_request.disconnect
          /\ m_publish_request' = [Acknowledged EXCEPT !.active = FALSE]
          /\ SendDisconnect
       \/ /\ ~m_publish_request.disconnect
          /\ ~TriesLeft
          /\ m_publish_request' = [Acknowledged EXCEPT !.active = FALSE]
          /\ resetSocket(KeptAlive) /\ Silent
          /\ Standby(FALSE)
       \/ /\ ~m_publish_request.disconnect
          /\ TriesLeft
          /\ m_publish_request' = Retried
          /\ leaveRadio(KeptAlive \cup {"publish"}) /\ Silent
          /\ Standby(TRUE)
    /\ UNCHANGED sent

PollStandby ==
    /\ m_state \notin BelowReady
    /\ state \in {"BEGIN_STANDBY", "STANDBY"}
    /\ g_receive' = AfterRead
    /\ \/ StandbyIdle
       \/ StandbySend
       \/ StandbyUnsendable
       \/ StandbyAcked
       \/ StandbyWait
       \/ StandbyTimeout

MQTTPoll ==
    /\ pc = "client"
    /\ pc' = "radio"
    /\ \/ PollRadioNotReady
       \/ PollNotConnected
       \/ PollConnectingSocket
       \/ PollConnectMQTT
       \/ PollAwaitConnack
       \/ PollStandby
    /\ UNCHANGED <<g_notify, delivered>>

-----------------------------------------------------------------------------
(***************************************************************************)
(* The system                                                              *)
(***************************************************************************)

\* A step of the radio's: the client's variables do not change.
Radio(step) == step /\ UNCHANGED <<brokerVars, mqttVars, history>>

Modem == Radio(ModemStep /\ UNCHANGED <<radioVars, elapsed, notifyVars>>)

Broker ==
    /\ \/ \E accepts \in BOOLEAN : BrokerConnect(accepts) /\ UNCHANGED delivered
       \/ /\ BrokerPublish
          /\ delivered' = (delivered \/ Head(net).id = m_publish_request.packet_id)
       \/ BrokerHangUp /\ UNCHANGED delivered
       \/ BrokerPush /\ UNCHANGED delivered
    /\ UNCHANGED <<radioVars, elapsed, notifyVars, mqttVars, sent, wire>>

Clock == Radio(Tick /\ UNCHANGED <<radioVars, notifyVars, modemVars>>)

Next ==
    \/ Radio(Dispatch)
    \/ Radio(RadioPoll)
    \/ MQTTPoll
    \/ \E r \in Requests : publish(r)
    \/ Modem
    \/ Broker
    \/ Clock

\* main.cpp calls poll() in an endless loop and the clock advances.  The modem,
\* the network, the broker and the application owe nothing.
Fairness ==
    /\ WF_vars(Radio(RadioPoll))
    /\ WF_vars(MQTTPoll)
    /\ WF_vars(Clock)

Spec == Init /\ [][Next]_vars /\ Fairness

-----------------------------------------------------------------------------
(***************************************************************************)
(* Properties: the two state machines                                      *)
(***************************************************************************)

\* poll() and radio.poll() stay in step although each keeps its own state: the
\* client has the radio's socket for its own exactly as long as the radio has
\* one, connect() is called once per socket and in SOCKET_READY, and the
\* client never sends over a socket the radio has given up.
InStep(s) ==
    \/ state = "NOT_CONNECTED" /\ s = "SOCKET_READY" /\ ~connect_in_progress
    \/ /\ state = "CONNECTING_SOCKET" /\ connect_in_progress
       /\ s \in {"AWAIT_CONNECT_RESPONSE", "AWAIT_CONNECTION"}
            \cup (IF pc = "radio" THEN {"SOCKET_READY"} ELSE {"CONNECTED"})
    \/ state \in {"CONNECT_MQTT", "AWAIT_CONNACK", "BEGIN_STANDBY", "STANDBY"} /\ s \in Open

Lockstep ==
    \/ InStep(m_state)
    \/ m_state \in BelowReady /\ (pc = "radio" => state = "NOT_CONNECTED")

\* The radio under this client is the radio under the general client of
\* GB4XBee: what holds of the second holds of the first.
ImplementsRadio == RadioSpec

\* On every connection CONNECT goes first and once, and nothing follows a
\* DISCONNECT, whatever was reset in between.
WireOrder == wire # "bad"

(***************************************************************************)
(* Properties: the life of a request                                       *)
(***************************************************************************)

\* The client believes a request acknowledged only if the broker has taken it;
\* the acknowledgement of an overwritten request, read late or on a later
\* connection, is not mistaken for it.
NoFalseAck == m_publish_request.got_puback => delivered

\* A PUBLISH about to be sent carries the DUP flag if and only if the request
\* has been sent before, on this connection or an earlier one.
DupHonest ==
    (m_publish_request.active /\ m_publish_request.ready_to_send)
        => (m_publish_request.duplicate <=> sent > 0)

\* What becomes of a request over refused sends, timeouts, retries, lost
\* connections and late acknowledgements is a life that Session describes.
Life == INSTANCE Session WITH
    Serialises <- "serialize" \notin Faults,
    active <- m_publish_request.active,
    kind   <- [qos |-> m_publish_request.qos, disconnect |-> m_publish_request.disconnect],
    tries  <- m_publish_request.tries,
    copies <- sent,
    taken  <- delivered,
    acked  <- m_publish_request.got_puback

ImplementsSession == Life!Spec

\* gb4mqtt.cpp:59, QoS 0 is "At most once": over refused sends, the timeouts that
\* follow them and all the connections a request lives through, whether or not
\* it disconnects.
AtMostOnce == m_publish_request.qos = 0 => sent <= 1

(***************************************************************************)
(* Properties: progress                                                    *)
(***************************************************************************)

\* What the end of every wait rests on.  While the radio, the client or a
\* request stays in one wait, nothing restarts the timer of that wait - no
\* frame, no packet, no reset by the other state machine - and a poll that
\* finds the timer run out does not leave the wait as it is.
RunsOut(t, over, polled) == elapsed'[t] >= elapsed[t] /\ ~(over /\ polled)

RadioPolled == pc = "radio" /\ pc' = "client"
ClientPolled == pc = "client" /\ pc' = "radio"

WaitsRunOut ==
    [][ /\ \A s \in Waiting : (m_state = s /\ m_state' = s) =>
              RunsOut(WaitTimer(s), Expired(WaitTimer(s)), RadioPolled)
        /\ (state = "AWAIT_CONNACK" /\ state' = "AWAIT_CONNACK") =>
              RunsOut("connack", Expired("connack"), ClientPolled)
        /\ (Sent /\ Sent') =>
              RunsOut("publish", Due("publish"), ClientPolled /\ state' = "STANDBY")
      ]_vars

\* The client does not wait for ever for a socket, or for a CONNACK.
ClientWaitsEnd ==
    \A s \in {"CONNECTING_SOCKET", "AWAIT_CONNACK"} : state = s ~> state # s

\* In STANDBY a request is settled - sent and, for QoS above 0, acknowledged,
\* or given up - unless the connection goes or another request replaces it.
RequestSettles ==
    \A n \in PacketId :
        (state = "STANDBY" /\ m_publish_request.active /\ m_publish_request.packet_id = n)
            ~> \/ state # "STANDBY"
               \/ ~m_publish_request.active
               \/ m_publish_request.packet_id # n
=============================================================================
