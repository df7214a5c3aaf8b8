------------------------------ MODULE GB4XBee -------------------------------
(***************************************************************************)
(* gb4xbee.cpp: the state machine that keeps a socket of the XBee modem    *)
(* connected, from the moment pollStartup() has configured the modem and   *)
(* hands over in BEGIN_CREATE_SOCKET.                                      *)
(*                                                                         *)
(* GB4MQTT::poll() calls GB4XBee::poll() and then the radio's other        *)
(* methods.  pc tells which half of a round is next: "radio" before        *)
(* GB4XBee::poll(), "client" after it.  xbee_dev_tick() is the first thing *)
(* poll() does, so frames are dispatched, as many as have arrived or       *)
(* fewer, while pc = "radio".                                              *)
(*                                                                         *)
(* RadioSpec composes the radio with any client that keeps to one rule: it *)
(* calls connect() in SOCKET_READY only, and once per socket.  GB4MQTT     *)
(* replaces that client by the real one.                                   *)
(***************************************************************************)
EXTENDS XBeeModem, Millis

RadioTimer == {"socket_cooldown", "socket_create", "connect", "send"}

ASSUME RadioTimerAssumption == RadioTimer \subseteq Timer

VARIABLES pc,                   \* "radio" | "client"
          m_state,
          connect_in_progress

radioVars == <<pc, m_state, connect_in_progress>>
RadioVars == <<radioVars, elapsed, notifyVars, modemVars>>

\* The states of poll() below SOCKET_READY, and the others.
BelowReady == {"SOCKET_COOLDOWN_PERIOD", "BEGIN_CREATE_SOCKET", "AWAIT_SOCKET_ID"}
RadioState == BelowReady \cup {"SOCKET_READY", "AWAIT_CONNECT_RESPONSE",
                               "AWAIT_CONNECTION", "CONNECTED", "SENDING"}

RadioTypeOK ==
    /\ MillisTypeOK /\ NotifyTypeOK /\ ModemTypeOK
    /\ pc \in {"radio", "client"}
    /\ m_state \in RadioState
    /\ connect_in_progress \in BOOLEAN

RadioInit ==
    /\ MillisInit /\ NotifyInit /\ ModemInit
    /\ pc = "radio"
    /\ m_state = "BEGIN_CREATE_SOCKET"
    /\ connect_in_progress = FALSE

-----------------------------------------------------------------------------
(***************************************************************************)
(* GB4XBee::poll()                                                         *)
(***************************************************************************)

\* xbee_dev_tick() takes one frame and calls its callback.
Dispatch ==
    /\ pc = "radio"
    /\ uart # <<>>
    /\ uart' = Tail(uart)
    /\ IF Head(uart).type = "RX"
         THEN ReceiveCallback(Head(uart).pkt) /\ UNCHANGED g_notify
         ELSE NotifyCallback(Head(uart).type, Head(uart).ok) /\ UNCHANGED g_receive
    /\ UNCHANGED <<radioVars, elapsed, link, owed>>

\* m_state = s, through resetSocket() where s is the cooldown state.
Enter(s) ==
    /\ m_state' = s
    /\ IF s = "SOCKET_COOLDOWN_PERIOD"
         THEN Restart({"socket_cooldown"})
         ELSE UNCHANGED elapsed

PollSocketCooldown ==
    /\ m_state = "SOCKET_COOLDOWN_PERIOD"
    /\ m_state' = IF Expired("socket_cooldown") THEN "BEGIN_CREATE_SOCKET" ELSE m_state
    /\ UNCHANGED <<connect_in_progress, elapsed, notifyVars, modemVars>>

PollCreateSocket ==
    /\ m_state = "BEGIN_CREATE_SOCKET"
    /\ Seen
    /\ connect_in_progress' = FALSE
    /\ \E created \in BOOLEAN :
         /\ created \/ "create_send" \in Faults
         /\ ResetAndCreate(created)
         /\ IF created
              THEN m_state' = "AWAIT_SOCKET_ID" /\ Restart({"socket_create"})
              ELSE Enter("SOCKET_COOLDOWN_PERIOD")
    /\ UNCHANGED g_receive

\* In state s, wait for a good frame of the expected type and go on to next.
\* Any other counted frame resets the socket; silence is allowed until the
\* timer has expired, then the state becomes late.
Await(s, expected, next, timer, late) ==
    /\ m_state = s
    /\ IF g_notify.unseen
         THEN /\ Seen
              /\ Enter(IF g_notify.type = expected /\ g_notify.ok
                         THEN next ELSE "SOCKET_COOLDOWN_PERIOD")
         ELSE /\ Enter(IF Expired(timer) THEN late ELSE s)
              /\ UNCHANGED g_notify
    /\ UNCHANGED <<connect_in_progress, g_receive, modemVars>>

PollAwaitSocketId ==
    Await("AWAIT_SOCKET_ID", "SOCK_CREATE_RESP", "SOCKET_READY",
          "socket_create", "BEGIN_CREATE_SOCKET")

\* The notification mailbox is not looked at here.
PollSocketReady ==
    /\ m_state = "SOCKET_READY"
    /\ m_state' = IF connect_in_progress THEN "AWAIT_CONNECT_RESPONSE" ELSE m_state
    /\ UNCHANGED <<connect_in_progress, elapsed, notifyVars, modemVars>>

\* Mutant: the response to the request is taken for the connection.
PollAwaitConnectResponse_Early ==
    Await("AWAIT_CONNECT_RESPONSE", "SOCK_CONNECT_RESP", "CONNECTED",
          "connect", "SOCKET_COOLDOWN_PERIOD")

PollAwaitConnectResponse ==
    Await("AWAIT_CONNECT_RESPONSE", "SOCK_CONNECT_RESP", "AWAIT_CONNECTION",
          "connect", "SOCKET_COOLDOWN_PERIOD")

PollAwaitConnection ==
    Await("AWAIT_CONNECTION", "SOCK_STATE", "CONNECTED",
          "connect", "SOCKET_COOLDOWN_PERIOD")

\* Mutant: the status of a transmission is not looked at.
PollConnected_NoTxCheck ==
    /\ m_state \in {"CONNECTED", "SENDING"}
    /\ IF g_notify.unseen
         THEN /\ Seen
              /\ Enter(IF g_notify.type = "SOCK_STATE" /\ ~g_notify.ok
                         THEN "SOCKET_COOLDOWN_PERIOD" ELSE "CONNECTED")
         ELSE /\ m_state' = IF Expired("send") THEN "CONNECTED" ELSE m_state
              /\ UNCHANGED <<g_notify, elapsed>>
    /\ UNCHANGED <<connect_in_progress, g_receive, modemVars>>

\* Mutant: SENDING has no timeout.
PollConnected_NoTimeout ==
    /\ m_state \in {"CONNECTED", "SENDING"}
    /\ IF g_notify.unseen
         THEN /\ Seen
              /\ Enter(IF g_notify.type \in {"SOCK_STATE", "TX_STATUS"} /\ ~g_notify.ok
                         THEN "SOCKET_COOLDOWN_PERIOD" ELSE "CONNECTED")
         ELSE UNCHANGED <<m_state, g_notify, elapsed>>
    /\ UNCHANGED <<connect_in_progress, g_receive, modemVars>>

\* SENDING falls through to CONNECTED, whether or not it has timed out.
PollConnected ==
    /\ m_state \in {"CONNECTED", "SENDING"}
    /\ IF g_notify.unseen
         THEN /\ Seen
              /\ Enter(IF g_notify.type \in {"SOCK_STATE", "TX_STATUS"} /\ ~g_notify.ok
                         THEN "SOCKET_COOLDOWN_PERIOD" ELSE "CONNECTED")
         ELSE /\ m_state' = IF Expired("send") THEN "CONNECTED" ELSE m_state
              /\ UNCHANGED <<g_notify, elapsed>>
    /\ UNCHANGED <<connect_in_progress, g_receive, modemVars>>

RadioPoll ==
    /\ pc = "radio"
    /\ pc' = "client"
    /\ \/ PollSocketCooldown
       \/ PollCreateSocket
       \/ PollAwaitSocketId
       \/ PollSocketReady
       \/ PollAwaitConnectResponse
       \/ PollAwaitConnection
       \/ PollConnected

-----------------------------------------------------------------------------
(***************************************************************************)
(* The methods a client calls between two polls.  Each restarts, with the  *)
(* radio's own timers, the set T of timers the client starts in that step. *)
(***************************************************************************)

\* No call that changes the radio.
leaveRadio(T) ==
    Restart(T) /\ UNCHANGED <<m_state, connect_in_progress, modemVars>>

resetSocket(T) ==
    /\ m_state' = "SOCKET_COOLDOWN_PERIOD"
    /\ Restart(T \cup {"socket_cooldown"})
    /\ UNCHANGED <<connect_in_progress, modemVars>>

\* connect() when xbee_sock_connect() succeeds.
connect(T) ==
    /\ connect_in_progress' = TRUE
    /\ ConnectSocket
    /\ Restart(T \cup {"connect"})
    /\ UNCHANGED m_state

\* What sendMessage() may return now.
SendReturns ==
    IF m_state = "SENDING" THEN {"IN_PROGRESS"}
    ELSE IF m_state # "CONNECTED" THEN {"DISCONNECTED"}
    ELSE {"MESSAGE_SENT"} \cup SendErrors

\* sendMessage() returns r; then, if the client says so, resetSocket().
sendMessage(r, thenReset, T) ==
    /\ m_state' = IF thenReset THEN "SOCKET_COOLDOWN_PERIOD"
                  ELSE IF r = "MESSAGE_SENT" THEN "SENDING" ELSE m_state
    /\ Restart(T \cup (IF r = "MESSAGE_SENT" THEN {"send"} ELSE {})
                 \cup (IF thenReset THEN {"socket_cooldown"} ELSE {}))
    /\ IF r = "MESSAGE_SENT" THEN TakeMessage ELSE UNCHANGED modemVars
    /\ UNCHANGED connect_in_progress

\* getReceivedMessage(), by a client that may or may not ask.
Reads == g_receive' \in {g_receive, AfterRead}

\* The rule a client keeps.
MayConnect == m_state = "SOCKET_READY" /\ ~connect_in_progress

ClientStep ==
    /\ pc = "client"
    /\ pc' = "radio"
    /\ Reads
    /\ UNCHANGED g_notify
    /\ \E T \in SUBSET (Timer \ RadioTimer) :
         \/ leaveRadio(T)
         \/ resetSocket(T)
         \/ MayConnect /\ connect(T)
         \/ \E r \in SendReturns, thenReset \in BOOLEAN : sendMessage(r, thenReset, T)

-----------------------------------------------------------------------------
\* Time, and the main loop starting the client's timers outside poll().
Passing ==
    /\ \/ Tick
       \/ \E T \in SUBSET (Timer \ RadioTimer) : Restart(T)
    /\ UNCHANGED <<radioVars, notifyVars, modemVars>>

\* The modem, and what the network sends the client.
Environment ==
    /\ \/ ModemStep
       \/ HangUp /\ UNCHANGED owed
       \/ /\ link = "up"
          /\ \E pkt \in InPacket : Put(Rx(pkt))
          /\ UNCHANGED <<link, owed>>
    /\ UNCHANGED <<radioVars, elapsed, notifyVars>>

RadioNext == Dispatch \/ RadioPoll \/ ClientStep \/ Passing \/ Environment

RadioSpec == RadioInit /\ [][RadioNext]_RadioVars

-----------------------------------------------------------------------------
(***************************************************************************)
(* Properties                                                              *)
(***************************************************************************)

Open == {"CONNECTED", "SENDING"}

\* The radio takes its socket for connected only when the modem had it up: a
\* notification left over from an earlier socket, or a late answer to an
\* earlier request, never passes for the one AWAIT_CONNECTION waits for.
ConnectedMeansConnected == m_state \in Open => link \in {"up", "down"}

\* A lost connection is not overlooked: once the frames that report it have
\* been dispatched, the poll that follows has left CONNECTED and SENDING, even
\* though frames overwrite one another in g_notify.
ReportsLoss(f) == f.type \in {"SOCK_STATE", "TX_STATUS"} /\ ~f.ok
LossUnread == \E i \in DOMAIN uart : ReportsLoss(uart[i])
CloseIsNoticed ==
    (pc = "client" /\ link = "down" /\ ~LossUnread) => m_state \notin Open

\* No waiting state is for ever: each has a timer that is running, whatever
\* the modem does not answer.
Waiting == {"SOCKET_COOLDOWN_PERIOD", "AWAIT_SOCKET_ID", "AWAIT_CONNECT_RESPONSE",
            "AWAIT_CONNECTION", "SENDING"}
WaitTimer(s) ==
    CASE s = "SOCKET_COOLDOWN_PERIOD" -> "socket_cooldown"
      [] s = "AWAIT_SOCKET_ID" -> "socket_create"
      [] s \in {"AWAIT_CONNECT_RESPONSE", "AWAIT_CONNECTION"} -> "connect"
      [] s = "SENDING" -> "send"
WaitsEnd == \A s \in Waiting : m_state = s ~> m_state # s
=============================================================================
