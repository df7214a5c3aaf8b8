--------------------------- MODULE GB4XBeeProofs ----------------------------
(***************************************************************************)
(* What holds of the radio with any client, for every set of timers and    *)
(* limits, every choice of faults and every bound.                         *)
(***************************************************************************)
EXTENDS GB4XBee, SequenceTheorems, TLAPS

(***************************************************************************)
(* Types                                                                   *)
(***************************************************************************)

\* Starting timers, and letting time pass, keeps the ages numbers.
LEMMA TimersType ==
    ASSUME MillisTypeOK
    PROVE  /\ \A T : Restart(T) => MillisTypeOK'
           /\ Tick => MillisTypeOK'
BY LimitAssumption DEF MillisTypeOK, Restart, Tick, Expired

\* A sequence of one frame, or of none.
LEMMA ShortSeq ==
    ASSUME NEW S, NEW e \in S
    PROVE  <<>> \in Seq(S) /\ <<e>> \in Seq(S)
BY EmptySeq

\* Adding a frame to the line, and taking one from it, keeps it a sequence.
LEMMA UartType ==
    ASSUME uart \in Seq(Frame)
    PROVE  /\ \A f \in Frame : Put(f) => uart' \in Seq(Frame)
           /\ uart # <<>> => Tail(uart) \in Seq(Frame) /\ Head(uart) \in Frame
BY DEF Put

\* The frames the modem makes are frames.
LEMMA FramesType ==
    /\ \A p \in InPacket : Rx(p) \in Frame
    /\ \A t \in FrameType, ok \in BOOLEAN : Notice(t, ok) \in Frame
    /\ Connack(FALSE) \in InPacket
BY IdModAssumption
   DEF Rx, Notice, Frame, FrameType, Counted, Connack, InPacket, PacketId

\* What the modem does on its own keeps its types.
LEMMA ModemType ==
    ASSUME ModemTypeOK,
           ModemStep \/ (HangUp /\ UNCHANGED owed)
    PROVE  ModemTypeOK'
<1> USE UartType, FramesType, ModemAssumption
        DEF ModemTypeOK, Link, FrameType, Counted
<1>1. ASSUME NEW ok \in BOOLEAN, ModemCreateResp(ok)
      PROVE  ModemTypeOK'
  BY <1>1 DEF ModemCreateResp
<1>2. ASSUME NEW ok \in BOOLEAN, ModemConnectResp(ok)
      PROVE  ModemTypeOK'
  BY <1>2 DEF ModemConnectResp
<1>3. ASSUME NEW ok \in BOOLEAN, ModemSockState(ok)
      PROVE  ModemTypeOK'
  BY <1>3 DEF ModemSockState
<1>4. ASSUME NEW ok \in BOOLEAN, ModemTxStatus(ok)
      PROVE  ModemTypeOK'
  BY <1>4 DEF ModemTxStatus
<1>5. CASE HangUp /\ UNCHANGED owed
  BY <1>5 DEF HangUp
<1> QED
  BY <1>1, <1>2, <1>3, <1>4, <1>5 DEF ModemStep, ModemClose

\* A step of the polling half keeps the types.
LEMMA RadioPollType ==
    ASSUME RadioTypeOK, RadioPoll
    PROVE  RadioTypeOK'
<1> USE DEF RadioTypeOK, RadioState, BelowReady, NotifyTypeOK, FrameType, Counted
<1>1. /\ pc' \in {"radio", "client"}
      /\ \A s \in RadioState : Enter(s) => m_state' \in RadioState /\ MillisTypeOK'
  BY TimersType DEF RadioPoll, Enter, MillisTypeOK
<1>2. Seen => g_notify' \in [type : FrameType \cup {"NONE"}, ok : BOOLEAN, unseen : BOOLEAN]
  BY DEF Seen
<1>3. CASE PollSocketCooldown \/ PollSocketReady
  BY <1>1, <1>3 DEF PollSocketCooldown, PollSocketReady, MillisTypeOK, notifyVars,
     modemVars, ModemTypeOK
<1>4. CASE PollCreateSocket
  <2>1. PICK created \in BOOLEAN :
          /\ ResetAndCreate(created)
          /\ IF created
               THEN m_state' = "AWAIT_SOCKET_ID" /\ Restart({"socket_create"})
               ELSE Enter("SOCKET_COOLDOWN_PERIOD")
    BY <1>4 DEF PollCreateSocket
  <2>2. Notice("SOCK_CLOSE_RESP", TRUE) \in Frame
    BY FramesType
  <2>3. ModemTypeOK'
    <3>1. <<>> \in Seq(Frame) /\ <<Notice("SOCK_CLOSE_RESP", TRUE)>> \in Seq(Frame)
      BY <2>2, ShortSeq
    <3>2. uart' \in Seq(Frame)
      BY <2>1, <3>1 DEF ResetAndCreate
    <3> QED
      BY <2>1, <3>2, ModemAssumption DEF ResetAndCreate, ModemTypeOK, Link
  <2>4. MillisTypeOK' /\ m_state' \in RadioState
    BY <2>1, <1>1, TimersType
  <2> QED
    BY <1>1, <1>2, <1>4, <2>3, <2>4 DEF PollCreateSocket
<1>5. ASSUME NEW s \in RadioState, NEW expected, NEW next \in RadioState, NEW timer,
             NEW late \in RadioState, Await(s, expected, next, timer, late)
      PROVE  RadioTypeOK'
  <2>1. m_state' \in RadioState /\ MillisTypeOK'
    BY <1>1, <1>5 DEF Await
  <2> QED
    BY <1>1, <1>2, <1>5, <2>1 DEF Await, modemVars, ModemTypeOK
<1>6. CASE PollConnected
  <2>1. m_state' \in RadioState /\ MillisTypeOK'
    BY <1>1, <1>6 DEF PollConnected, MillisTypeOK
  <2> QED
    BY <1>1, <1>2, <1>6, <2>1 DEF PollConnected, modemVars, ModemTypeOK
<1> QED
  BY <1>3, <1>4, <1>5, <1>6
     DEF RadioPoll, PollAwaitSocketId, PollAwaitConnectResponse, PollAwaitConnection

\* So does a step of any client.
LEMMA ClientStepType ==
    ASSUME RadioTypeOK, ClientStep
    PROVE  RadioTypeOK'
<1> USE DEF RadioTypeOK, RadioState, BelowReady
<1>1. NotifyTypeOK' /\ pc' \in {"radio", "client"}
  BY DEF ClientStep, Reads, AfterRead, NotifyTypeOK
<1>2. PICK T \in SUBSET (Timer \ RadioTimer) :
        \/ leaveRadio(T)
        \/ resetSocket(T)
        \/ MayConnect /\ connect(T)
        \/ \E r \in SendReturns, thenReset \in BOOLEAN : sendMessage(r, thenReset, T)
  BY DEF ClientStep
<1>3. CASE leaveRadio(T) \/ resetSocket(T) \/ (MayConnect /\ connect(T))
  BY <1>1, <1>3, TimersType
     DEF leaveRadio, resetSocket, connect, ConnectSocket, modemVars, ModemTypeOK, Link
<1>4. ASSUME NEW r \in SendReturns, NEW thenReset \in BOOLEAN, sendMessage(r, thenReset, T)
      PROVE  RadioTypeOK'
  <2>1. ModemTypeOK'
    BY <1>4, ModemAssumption DEF sendMessage, TakeMessage, modemVars, ModemTypeOK
  <2>2. MillisTypeOK'
    BY <1>4, TimersType DEF sendMessage
  <2>3. m_state' \in RadioState /\ connect_in_progress' \in BOOLEAN
    BY <1>4 DEF sendMessage
  <2> QED
    BY <1>1, <2>1, <2>2, <2>3
<1> QED
  BY <1>2, <1>3, <1>4

\* So does every step.
LEMMA RadioTypeStep ==
    ASSUME RadioTypeOK, [RadioNext]_RadioVars
    PROVE  RadioTypeOK'
<1> USE DEF RadioTypeOK
<1>1. CASE Dispatch
  <2>1. Head(uart) \in Frame /\ uart' \in Seq(Frame)
    BY <1>1, UartType DEF Dispatch, ModemTypeOK
  <2>2. NotifyTypeOK'
    <3>1. CASE Head(uart).type = "RX"
      <4>1. Head(uart).pkt \in InPacket
        BY <2>1 DEF Frame
      <4>2. ReceiveCallback(Head(uart).pkt) /\ UNCHANGED g_notify
        BY <1>1, <3>1 DEF Dispatch
      <4>3. g_receive' \in [pending : BOOLEAN, pkt : InPacket]
        BY <4>1, <4>2 DEF ReceiveCallback
      <4> QED
        BY <4>2, <4>3 DEF NotifyTypeOK
    <3>2. CASE Head(uart).type # "RX"
      <4>1. Head(uart).type \in FrameType /\ Head(uart).ok \in BOOLEAN
        BY <2>1, <3>2 DEF Frame
      <4>2. NotifyCallback(Head(uart).type, Head(uart).ok) /\ UNCHANGED g_receive
        BY <1>1, <3>2 DEF Dispatch
      <4>3. (g_notify.unseen \/ Head(uart).type \in Counted) \in BOOLEAN
        OBVIOUS
      <4>4. g_notify' \in [type : FrameType \cup {"NONE"},
                           ok : BOOLEAN, unseen : BOOLEAN]
        BY <4>1, <4>2, <4>3 DEF NotifyCallback
      <4> QED
        BY <4>2, <4>4 DEF NotifyTypeOK
    <3> QED
      BY <3>1, <3>2
  <2> QED
    BY <1>1, <2>1, <2>2 DEF Dispatch, radioVars, MillisTypeOK, ModemTypeOK
<1>2. CASE RadioPoll
  BY <1>2, RadioPollType
<1>3. CASE ClientStep
  BY <1>3, ClientStepType
<1>4. CASE Passing
  BY <1>4, TimersType DEF Passing, radioVars, notifyVars, modemVars, NotifyTypeOK, ModemTypeOK
<1>5. CASE Environment
  <2>1. ModemTypeOK'
    <3>1. CASE /\ link = "up"
               /\ \E pkt \in InPacket : Put(Rx(pkt))
               /\ UNCHANGED <<link, owed>>
      BY <3>1, UartType, FramesType DEF ModemTypeOK
    <3> QED
      BY <1>5, <3>1, ModemType DEF Environment
  <2> QED
    BY <1>5, <2>1 DEF Environment, radioVars, notifyVars, NotifyTypeOK, MillisTypeOK
<1>6. CASE UNCHANGED RadioVars
  BY <1>6 DEF RadioVars, radioVars, notifyVars, modemVars, NotifyTypeOK, ModemTypeOK,
     MillisTypeOK
<1> QED
  BY <1>1, <1>2, <1>3, <1>4, <1>5, <1>6 DEF RadioNext

\* The variables begin with their types.
LEMMA RadioTypeInit == RadioInit => RadioTypeOK
<1> SUFFICES ASSUME RadioInit PROVE RadioTypeOK
  OBVIOUS
<1>1. MillisTypeOK
  BY LimitAssumption DEF RadioInit, MillisInit, MillisTypeOK
<1>2. NotifyTypeOK
  BY FramesType DEF RadioInit, NotifyInit, NotifyTypeOK
<1>3. ModemTypeOK
  BY ModemAssumption, EmptySeq DEF RadioInit, ModemInit, ModemTypeOK, Link
<1> QED
  BY <1>1, <1>2, <1>3 DEF RadioInit, RadioTypeOK, RadioState, BelowReady

\* Every variable of the radio keeps its type.
THEOREM RadioTypeCorrect == RadioSpec => []RadioTypeOK
BY RadioTypeInit, RadioTypeStep, PTL DEF RadioSpec

-----------------------------------------------------------------------------
(***************************************************************************)
(* ConnectedMeansConnected                                                 *)
(*                                                                         *)
(* The radio enters CONNECTED on a frame that says so, which it may find   *)
(* in g_notify or still on the line; such a frame exists only while the    *)
(* socket is up or has gone down.  A new socket begins without one because *)
(* the old socket's frames are dropped and the mailbox is reset, and it    *)
(* has none before connect() because connect() is called once.             *)
(***************************************************************************)

SaysConnected(f) == f.type = "SOCK_STATE" /\ f.ok

ConnectionReported ==
    \/ \E i \in DOMAIN uart : SaysConnected(uart[i])
    \/ g_notify.unseen /\ SaysConnected(g_notify)

Unconnected == m_state = "AWAIT_SOCKET_ID" \/ MayConnect

ConnectionInv ==
    /\ RadioTypeOK
    /\ m_state \in Open \/ ConnectionReported => link \in {"up", "down"}
    /\ m_state = "AWAIT_SOCKET_ID" => ~connect_in_progress
    /\ Unconnected => link \in {"closed", "creating", "created"}

\* The line as a queue: what is on it after a frame is added ...
LEMMA PutFrame ==
    ASSUME uart \in Seq(Frame), NEW f \in Frame, Put(f)
    PROVE  /\ uart' # <<>>
           /\ uart'[Len(uart')] = f
           /\ \A i \in DOMAIN uart' : uart'[i] = f \/ (i \in DOMAIN uart /\ uart'[i] = uart[i])
BY DEF Put

\* ... and after one is taken.
LEMMA TakeFrame ==
    ASSUME uart \in Seq(Frame), uart # <<>>, uart' = Tail(uart)
    PROVE  /\ 1 \in DOMAIN uart /\ Head(uart) = uart[1]
           /\ \A i \in DOMAIN uart' : i + 1 \in DOMAIN uart /\ uart'[i] = uart[i + 1]
           /\ uart[Len(uart)] = IF uart' = <<>> THEN Head(uart) ELSE uart'[Len(uart')]
<1>1. /\ Len(uart) \in Nat \ {0}
      /\ Len(uart') = Len(uart) - 1
      /\ \A i \in 1 .. Len(uart) - 1 : uart'[i] = uart[i + 1]
      /\ Head(uart) = uart[1]
      /\ DOMAIN uart = 1 .. Len(uart) /\ DOMAIN uart' = 1 .. Len(uart')
      /\ uart' \in Seq(Frame)
  BY EmptySeq
<1>2. uart' = <<>> <=> Len(uart) = 1
  <2>1. uart' # <<>> => Len(uart') \in Nat \ {0}
    BY <1>1, EmptySeq
  <2>2. uart' = <<>> => Len(uart') = 0
    OBVIOUS
  <2>3. Len(uart) \in Nat \ {0} /\ Len(uart') = Len(uart) - 1
    BY <1>1
  <2>4. CASE uart' = <<>>
    BY <2>2, <2>3, <2>4
  <2>5. CASE uart' # <<>>
    BY <2>1, <2>3, <2>5
  <2> QED
    BY <2>4, <2>5
<1> QED
  BY <1>1, <1>2

\* Dispatching a frame moves a report from the line to the mailbox.
LEMMA ConnectionDispatch ==
    ASSUME ConnectionInv, RadioTypeOK', Dispatch
    PROVE  ConnectionInv'
<1> USE DEF ConnectionInv, Open, Unconnected, MayConnect
<1>1. UNCHANGED <<m_state, connect_in_progress, link>>
  BY DEF Dispatch, radioVars
<1>2. ASSUME ConnectionReported' PROVE ConnectionReported
  <2>1. uart \in Seq(Frame) /\ uart # <<>> /\ uart' = Tail(uart)
    BY DEF Dispatch, RadioTypeOK, ModemTypeOK
  <2>2. CASE \E i \in DOMAIN uart' : SaysConnected(uart'[i])
    BY <2>1, <2>2, TakeFrame DEF ConnectionReported, SaysConnected
  <2>3. CASE (g_notify.unseen /\ SaysConnected(g_notify))'
    <3>1. CASE Head(uart).type = "RX"
      BY <2>3, <3>1 DEF Dispatch, ConnectionReported, SaysConnected
    <3>2. CASE Head(uart).type # "RX"
      <4>1. g_notify'.type = Head(uart).type /\ g_notify'.ok = Head(uart).ok
        BY <3>2 DEF Dispatch, NotifyCallback
      <4> QED
        BY <2>1, <2>3, <4>1, TakeFrame DEF ConnectionReported, SaysConnected
    <3> QED
      BY <3>1, <3>2
  <2> QED
    BY <1>2, <2>2, <2>3 DEF ConnectionReported
<1> QED
  BY <1>1, <1>2

\* Only AWAIT_CONNECTION enters CONNECTED, and only on a report.
LEMMA ConnectionPoll ==
    ASSUME ConnectionInv, RadioTypeOK', RadioPoll
    PROVE  ConnectionInv'
<1> USE DEF ConnectionInv, Open, Unconnected, MayConnect
<1>1. CASE PollCreateSocket
  <2>1. PICK created \in BOOLEAN : ResetAndCreate(created)
    BY <1>1 DEF PollCreateSocket
  <2>2. ~ConnectionReported'
    <3>1. g_notify'.unseen = FALSE
      BY <1>1 DEF PollCreateSocket, Seen, RadioTypeOK, NotifyTypeOK
    <3>2. uart' = <<>> \/ uart' = <<Notice("SOCK_CLOSE_RESP", TRUE)>>
      BY <2>1 DEF ResetAndCreate
    <3>3. \A i \in DOMAIN uart' : uart'[i].type = "SOCK_CLOSE_RESP"
      <4>1. CASE uart' = <<>>
        BY <4>1
      <4>2. CASE uart' = <<Notice("SOCK_CLOSE_RESP", TRUE)>>
        <5>1. DOMAIN uart' = {1} /\ uart'[1] = Notice("SOCK_CLOSE_RESP", TRUE)
          BY <4>2
        <5> QED
          BY <5>1 DEF Notice
      <4> QED
        BY <3>2, <4>1, <4>2
    <3> QED
      BY <3>1, <3>3 DEF ConnectionReported, SaysConnected
  <2>3. m_state' \in {"AWAIT_SOCKET_ID", "SOCKET_COOLDOWN_PERIOD"} /\ ~connect_in_progress'
    BY <1>1 DEF PollCreateSocket, Enter
  <2> QED
    BY <2>1, <2>2, <2>3 DEF ResetAndCreate
<1>2. CASE PollSocketCooldown \/ PollSocketReady
  BY <1>2 DEF PollSocketCooldown, PollSocketReady, notifyVars, modemVars,
     ConnectionReported, SaysConnected
<1>3. ASSUME UNCHANGED <<uart, link, connect_in_progress>>,
             g_notify' = g_notify \/ Seen
      PROVE  (ConnectionReported' => ConnectionReported)
  BY <1>3 DEF Seen, ConnectionReported, SaysConnected, RadioTypeOK, NotifyTypeOK
<1>4. CASE PollAwaitSocketId
  BY <1>3, <1>4 DEF PollAwaitSocketId, Await, Enter, modemVars
<1>5. CASE PollAwaitConnectResponse
  BY <1>3, <1>5 DEF PollAwaitConnectResponse, Await, Enter, modemVars
<1>6. CASE PollAwaitConnection
  <2>1. m_state' = "CONNECTED" => ConnectionReported
    BY <1>6 DEF PollAwaitConnection, Await, Enter, ConnectionReported, SaysConnected
  <2>2. m_state' \in {"CONNECTED", "AWAIT_CONNECTION", "SOCKET_COOLDOWN_PERIOD"}
    BY <1>6 DEF PollAwaitConnection, Await, Enter
  <2> QED
    BY <1>3, <1>6, <2>1, <2>2 DEF PollAwaitConnection, Await, modemVars
<1>7. CASE PollConnected
  BY <1>3, <1>7 DEF PollConnected, Enter, modemVars
<1> QED
  BY <1>1, <1>2, <1>4, <1>5, <1>6, <1>7 DEF RadioPoll

\* A client connects an unconnected socket only.
LEMMA ConnectionClient ==
    ASSUME ConnectionInv, RadioTypeOK', ClientStep
    PROVE  ConnectionInv'
<1> USE DEF ConnectionInv, Open, Unconnected, MayConnect
<1>1. UNCHANGED <<uart, g_notify>>
  BY DEF ClientStep, leaveRadio, resetSocket, connect, ConnectSocket, sendMessage,
     TakeMessage, modemVars
<1>2. ConnectionReported' <=> ConnectionReported
  BY <1>1 DEF ConnectionReported, SaysConnected
<1>3. PICK T \in SUBSET (Timer \ RadioTimer) :
        \/ leaveRadio(T)
        \/ resetSocket(T)
        \/ MayConnect /\ connect(T)
        \/ \E r \in SendReturns, thenReset \in BOOLEAN : sendMessage(r, thenReset, T)
  BY DEF ClientStep
<1>4. CASE leaveRadio(T) \/ resetSocket(T)
  BY <1>2, <1>4 DEF leaveRadio, resetSocket, modemVars
<1>5. CASE MayConnect /\ connect(T)
  BY <1>2, <1>5 DEF connect, ConnectSocket
<1>6. ASSUME NEW r \in SendReturns, NEW thenReset \in BOOLEAN, sendMessage(r, thenReset, T)
      PROVE  ConnectionInv'
  <2>1. UNCHANGED <<link, connect_in_progress>>
    BY <1>6 DEF sendMessage, TakeMessage, modemVars
  <2>2. m_state' \in {m_state, "SOCKET_COOLDOWN_PERIOD"} \/ (m_state = "CONNECTED" /\ m_state' = "SENDING")
    BY <1>6 DEF sendMessage, SendReturns
  <2> QED
    BY <1>2, <2>1, <2>2
<1> QED
  BY <1>3, <1>4, <1>5, <1>6

\* The modem reports a connection when it has one.
LEMMA ConnectionEnvironment ==
    ASSUME ConnectionInv, RadioTypeOK', Environment
    PROVE  ConnectionInv'
<1> USE DEF ConnectionInv, Open, Unconnected, MayConnect
<1>1. UNCHANGED <<m_state, connect_in_progress, g_notify>> /\ uart \in Seq(Frame)
  BY DEF Environment, radioVars, notifyVars, RadioTypeOK, ModemTypeOK
<1>2. ASSUME NEW f \in Frame, Put(f), ~SaysConnected(f), ConnectionReported'
      PROVE  ConnectionReported
  BY <1>1, <1>2, PutFrame DEF ConnectionReported, SaysConnected
<1>3. \A t \in FrameType, ok \in BOOLEAN :
        /\ Notice(t, ok) \in Frame
        /\ SaysConnected(Notice(t, ok)) => t = "SOCK_STATE" /\ ok
  BY FramesType DEF Notice, SaysConnected
<1>4. \A p \in InPacket : Rx(p) \in Frame /\ ~SaysConnected(Rx(p))
  BY FramesType DEF Rx, SaysConnected
<1> USE DEF FrameType, Counted
<1>5. ASSUME NEW ok \in BOOLEAN,
             ModemCreateResp(ok) \/ ModemConnectResp(ok) \/ ModemTxStatus(ok)
      PROVE  ConnectionInv'
  <2>1. ConnectionReported' => ConnectionReported
    BY <1>2, <1>3, <1>5 DEF ModemCreateResp, ModemConnectResp, ModemTxStatus
  <2>2. \/ UNCHANGED link
        \/ link = "creating" /\ link' \in {"created", "closed"}
        \/ link = "connecting" /\ link' \in {"opening", "closed"}
    BY <1>5 DEF ModemCreateResp, ModemConnectResp, ModemTxStatus
  <2> QED
    BY <1>1, <2>1, <2>2
<1>6. ASSUME NEW ok \in BOOLEAN, ModemSockState(ok)
      PROVE  ConnectionInv'
  BY <1>1, <1>6 DEF ModemSockState
<1>7. CASE HangUp
  BY <1>1, <1>7 DEF HangUp
<1>8. CASE /\ link = "up"
           /\ \E pkt \in InPacket : Put(Rx(pkt))
           /\ UNCHANGED <<link, owed>>
  BY <1>1, <1>8
<1> QED
  BY <1>5, <1>6, <1>7, <1>8 DEF Environment, ModemStep, ModemClose

\* So the invariant is kept by every step.
LEMMA ConnectionStep ==
    ASSUME ConnectionInv, [RadioNext]_RadioVars
    PROVE  ConnectionInv'
<1>1. RadioTypeOK'
  BY RadioTypeStep DEF ConnectionInv
<1>2. CASE Passing \/ UNCHANGED RadioVars
  BY <1>1, <1>2 DEF Passing, RadioVars, radioVars, notifyVars, modemVars, ConnectionInv,
     ConnectionReported, SaysConnected, Unconnected, MayConnect
<1> QED
  BY <1>1, <1>2, ConnectionDispatch, ConnectionPoll, ConnectionClient,
     ConnectionEnvironment DEF RadioNext

\* It holds at first.
LEMMA ConnectionInit == RadioInit => ConnectionInv
BY RadioTypeInit
   DEF RadioInit, NotifyInit, ModemInit, ConnectionInv, ConnectionReported, SaysConnected,
       Open, Unconnected, MayConnect

\* The radio is in CONNECTED or SENDING only over a socket the modem connected.
THEOREM RadioConnectedMeansConnected == RadioSpec => []ConnectedMeansConnected
<1>1. ConnectionInv => ConnectedMeansConnected
  BY DEF ConnectionInv, ConnectedMeansConnected
<1> QED
  BY <1>1, ConnectionInit, ConnectionStep, PTL DEF RadioSpec

-----------------------------------------------------------------------------
(***************************************************************************)
(* CloseIsNoticed                                                          *)
(*                                                                         *)
(* Once the socket is down every frame the modem makes reports a loss.  So *)
(* the last frame on the line does, or, when all have been dispatched, the *)
(* one in g_notify; and the poll that sees it leaves CONNECTED.            *)
(***************************************************************************)

LossInv ==
    /\ link = "down" =>
         IF uart = <<>> THEN ReportsLoss(g_notify) ELSE ReportsLoss(uart[Len(uart)])
    /\ link = "down" /\ uart = <<>> /\ m_state \in Open => g_notify.unseen
    /\ pc = "client" /\ m_state \in Open => ~g_notify.unseen

\* Dispatching a report of loss leaves it unread in the mailbox.
LEMMA LossDispatch ==
    ASSUME RadioTypeOK, LossInv, Dispatch
    PROVE  LossInv'
<1>1. UNCHANGED <<m_state, pc, link>> /\ pc = "radio"
  BY DEF Dispatch, radioVars
<1>2. uart \in Seq(Frame) /\ uart # <<>> /\ uart' = Tail(uart)
  BY DEF Dispatch, RadioTypeOK, ModemTypeOK
<1>3. ASSUME link = "down", uart' = <<>>
      PROVE  ReportsLoss(g_notify') /\ g_notify'.unseen
  <2>1. ReportsLoss(Head(uart))
    BY <1>2, <1>3, TakeFrame DEF LossInv
  <2>2. NotifyCallback(Head(uart).type, Head(uart).ok)
    BY <2>1 DEF Dispatch, ReportsLoss
  <2> QED
    BY <2>1, <2>2 DEF NotifyCallback, ReportsLoss, Counted
<1>4. ASSUME link = "down", uart' # <<>>
      PROVE  ReportsLoss(uart'[Len(uart')])
  BY <1>2, <1>4, TakeFrame DEF LossInv
<1> QED
  BY <1>1, <1>3, <1>4 DEF LossInv

\* A poll that reads a report of loss leaves CONNECTED and SENDING.
LEMMA LossPoll ==
    ASSUME RadioTypeOK, LossInv, RadioPoll
    PROVE  LossInv'
<1> USE DEF LossInv, Open
<1>1. CASE PollCreateSocket
  BY <1>1 DEF PollCreateSocket, ResetAndCreate, Enter
<1>2. Seen => g_notify' = [g_notify EXCEPT !.unseen = FALSE] /\ ~g_notify'.unseen
              /\ g_notify'.type = g_notify.type /\ g_notify'.ok = g_notify.ok
  BY DEF Seen, RadioTypeOK, NotifyTypeOK
<1>3. CASE PollSocketCooldown \/ PollSocketReady
  BY <1>3 DEF PollSocketCooldown, PollSocketReady, notifyVars, modemVars
<1>4. CASE PollAwaitSocketId \/ PollAwaitConnectResponse
  BY <1>2, <1>4 DEF PollAwaitSocketId, PollAwaitConnectResponse, Await, Enter, modemVars,
     ReportsLoss
<1>5. CASE PollAwaitConnection
  <2>1. m_state' = "CONNECTED" => Seen /\ g_notify.type = "SOCK_STATE" /\ g_notify.ok
    BY <1>5 DEF PollAwaitConnection, Await, Enter
  <2>2. m_state' \in {"CONNECTED", "AWAIT_CONNECTION", "SOCKET_COOLDOWN_PERIOD"}
    BY <1>5 DEF PollAwaitConnection, Await, Enter
  <2>3. UNCHANGED <<link, uart>> /\ (Seen \/ g_notify' = g_notify)
    BY <1>5 DEF PollAwaitConnection, Await, modemVars
  <2> QED
    BY <1>2, <2>1, <2>2, <2>3 DEF ReportsLoss
<1>6. CASE PollConnected
  <2>1. UNCHANGED <<link, uart>>
    BY <1>6 DEF PollConnected, modemVars
  <2>2. CASE g_notify.unseen
    BY <1>2, <1>6, <2>1, <2>2 DEF PollConnected, Enter, ReportsLoss
  <2>3. CASE ~g_notify.unseen
    BY <1>6, <2>1, <2>3 DEF PollConnected
  <2> QED
    BY <2>2, <2>3
<1> QED
  BY <1>1, <1>3, <1>4, <1>5, <1>6 DEF RadioPoll

\* A client takes no report away.
LEMMA LossClient ==
    ASSUME RadioTypeOK, LossInv, ClientStep
    PROVE  LossInv'
<1>1. pc' = "radio" /\ UNCHANGED <<uart, g_notify>>
  BY DEF ClientStep, leaveRadio, resetSocket, connect, ConnectSocket, sendMessage,
     TakeMessage, modemVars
<1>2. link' = "connecting" \/ link' = link
  BY DEF ClientStep, leaveRadio, resetSocket, connect, ConnectSocket, sendMessage,
     TakeMessage, modemVars
<1>3. m_state' \in Open => m_state \in Open
  BY DEF ClientStep, leaveRadio, resetSocket, connect, sendMessage, SendReturns, Open
<1> QED
  BY <1>1, <1>2, <1>3 DEF LossInv

\* When the connection goes, its report is put on the line.
LEMMA LossEnvironment ==
    ASSUME RadioTypeOK, LossInv, Environment
    PROVE  LossInv'
<1>1. UNCHANGED <<m_state, pc, g_notify>> /\ uart \in Seq(Frame)
  BY DEF Environment, radioVars, notifyVars, RadioTypeOK, ModemTypeOK
<1>2. \A t \in FrameType : Notice(t, FALSE) \in Frame /\ Notice(t, FALSE).type = t
                           /\ ~Notice(t, FALSE).ok
  BY FramesType DEF Notice
<1>3. ASSUME NEW t \in {"SOCK_STATE", "TX_STATUS"}, Put(Notice(t, FALSE))
      PROVE  LossInv'
  <2>1. t \in FrameType
    BY DEF FrameType, Counted
  <2> QED
    BY <1>1, <1>2, <1>3, <2>1, PutFrame DEF LossInv, ReportsLoss
<1>4. CASE link' # "down"
  BY <1>1, <1>4 DEF LossInv
<1>5. CASE HangUp
  BY <1>3, <1>5 DEF HangUp
<1>6. ASSUME NEW ok \in BOOLEAN, ModemSockState(ok), link' = "down"
      PROVE  LossInv'
  BY <1>3, <1>6 DEF ModemSockState
<1>7. ASSUME NEW ok \in BOOLEAN, ModemTxStatus(ok), link' = "down"
      PROVE  LossInv'
  BY <1>3, <1>7 DEF ModemTxStatus
<1>8. ASSUME NEW ok \in BOOLEAN, ModemCreateResp(ok) \/ ModemConnectResp(ok)
      PROVE  link' # "down"
  BY <1>8 DEF ModemCreateResp, ModemConnectResp
<1>9. CASE link = "up" /\ UNCHANGED link
  BY <1>4, <1>9
<1> QED
  BY <1>4, <1>5, <1>6, <1>7, <1>8, <1>9 DEF Environment, ModemStep, ModemClose

\* So the invariant is kept by every step.
LEMMA LossStep ==
    ASSUME RadioTypeOK, LossInv, [RadioNext]_RadioVars
    PROVE  LossInv'
<1>1. CASE Passing \/ UNCHANGED RadioVars
  BY <1>1 DEF Passing, RadioVars, radioVars, notifyVars, modemVars, LossInv
<1> QED
  BY <1>1, LossDispatch, LossPoll, LossClient, LossEnvironment DEF RadioNext

\* The poll after the frames of a lost connection have been dispatched leaves
\* CONNECTED and SENDING.
THEOREM RadioCloseIsNoticed == RadioSpec => []CloseIsNoticed
<1>1. RadioInit => LossInv
  BY DEF RadioInit, ModemInit, LossInv
<1>2. RadioTypeOK /\ LossInv => CloseIsNoticed
  <2> SUFFICES ASSUME RadioTypeOK, LossInv, pc = "client", link = "down", ~LossUnread
               PROVE  m_state \notin Open
    BY DEF CloseIsNoticed
  <2>1. uart = <<>>
    <3>1. uart # <<>> => Len(uart) \in DOMAIN uart
      BY EmptySeq DEF RadioTypeOK, ModemTypeOK
    <3> QED
      BY <3>1 DEF LossInv, LossUnread
  <2> QED
    BY <2>1 DEF LossInv
<1> QED
  BY <1>1, <1>2, RadioTypeInit, RadioTypeStep, LossStep, PTL DEF RadioSpec
=============================================================================
