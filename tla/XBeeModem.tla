----------------------------- MODULE XBeeModem ------------------------------
(***************************************************************************)
(* The XBee cellular modem and its socket driver, as the firmware sees     *)
(* them.  Neither is part of this repository: this module is an            *)
(* environment, read off the calls gb4xbee.cpp makes (xbee_sock_reset,     *)
(* _create, _connect, _send, xbee_dev_tick) and the frames its callbacks   *)
(* tell apart.  The modem may answer late or never, may fail what it is    *)
(* asked for when Faults says so, and may lose the connection.             *)
(*                                                                         *)
(* The one promise the driver makes: xbee_sock_reset() forgets the socket, *)
(* and frames of a forgotten socket reach no callback.                     *)
(***************************************************************************)
EXTENDS XBeeNotify, Sequences

CONSTANTS Faults,    \* which calls and requests may fail
          MaxUart,   \* bound: frames waiting on the serial line
          MaxOwed    \* bound: TX_STATUS frames the modem still has to send

Fault == {"create_send", "create", "connect_send", "connect", "refuse", "close", "tx",
          "ENOENT", "EBUSY", "EMSGSIZE", "EOTHER", "serialize", "reject", "push", "merge"}

ASSUME ModemAssumption ==
    /\ Faults \subseteq Fault
    /\ MaxUart \in Nat \ {0}
    /\ MaxOwed \in Nat \ {0}

VARIABLES link,   \* the one socket, as the modem knows it
          uart,   \* frames from the modem not yet taken by xbee_dev_tick
          owed    \* messages accepted from the firmware without a TX_STATUS yet

modemVars == <<link, uart, owed>>

Link == {"closed", "creating", "created", "connecting", "opening", "up", "down"}

Frame == [type : FrameType \cup {"RX"}, ok : BOOLEAN, pkt : InPacket]

Notice(type, ok) == [type |-> type, ok |-> ok, pkt |-> Connack(FALSE)]
Rx(pkt) == [type |-> "RX", ok |-> TRUE, pkt |-> pkt]

ModemTypeOK ==
    /\ link \in Link
    /\ uart \in Seq(Frame)
    /\ owed \in 0 .. MaxOwed

ModemInit == link = "closed" /\ uart = <<>> /\ owed = 0

Put(frame) == Len(uart) < MaxUart /\ uart' = Append(uart, frame)

(***************************************************************************)
(* What the driver calls do.                                               *)
(***************************************************************************)

\* xbee_sock_reset(): every socket is closed; the close may be confirmed.
\* It is followed by xbee_sock_create(), sent or not.
ResetAndCreate(created) ==
    /\ link' = IF created THEN "creating" ELSE "closed"
    /\ uart' \in {<<>>, <<Notice("SOCK_CLOSE_RESP", TRUE)>>}
    /\ owed' = 0

\* xbee_sock_connect() sent.
ConnectSocket == link' = "connecting" /\ UNCHANGED <<uart, owed>>

\* xbee_sock_send() accepted.
TakeMessage ==
    /\ owed' = IF owed < MaxOwed THEN owed + 1 ELSE owed
    /\ UNCHANGED <<link, uart>>

\* The errors xbee_sock_send() may return on a connected socket, as
\* sendMessage() translates them.
SendErrors ==
    { r \in {"DISCONNECTED", "BUFFER_FULL", "PACKET_ERROR", "SOCKET_ERROR"} :
        CASE r = "DISCONNECTED" -> "ENOENT" \in Faults
          [] r = "BUFFER_FULL"  -> "EBUSY" \in Faults
          [] r = "PACKET_ERROR" -> "EMSGSIZE" \in Faults
          [] r = "SOCKET_ERROR" -> "EOTHER" \in Faults }

(***************************************************************************)
(* What the modem does on its own.                                         *)
(***************************************************************************)

ModemCreateResp(ok) ==
    /\ link = "creating"
    /\ ok \/ "create" \in Faults
    /\ link' = IF ok THEN "created" ELSE "closed"
    /\ Put(Notice("SOCK_CREATE_RESP", ok))
    /\ UNCHANGED owed

ModemConnectResp(ok) ==
    /\ link = "connecting"
    /\ ok \/ "connect" \in Faults
    /\ link' = IF ok THEN "opening" ELSE "closed"
    /\ Put(Notice("SOCK_CONNECT_RESP", ok))
    /\ UNCHANGED owed

ModemSockState(ok) ==
    /\ link = "opening"
    /\ ok \/ "refuse" \in Faults
    /\ link' = IF ok THEN "up" ELSE "down"
    /\ Put(Notice("SOCK_STATE", ok))
    /\ UNCHANGED owed

\* The connection ends: by the network, or by the broker.
HangUp == link = "up" /\ link' = "down" /\ Put(Notice("SOCK_STATE", FALSE))

ModemClose == "close" \in Faults /\ HangUp /\ UNCHANGED owed

\* A message is reported sent only over a connection that is up.
ModemTxStatus(ok) ==
    /\ owed > 0
    /\ IF ok THEN link = "up" ELSE link = "down" \/ "tx" \in Faults
    /\ owed' = owed - 1
    /\ Put(Notice("TX_STATUS", ok))
    /\ UNCHANGED link

ModemStep ==
    \/ \E ok \in BOOLEAN : \/ ModemCreateResp(ok)
                           \/ ModemConnectResp(ok)
                           \/ ModemSockState(ok)
                           \/ ModemTxStatus(ok)
    \/ ModemClose
=============================================================================
