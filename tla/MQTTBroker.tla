----------------------------- MODULE MQTTBroker -----------------------------
(***************************************************************************)
(* The network and the MQTT broker at the other end of the socket: an      *)
(* environment, not part of this repository.  The network keeps the order  *)
(* of a connection's packets; the broker takes them one at a time, as late *)
(* as it likes, and answers as the MQTT 3.1.1 standard says.  A packet the *)
(* modem reports as failed may nevertheless be one the broker has taken.   *)
(***************************************************************************)
EXTENDS XBeeModem

VARIABLES net,      \* packets of this connection the broker has not taken yet
          broker    \* what the broker has made of this connection's CONNECT

brokerVars == <<net, broker>>

BrokerTypeOK ==
    /\ net \in Seq(OutPacket)
    /\ broker \in {"none", "accepted", "rejected"}

BrokerInit == net = <<>> /\ broker = "none"

\* A new connection begins, or goes on.
NewConnection == net' = <<>> /\ broker' = "none"
Carry(packet) == net' = Append(net, packet) /\ UNCHANGED broker

Takes(type) ==
    /\ link = "up"
    /\ net # <<>>
    /\ Head(net).type = type
    /\ net' = Tail(net)

\* A packet that shares a receive frame with the one before it: the client
\* parses the first packet of a frame, and drops the rest.
Merged == "merge" \in Faults /\ uart # <<>> /\ uart[Len(uart)].type = "RX"

Answers(packet) ==
    /\ \/ Put(Rx(packet))
       \/ Merged /\ UNCHANGED uart
    /\ UNCHANGED <<link, owed>>

BrokerConnect(accepts) ==
    /\ Takes("CONNECT")
    /\ accepts \/ "reject" \in Faults
    /\ broker' = IF accepts THEN "accepted" ELSE "rejected"
    /\ Answers(Connack(accepts))

BrokerPublish ==
    /\ broker = "accepted"
    /\ Takes("PUBLISH")
    /\ UNCHANGED broker
    /\ CASE Head(net).qos = 0 -> UNCHANGED modemVars
         [] Head(net).qos = 1 -> Answers(Puback(Head(net).id))
         [] Head(net).qos = 2 -> Answers(Pubrec(Head(net).id))

\* DISCONNECT, or a PUBLISH on a connection the broker refused: it hangs up.
BrokerHangUp ==
    /\ \/ Takes("DISCONNECT")
       \/ broker # "accepted" /\ Takes("PUBLISH")
    /\ HangUp
    /\ UNCHANGED <<broker, owed>>

\* A PUBLISH of the broker's own; the client never subscribes to anything.
BrokerPush ==
    /\ "push" \in Faults
    /\ link = "up" /\ broker = "accepted"
    /\ Answers(Push)
    /\ UNCHANGED brokerVars
=============================================================================
