----------------------------- MODULE MQTTPacket -----------------------------
(***************************************************************************)
(* The MQTT control packets the client exchanges with the broker, reduced  *)
(* to the fields the client or the broker acts on.  Serialising and        *)
(* parsing them is done by the Eclipse Paho embedded library, which is not *)
(* part of this repository; packets are taken to be parsed as they were    *)
(* written, the first one of each socket receive frame.                    *)
(***************************************************************************)
EXTENDS Naturals

CONSTANT IdMod      \* number of packet identifiers before they repeat

ASSUME IdModAssumption == IdMod \in Nat \ {0}

PacketId == 0 .. IdMod - 1

\* Mutant: the counter itself is returned.
NextId_Wide(id) == id + 1

\* get_next() returns the low byte of a 16-bit counter, so identifiers repeat
\* modulo 256 and 0, which the MQTT standard forbids, is among them.
NextId(id) == (id + 1) % IdMod

\* From the broker.  ok: the return code of a CONNACK; id: the identifier of
\* an acknowledgement.
InPacket == [type : {"CONNACK", "PUBACK", "PUBREC", "PUBLISH"},
             ok : BOOLEAN, id : PacketId]

Connack(accepted) == [type |-> "CONNACK", ok |-> accepted, id |-> 0]
Puback(n) == [type |-> "PUBACK", ok |-> TRUE, id |-> n]
Pubrec(n) == [type |-> "PUBREC", ok |-> TRUE, id |-> n]
Push == [type |-> "PUBLISH", ok |-> TRUE, id |-> 0]

\* From the client.
QoS == 0 .. 2
OutPacket == [type : {"CONNECT", "PUBLISH", "DISCONNECT"},
              qos : QoS, id : PacketId, dup : BOOLEAN]

CONNECT == [type |-> "CONNECT", qos |-> 0, id |-> 0, dup |-> FALSE]
DISCONNECT == [type |-> "DISCONNECT", qos |-> 0, id |-> 0, dup |-> FALSE]
=============================================================================
