----------------------------- MODULE MCGB4MQTT ------------------------------
(* The client, the radio, the modem and the broker, on small instances. *)
EXTENDS GB4MQTT

MCTimer == RadioTimer \cup MQTTTimer
MCLimit == [t \in MCTimer |-> IF t \in {"publish"} THEN 1 ELSE 0]

\* Long enough for a poll to come in the middle of the wait.
MCLongLimit == [t \in MCTimer |-> IF t \in {"publish"} THEN 2 ELSE 0]

\* What main.cpp publishes, and the kinds publish() documents but QoS 2 with
\* disconnect: the client tells QoS 2 from QoS 1 by the broker's answer only, which
\* [qos |-> 2, disconnect |-> FALSE] has.
MainRequest == [qos |-> 1, disconnect |-> TRUE]
OnlyMain == {MainRequest}
MixedRequests == {MainRequest, [qos |-> 1, disconnect |-> FALSE]}
AnyRequest == [qos : QoS, disconnect : BOOLEAN] \ {[qos |-> 2, disconnect |-> TRUE]}
=============================================================================
