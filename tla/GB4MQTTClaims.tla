--------------------------- MODULE GB4MQTTClaims ----------------------------
(***************************************************************************)
(* What comments of the source say of the program and the program does     *)
(* not do.  Each property is refuted by a run of its own.                  *)
(***************************************************************************)
EXTENDS GB4MQTT

\* gb4mqtt.cpp:107: poll() returns CONNECTED when "a connection to the [broker]
\* has been established and messages can now be published".  A CONNACK read
\* late, from the mailbox an earlier socket filled, passes for the new one; so
\* may a PUBLISH, for which pollConnackStatus() is given a status that was
\* never assigned (gb4mqtt.cpp:451).
ConnectedMeansAccepted ==
    state \in {"BEGIN_STANDBY", "STANDBY"} => broker = "accepted"

Settles == m_publish_request.active /\ ~m_publish_request'.active

\* gb4mqtt.cpp:51: the message "will be sent"; gb4mqtt.cpp:60: QoS 1 is "At least
\* once"; gb4mqtt.cpp:679: "Retransmit failed packets".  A QoS 1 request ends
\* acknowledged or with its tries used up.  One that disconnects is given up at
\* its first timeout, whether or not it was ever sent.
AtLeastOnce ==
    [][ (Settles /\ m_publish_request.qos = 1)
            => m_publish_request'.got_puback \/ ~TriesLeft ]_vars

\* gb4mqtt.h:25: GB4MQTT_PUBLISH_MAX_TRIES, even if the first send is no try yet,
\* and QoS 2 is "Only once" (gb4mqtt.cpp:61).  tries is compared with > before it
\* is incremented, and QoS 2 is sent again as QoS 1 is.
WithinMaxTries == sent <= MaxTries + 1

\* gb4mqtt.cpp:734 "Disconnect after transmission" and gb4mqtt.cpp:65 "Disconnect
\* after publish": a request that ends well, acknowledged or sent with QoS 0, ends
\* with a DISCONNECT.  When the acknowledgement overtakes the modem's TX_STATUS
\* the radio is still SENDING, and DISCONNECT is refused and forgotten; after
\* QoS 0 none is ever sent.
EndsWell == m_publish_request'.got_puback \/ sent' > sent

DisconnectIsSent ==
    [][ (Settles /\ EndsWell /\ m_publish_request.disconnect)
            => wire' = "disconnect" ]_vars
=============================================================================
