-------------------------- MODULE MCGB4MQTTClaims ---------------------------
(* The instances on which the claims are refuted. *)
EXTENDS MCGB4MQTT, GB4MQTTClaims

OnlyQoS2 == {[qos |-> 2, disconnect |-> FALSE]}
=============================================================================
