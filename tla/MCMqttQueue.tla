---------------------------- MODULE MCMqttQueue ----------------------------
(* Instances of MqttQueue for TLC.                                         *)
EXTENDS MqttQueue
=============================================================================
