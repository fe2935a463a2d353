------------------------------ MODULE MCFarmBus ------------------------------
(* The message bus for TLC: two MQTT connections that share a client id, one     *)
(* WebSocket, one OSC address, two passwords.                                    *)
EXTENDS FarmBus
=============================================================================
