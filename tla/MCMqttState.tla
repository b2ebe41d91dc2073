---------------------------- MODULE MCMqttState ----------------------------
EXTENDS MqttState
=============================================================================
