-------------------------- MODULE MCKafkaMessaging --------------------------
EXTENDS KafkaMessaging
=============================================================================
