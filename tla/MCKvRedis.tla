----------------------------- MODULE MCKvRedis -----------------------------
EXTENDS KvRedis
=============================================================================
