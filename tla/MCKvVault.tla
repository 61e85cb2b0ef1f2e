----------------------------- MODULE MCKvVault -----------------------------
EXTENDS KvVault
=============================================================================
