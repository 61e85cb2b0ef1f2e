--------------------------- MODULE MCClientCache ---------------------------
EXTENDS ClientCache, TLC

CONSTANTS l1, q1, q2

MCLatticeOf == q1 :> l1 @@ q2 :> l1
=============================================================================
