--------------------------- MODULE MCBlobstoreFs ---------------------------
(* One actor instance that uploads one object, starts over after an error, *)
(* resends after a timeout and cancels, next to everybody else's removals. *)
EXTENDS BlobstoreFs, TLC

CONSTANTS c1, p1, k1

MCHomeOf == p1 :> k1
MCTargetOf == c1 :> p1
=============================================================================
