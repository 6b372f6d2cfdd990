--------------------------- MODULE MCTaskUpdates ---------------------------
(* Two workers with a test each, of which one may run again and the other  *)
(* has messages that are reported at the same time.                        *)
EXTENDS TaskUpdates

CONSTANTS w1, w2, t1, t2, f1, f2

MCWorkerOf == t1 :> w1 @@ t2 :> w2
MCRetries == t1 :> 1 @@ t2 :> 0
MCReported == w1 :> 1 @@ w2 :> 2
MCFileOf == w1 :> f1 @@ w2 :> f2

=============================================================================
