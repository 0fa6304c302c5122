--------------------------- MODULE MCRemoteQueue ---------------------------
(* Instances of RemoteQueue for TLC: w1 serves every job of its pool, and w2  *)
(* is an ephemeral worker bound to the first job.                            *)
EXTENDS RemoteQueue, TLC

CONSTANTS j1, j2, w1, w2

ServesPool == [w \in Workers |-> IF w = w1 THEN Jobs ELSE {j1}]
BoundW2    == [w \in Workers |-> IF w = w1 THEN NoJob ELSE j1]
=============================================================================
