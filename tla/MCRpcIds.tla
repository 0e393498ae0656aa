------------------------------ MODULE MCRpcIds ------------------------------
(* Small instances of the local ids for TLC. *)
EXTENDS RpcIds

CONSTANTS w1, w2, m1, m2, m3, m4

\* All messages belong to one worker, or each worker has a pool of its own.
OneWorker == [m \in Message |-> w1]
TwoWorkers == [m \in Message |-> IF m \in {m1, m2} THEN w1 ELSE w2]
=============================================================================
