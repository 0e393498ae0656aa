---------------------------- MODULE MCEventLoop ----------------------------
(* Small instances of the event loop for TLC. *)
EXTENDS EventLoop

CONSTANTS c1, c2, f1, f2, p1, p2
=============================================================================
