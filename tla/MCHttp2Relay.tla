---------------------------- MODULE MCHttp2Relay ----------------------------
(* Small instances of the HTTP/2 relay for TLC. *)
EXTENDS Http2Relay

CONSTANTS k1, k2, k3, m1, m2
=============================================================================
