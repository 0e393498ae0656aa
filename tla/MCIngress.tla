----------------------------- MODULE MCIngress -----------------------------
(* Small instances of the ingress worker for TLC. *)
EXTENDS Ingress

CONSTANTS c1, c2, c3, c4, c5
=============================================================================
