------------------------------ MODULE MCDaemon ------------------------------
(* Two processes, one on a stream and one on UDP, and the socket numbers they fight over. *)
EXTENDS Daemon

CONSTANTS stream, udp

MCWants == (stream :> {0}) @@ (udp :> {1})

=============================================================================
