---------------------------- MODULE MCSSEManager ----------------------------
(* A small instance of SSEManager for TLC. *)
EXTENDS SSEManager

CONSTANTS c1, c2

=============================================================================
