----------------------------- MODULE MCTcpClient -----------------------------
(* A client with two calls of connect_server and a buffer of three bytes:  *)
(* the rest of a message of the first connection fits with a new one, or   *)
(* does not, on the second.                                                *)
EXTENDS TcpClient

=============================================================================
