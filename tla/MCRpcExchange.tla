---------------------------- MODULE MCRpcExchange ----------------------------
(* Headers and contents of two units each, so that every part of a frame   *)
(* can be cut; two calls, so that the second could meet what the first one *)
(* left behind.                                                            *)
EXTENDS RpcExchange

MCCalls == 1 .. 2

=============================================================================
