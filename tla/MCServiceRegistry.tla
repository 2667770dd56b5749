-------------------------- MODULE MCServiceRegistry --------------------------
(* Two servers that register the same service, one client.                 *)
EXTENDS ServiceRegistry

CONSTANTS s1, s2, k1

MCServers == {s1, s2}
MCClients == {k1}

=============================================================================
