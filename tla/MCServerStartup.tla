-------------------------- MODULE MCServerStartup --------------------------
(* Two folders and three ports, so that two servers can share none, one or *)
(* both of their ports, or one can be given the same port twice.           *)
EXTENDS ServerStartup

MCPorts == {1, 2, 3}
=============================================================================
