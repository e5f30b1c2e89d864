------------------------------- MODULE MCPing -------------------------------
(* The instance of Ping that TLC checks: three packets over IPv4, one over *)
(* IPv6.                                                                   *)
EXTENDS Ping

MCTests == {<<FALSE, 3>>, <<TRUE, 1>>}
=============================================================================
