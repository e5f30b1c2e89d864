---------------------------- MODULE MCTraceroute ----------------------------
(* The instances of Traceroute that TLC checks. *)
EXTENDS Traceroute

\* every protocol and family, with and without the wait for duplicates, with
\* one packet and with three packets a hop (the default); Paris mode, and a NAT
\* in it, only matter for UDP over IPv4
MCOptions ==
  { o \in [proto : {"icmp", "udp", "tcp"}, v6 : BOOLEAN, paris : {"no", "yes", "nat"},
           dup : BOOLEAN, count : {1, 3}] :
      o.paris # "no" => o.proto = "udp" /\ ~o.v6 }
=============================================================================
