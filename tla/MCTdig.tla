------------------------------- MODULE MCTdig -------------------------------
(* The instances of Tdig that TLC checks. *)
EXTENDS Tdig

\* UDP, TCP and TLS, to one server with one or two addresses and to the resolvers
\* of resolv.conf, with and without a retry, in eperd and in eooqd
MCOptions ==
  { o \in [proto : {"udp", "tcp", "tls"}, resolv : BOOLEAN, retry : 0..2,
           addrs : 1..2, host : {"eperd", "eooqd"}] :
      o.resolv => o.addrs = 1 }

\* a server with two addresses over UDP, in eperd, without retries
TwoAddresses ==
  { [proto |-> "udp", resolv |-> FALSE, retry |-> 0, addrs |-> 2, host |-> "eperd"] }
=============================================================================
