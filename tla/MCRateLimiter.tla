---------------------------- MODULE MCRateLimiter ----------------------------
(* Instances of RateLimiter: two ports of one TCP address, and the same     *)
(* host reached over another network.                                       *)
EXTENDS RateLimiter

Tcp(ip, port) == [net |-> "tcp", ip |-> ip, port |-> port]
Other(ip, port) == [net |-> "unix", ip |-> ip, port |-> port]

MixedSources == {Tcp(1, 1), Tcp(1, 2), Other(1, 3)}
OneSource == {Tcp(1, 1)}

=============================================================================
