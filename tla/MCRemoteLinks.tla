-------------------------- MODULE MCRemoteLinks ---------------------------
(* Two targets, one of them refused by name; a row with two addresses.     *)
EXTENDS RemoteLinks
CONSTANTS a, b, dash, none

MCAddress == {a, b, dash, none}
MCNamed == {<<a, none, b>>, <<dash, a>>, <<none>>}
MCInterfaces ==
  {<<[loopback |-> TRUE, ips |-> <<[addr |-> a, kind |-> "ipv4"]>>],
     [loopback |-> FALSE, ips |-> <<[addr |-> dash, kind |-> "ipv6"], [addr |-> none, kind |-> "ipv4"],
                                    [addr |-> b, kind |-> "ipv4"]>>]>>}
MCDnsIps == {<<b>>}

\* The second connection only comes, is lost or fails.
MCMaxTurn == <<3, 0>>
=============================================================================
