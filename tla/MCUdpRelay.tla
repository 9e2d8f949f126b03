------------------------------ MODULE MCUdpRelay ------------------------------
(***************************************************************************)
(* Instances of UdpRelay for TLC: a4 and b4 are IPv4 addresses, c6 is an   *)
(* IPv6 one; the first name has an IPv4 address, the second an IPv6 one    *)
(* too.                                                                    *)
(***************************************************************************)
EXTENDS UdpRelay

CONSTANTS a4, b4, c6, n1, n2

MCFamilyOf == [a \in Addrs |-> IF a = c6 THEN "inet6" ELSE "inet"]

MCResolves == [n \in Names |-> IF n = n1 THEN {a4} ELSE Addrs \ {a4}]

\* A server and a local program whose clients use addresses only, and a server
\* whose clients use names too.
MCNamesWorld == [module |-> "remote", dests |-> {a4, c6, n1, n2}, otas |-> {FALSE}, packets |-> 3]
MCWorlds ==
    [module : {"remote", "local"}, dests : {Addrs}, otas : {BOOLEAN}, packets : {5}]
        \cup {MCNamesWorld}
MCNames == {MCNamesWorld}
===============================================================================
