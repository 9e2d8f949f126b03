------------------------------ MODULE NameLookup ------------------------------
(***************************************************************************)
(* What a client of src/resolv.c relies on: a lookup it asked for is       *)
(* answered at most once, with an address or with NULL, and never after    *)
(* the client has cancelled it.  TcpServer assumes exactly this of its     *)
(* server->query.                                                          *)
(***************************************************************************)
CONSTANTS Clients, Answers

VARIABLE client

Init == client = [c \in Clients |-> "idle"]

Becomes(c, from, to) ==
    /\ client[c] = from
    /\ client' = [client EXCEPT ![c] = to]

Next == \E c \in Clients :
    \/ Becomes(c, "idle", "waiting")
    \/ Becomes(c, "waiting", "cancelled")
    \/ \E a \in Answers : Becomes(c, "waiting", a)

Spec == Init /\ [][Next]_client
===============================================================================
