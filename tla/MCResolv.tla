------------------------------- MODULE MCResolv -------------------------------
(***************************************************************************)
(* Instances of Resolv for TLC: one lookup that has several servers and    *)
(* tries, one under a clock that is set back, and two lookups with a       *)
(* search list.                                                            *)
(***************************************************************************)
EXTENDS Resolv

CONSTANTS c1, c2

\* One lookup, one server and a clock that is set back.
MCClock ==
    {[nserv |-> 1, ntries |-> 1, timeout |-> 1, nsrch |-> 0, clients |-> {c1}, late |-> 1, stepsBack |-> 1]}

MCContexts == MCClock \cup
    {[nserv |-> 2, ntries |-> 2, timeout |-> 1, nsrch |-> 0, clients |-> {c1}, late |-> 0, stepsBack |-> 0],
     [nserv |-> 1, ntries |-> 1, timeout |-> 1, nsrch |-> 1, clients |-> {c1, c2}, late |-> 0, stepsBack |-> 0]}
===============================================================================
