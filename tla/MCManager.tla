------------------------------ MODULE MCManager ------------------------------
EXTENDS Manager

CONSTANTS p1, p2, a, b

World(c, disk, again) == [conf |-> c, badDisk |-> disk, reuse |-> again]
Unconfigured == [p \in Ports |-> Nobody]

\* Nothing configured; disks fail; pids are reused; a configured port.
MCWorlds ==
    {World(Unconfigured, FALSE, FALSE), World(Unconfigured, TRUE, FALSE),
     World(Unconfigured, FALSE, TRUE), World([Unconfigured EXCEPT ![p1] = a], FALSE, FALSE)}
MCConfigured == {World([Unconfigured EXCEPT ![p1] = a], FALSE, FALSE)}
=============================================================================
