------------------------------- MODULE MCEvLoop -------------------------------
EXTENDS EvLoop

CONSTANTS fd1, fd2

\* Two sockets, one of them watched both ways; a socket and two timers; a
\* socket, a timer and a signal.
MCScenarios ==
    {{<<fd1, "R">>, <<fd1, "W">>, <<fd2, "R">>},
     {<<fd1, "R">>} \cup Once \cup Repeat,
     {<<fd1, "R">>, Signal} \cup Once}
=============================================================================
