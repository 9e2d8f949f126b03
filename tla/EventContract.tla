---------------------------- MODULE EventContract ----------------------------
(***************************************************************************)
(* What the programs rely on an event loop for, and all that the models of *)
(* their callbacks (TcpServer, TcpClient, UdpRelay, Resolv) assume of it:  *)
(* one callback at a time, and only that of a watcher the program has      *)
(* started and has not stopped since; a watcher stays started until the    *)
(* program stops it or, if it is one that may be called once, is called.   *)
(***************************************************************************)
CONSTANTS
    Watchers,   \* all watchers
    Once,       \* those that are called once per start
    Main,       \* the program, when it is not called by the loop
    NoWatcher   \* neither of these

VARIABLES
    on,         \* the watchers the program may be called for
    calling     \* for whom the program runs; NoWatcher inside the loop

TypeOK == on \subseteq Watchers /\ calling \in Watchers \cup {Main, NoWatcher}

\* The program starts watchers, then runs the loop.
Init == on \subseteq Watchers /\ calling = Main

Call ==
    /\ calling = NoWatcher
    /\ calling' \in on
    /\ on' \in {on, on \ (Once \cap {calling'})}

\* The program starts and stops watchers, and returns at last.
Program ==
    /\ calling # NoWatcher
    /\ on' \subseteq Watchers
    /\ calling' \in {calling, NoWatcher}

Next == Call \/ Program

Spec == Init /\ [][Next]_<<on, calling>>
=============================================================================
