------------------------------ MODULE ByteRelay ------------------------------
(***************************************************************************)
(* What one direction of a relayed TCP connection promises, whichever      *)
(* program relays it: a pipe that takes bytes and gives them, in order and *)
(* without loss, and that takes new ones only when it has given all it     *)
(* took (each direction has one buffer).                                   *)
(***************************************************************************)
EXTENDS Integers

VARIABLES
    open,   \* the pipe exists
    taken,  \* bytes it has taken, as the receiving end will see them
    given   \* bytes it has given

pvars == <<open, taken, given>>

\* given is a number only as long as the bytes given are the first ones taken.
TypeOK == open \in BOOLEAN /\ taken \in Nat /\ given \in Nat

Init == open = FALSE /\ taken = 0 /\ given = 0

\* A new pipe, which may take and give at once; or the slot of one is cleared.
Open ==
    /\ ~open
    /\ \/ open' = TRUE /\ taken' \in Nat /\ given' \in 0..taken'
       \/ open' = FALSE /\ taken' = 0 /\ given' = 0

\* Take bytes, and give some of them.
Take ==
    /\ open /\ given = taken
    /\ taken' \in Nat /\ taken' > taken
    /\ given' \in given..taken'
    /\ UNCHANGED open

\* Give some of what is held.
Give ==
    /\ open
    /\ given' \in given..taken
    /\ UNCHANGED <<open, taken>>

\* The pipe is torn down; what it was about to take is lost with it.
Close ==
    /\ open /\ open' = FALSE
    /\ taken' \in Nat /\ taken' >= taken
    /\ taken' > taken => given = taken
    /\ UNCHANGED given

Next == Open \/ Take \/ Give \/ Close

Spec == Init /\ [][Next]_pvars
=============================================================================
