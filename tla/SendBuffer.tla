----------------------------- MODULE SendBuffer -----------------------------
(***************************************************************************)
(* The buffer_t of src/encrypt.h as the relays use it with send() on a     *)
(* non-blocking socket.  Bytes are abstracted to their position in the     *)
(* stream they travel in: a buffer is [base, idx, len], where array[0] is  *)
(* byte base of that stream and the live part is the len bytes that start  *)
(* at array[idx].                                                          *)
(***************************************************************************)
EXTENDS Integers

Buffers == [base : Nat, idx : Nat, len : Nat]
Empty == [base |-> 0, idx |-> 0, len |-> 0]
\* Mutant: a partial send does not move idx.
Consume_keeps_idx(b, s) == [b EXCEPT !.len = @ - s]
Consume(b, s) == [base |-> b.base, idx |-> b.idx + s, len |-> b.len - s]

\* What the first send of a buffer leaves when it accepts s bytes.
Unsent(b, s) == [base |-> b.base, idx |-> s, len |-> b.len - s]

\* n bytes were written to a socket; good: the i-th was byte i of the stream.
Sinks == [n : Nat, good : BOOLEAN]
NoBytes == [n |-> 0, good |-> TRUE]
Write(sink, from, s) ==
    [n |-> sink.n + s, good |-> sink.good /\ (s = 0 \/ from = sink.n)]

\* What send() may accept of len bytes; Again is EAGAIN.
Again == -1
SendResults(len) == IF len = 0 THEN {0} ELSE {Again} \cup 1..len
Sent(s) == IF s = Again THEN 0 ELSE s
=============================================================================
