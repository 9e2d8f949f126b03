------------------------------ MODULE ChunkAuth ------------------------------
(***************************************************************************)
(* One-time authentication of a TCP stream (src/encrypt.c): the sender     *)
(* frames each piece of payload with ss_gen_hash, and the receiver puts    *)
(* the bytes of every receive through ss_check_hash, which collects a      *)
(* chunk that spans several receives in chunk->buf and leaves the payload  *)
(* of the verified chunks in place in the receive buffer.                  *)
(*                                                                         *)
(* A byte is <<f, p>>, byte p of the f-th frame; a frame is its payload    *)
(* length, the counter its hash was made with, and whether it arrives      *)
(* unaltered.  Arrays are sequences, so array[i] is element i + 1; what    *)
(* was allocated and not yet written is Junk.                              *)
(*                                                                         *)
(* At the end, the stream as it crosses the network: every chunk is        *)
(* encrypted by ss_encrypt, and the server puts what each receive brings   *)
(* through ss_decrypt and ss_check_hash.                                   *)
(***************************************************************************)
EXTENDS SequencesExt, StreamCipher

CONSTANTS
    CLEN_BYTES, ONETIMEAUTH_BYTES,  \* sizes of a chunk's length and hash
    BUF_SIZE,       \* the capacity passed to brealloc, and the largest receive
    Lens,           \* payload lengths that senders use
    MaxFrames       \* bound: frames sent

ASSUME ChunkAssumption ==
    /\ CLEN_BYTES \in Nat \ {0} /\ ONETIMEAUTH_BYTES \in Nat \ {0}
    /\ BUF_SIZE \in Nat \ {0} /\ Lens \subseteq 0..BUF_SIZE /\ MaxFrames \in Nat

VARIABLES
    frames,     \* the frames sent so far
    counter,    \* the sender's chunk counter
    got,        \* bytes received
    chunk,      \* server->chunk: [idx, len, counter, buf]
    out,        \* the payload released to the destination
    refused,    \* ss_check_hash returned 0, and the connection was closed
    inside      \* no array was accessed outside its bounds

chunks == <<frames, counter, got, chunk, out, refused, inside>>

AUTH_BYTES == ONETIMEAUTH_BYTES + CLEN_BYTES
Junk == <<0, 0>>

Init ==
    /\ frames = <<>> /\ counter = 0 /\ got = 0
    /\ chunk = [idx |-> 0, len |-> 0, counter |-> 0, buf |-> <<>>]
    /\ out = <<>>
    /\ refused = FALSE /\ inside = TRUE

\* The bytes of the f-th frame, with len bytes of payload: its length, its hash and
\* its payload.
FrameBytes(f, len) == [p \in 1..(AUTH_BYTES + len) |-> <<f, p - 1>>]
Frame(f) == FrameBytes(f, frames[f].len)
Stream == FlattenSeq([f \in DOMAIN frames |-> Frame(f)])

\* ss_gen_hash on len bytes of payload, then the network: intact or altered.
ss_gen_hash ==
    /\ ~refused
    /\ Len(frames) < MaxFrames
    /\ \E len \in Lens, intact \in BOOLEAN :
        frames' = Append(frames, [len |-> len, counter |-> counter, intact |-> intact])
    /\ counter' = counter + 1
    /\ UNCHANGED <<got, chunk, out, refused, inside>>

-----------------------------------------------------------------------------
(* ss_check_hash.                                                          *)

\* The array grows to len elements, and to BUF_SIZE at least.
brealloc(a, len) ==
    LET size == IF len > BUF_SIZE THEN len ELSE BUF_SIZE IN
    IF Len(a) < size THEN a \o [q \in 1..(size - Len(a)) |-> Junk] ELSE a

\* memcpy and memmove of bytes to offset at; what would fall outside is dropped.
Put(a, at, bytes) ==
    [q \in DOMAIN a |-> IF q \in (at + 1)..(at + Len(bytes)) THEN bytes[q - at] ELSE a[q]]

Fits(a, at, n) == at + n <= Len(a)

\* The length that the first bytes of an array spell.
ntohs(a) ==
    LET f == a[1][1] IN
    IF f \in DOMAIN frames /\ \A p \in 1..CLEN_BYTES : a[p] = <<f, p - 1>>
    THEN frames[f].len
    ELSE 0

\* Mutant: any hash is taken.
Verified_any(a, len, c) == a[CLEN_BYTES + 1][1] \in DOMAIN frames

\* The hash in a is the one of the len bytes of payload behind it.
Verified(a, len, c) ==
    LET f == a[CLEN_BYTES + 1][1] IN
    /\ f \in DOMAIN frames
    /\ frames[f] = [len |-> len, counter |-> c, intact |-> TRUE]
    /\ \A p \in (CLEN_BYTES + 1)..(AUTH_BYTES + len) : a[p] = <<f, p - 1>>

\* A round of the loop after its byte was stored: the chunk is complete.
\* rest: the bytes of this receive that were not looked at yet.
Complete(r, rest) ==
    IF ~Verified(r.cbuf, r.len, r.counter)
    THEN [r EXCEPT !.ok = FALSE]
    ELSE LET payload == SubSeq(r.cbuf, AUTH_BYTES + 1, AUTH_BYTES + r.len)
             moved == Put(r.array, r.j + r.len, SubSeq(r.array, r.k + 1, r.k + rest)) IN
         [r EXCEPT !.array = Put(moved, r.j, payload),
                   !.j = @ + r.len, !.k = r.j + r.len,
                   !.cidx = 0, !.counter = @ + 1,
                   !.inside = @ /\ Fits(r.array, r.j + r.len, rest) /\ Fits(r.array, r.k, rest)
                                /\ Fits(r.array, r.j, r.len)]

\* The i-th round of the loop over blen bytes.
Round(r, i, blen) ==
    LET stored == [r EXCEPT !.cbuf = Put(@, r.cidx, <<r.array[r.k + 1]>>),
                            !.cidx = @ + 1, !.k = @ + 1,
                            !.inside = @ /\ Fits(r.cbuf, r.cidx, 1) /\ Fits(r.array, r.k, 1)]
        clen == ntohs(stored.cbuf)
        sized == IF stored.cidx = CLEN_BYTES
                 THEN [stored EXCEPT !.cbuf = brealloc(@, clen + AUTH_BYTES), !.len = clen]
                 ELSE stored IN
    IF sized.cidx = sized.len + AUTH_BYTES THEN Complete(sized, blen - i) ELSE sized

\* ss_check_hash on the bytes of one receive.
ss_check_hash(bytes) ==
    LET blen == Len(bytes)
        start == [array |-> brealloc(bytes, chunk.len + blen),
                  cbuf |-> brealloc(chunk.buf, chunk.len + blen),
                  cidx |-> chunk.idx, len |-> chunk.len, counter |-> chunk.counter,
                  j |-> 0, k |-> 0, ok |-> TRUE, inside |-> inside] IN
    FoldLeft(LAMBDA r, i : IF r.ok THEN Round(r, i, blen) ELSE r,
             start, [i \in 1..blen |-> i])

\* server_recv_cb: the bytes of a receive are checked, and what was verified is sent on.
Check(bytes) ==
    /\ ~refused
    /\ got' = got + Len(bytes)
    /\ LET r == ss_check_hash(bytes) IN
       /\ chunk' = [idx |-> IF r.ok THEN r.cidx ELSE chunk.idx, len |-> r.len,
                    counter |-> r.counter, buf |-> r.cbuf]
       /\ out' = IF r.ok THEN out \o SubSeq(r.array, 1, r.j) ELSE out
       /\ refused' = ~r.ok
       /\ inside' = r.inside
    /\ UNCHANGED <<frames, counter>>

-----------------------------------------------------------------------------
\* Every variable keeps its type; the receiver's counter never overtakes the sender's.
TypeOK ==
    /\ \A f \in DOMAIN frames : frames[f] \in [len : Lens, counter : Nat, intact : BOOLEAN]
    /\ counter \in Nat /\ got \in 0..Len(Stream)
    /\ chunk.idx \in Nat /\ chunk.len \in Nat /\ chunk.counter \in 0..counter
    /\ refused \in BOOLEAN

\* No byte is read or written outside chunk->buf and the receive buffer, whose
\* sizes are computed before the lengths of the chunks to come are known.
InBounds == inside

\* The first byte that follows the f-th frame.
End(f) == Len(FlattenSeq([g \in 1..f |-> Frame(g)]))

\* The frames that arrived completely, all unaltered.
Arrived == {f \in DOMAIN frames : End(f) <= got /\ \A g \in 1..f : frames[g].intact}

\* However the stream is cut into receives, what is released is the payload of the
\* chunks that arrived completely, in order; nothing of an unfinished chunk, of an
\* altered one or of one that follows it.
ReleasesWholeChunks ==
    ~refused =>
        out = FlattenSeq([f \in 1..Cardinality(Arrived) |->
                            SubSeq(Frame(f), AUTH_BYTES + 1, AUTH_BYTES + frames[f].len)])

\* The connection is closed exactly when an altered chunk has arrived completely.
RefusesAltered ==
    refused <=> \E f \in DOMAIN frames : ~frames[f].intact /\ End(f) <= got

\* What ss_check_hash releases is whole chunks the sender made, in their order,
\* and its indices stay inside the buffers, however the stream is cut.
ChunksSound == InBounds /\ ReleasesWholeChunks /\ RefusesAltered

-----------------------------------------------------------------------------
(* The chunks and the cipher together.  The pieces on the two sides are    *)
(* cut independently.                                                      *)

\* The chunk layer's bytes, and the cipher layer's, which may carry keystream.
Sealable(bytes) == [i \in DOMAIN bytes |-> <<bytes[i], {}>>]
Bytes(bytes) == [i \in DOMAIN bytes |-> IF bytes[i][2] = {} THEN bytes[i][1] ELSE Junk]

\* A chunk is framed and encrypted; bound: a stream ends before the block counter
\* of chacha20-ietf does (Within).
Send ==
    /\ ss_gen_hash
    /\ ss_encrypt(Sealable(FrameBytes(Len(frames'), Last(frames').len)))
    /\ Within'

\* server_recv_cb: what a receive brings is decrypted and checked.
Receive ==
    \E n \in 1..BUF_SIZE :
        /\ ss_decrypt(n)
        /\ Check(Bytes(SubSeq(opened', Len(opened) + 1, Len(opened'))))

SealedInit == Init /\ CipherInit

Next == Send \/ Receive

Spec == SealedInit /\ [][Next]_<<chunks, cipher>>
=============================================================================
