---------------------------- MODULE StreamCipher ----------------------------
(***************************************************************************)
(* The encryption of one direction of a TCP connection (ss_encrypt and     *)
(* ss_decrypt, src/encrypt.c) with libsodium's stream ciphers              *)
(* (libsodium/.../crypto_stream).                                          *)
(*                                                                         *)
(* libsodium starts a keystream at a block boundary.  Sender and receiver  *)
(* cut the stream into calls differently, so each counts the bytes it has  *)
(* put through and pads a call to the start of the block it is in.         *)
(*                                                                         *)
(* A byte is <<value, keys>>: keys are the keystream bytes XORed into it,  *)
(* and XORing one again takes it out.  A keystream byte is the words 12    *)
(* and 13 of the ChaCha20 state (the block counter of Salsa20) it comes    *)
(* from, and its place in the block.  For chacha20-ietf word 13 is part of *)
(* the nonce, of which the model has the difference.                       *)
(***************************************************************************)
EXTENDS Naturals, Sequences

CONSTANTS
    Methods,            \* enc_method: "table", "chacha20" (or salsa20), "chacha20-ietf",
                        \* or "evp", a cipher of the crypto library
    SODIUM_BLOCK_SIZE,
    WORD,               \* values of a 32-bit word
    IvLen,              \* enc_iv_len
    Octets              \* values of a byte

ASSUME CipherAssumption ==
    /\ Methods \subseteq {"table", "chacha20", "chacha20-ietf", "evp"}
    /\ SODIUM_BLOCK_SIZE \in Nat \ {0} /\ WORD \in Nat \ {0} /\ IvLen \in Nat

VARIABLES
    method,
    e_ctx, d_ctx,   \* enc_ctx_t of the sender and of the receiver
    plain,          \* bytes the sender encrypted
    wire,           \* bytes it sent
    taken,          \* bytes the receiver has received
    opened          \* bytes it decrypted

cipher == <<method, e_ctx, d_ctx, plain, wire, taken, opened>>

Iv == [i \in 1..(IF method = "table" THEN 0 ELSE IvLen) |-> <<"iv", {}>>]
Zero == <<0, {}>>

-----------------------------------------------------------------------------
(* libsodium.                                                              *)

\* Words 12 and 13 of the initial state.
ivsetup(ic) ==
    IF method = "chacha20-ietf" THEN <<ic % WORD, 0>> ELSE <<ic % WORD, ic \div WORD>>

\* Mutant: nothing is carried.
nth_block_no_carry(j, n) == <<(j[1] + n) % WORD, j[2]>>

\* The state after n blocks: word 12 is counted up, and carries into word 13.
nth_block(j, n) == <<(j[1] + n) % WORD, j[2] + (j[1] + n) \div WORD>>

\* The i-th byte, from 0, of the keystream that starts at block ic.
Keystream(ic, i) == <<nth_block(ivsetup(ic), i \div SODIUM_BLOCK_SIZE), i % SODIUM_BLOCK_SIZE>>

Xor(b, key) == <<b[1], IF key \in b[2] THEN b[2] \ {key} ELSE b[2] \cup {key}>>

crypto_stream_xor_ic(bytes, ic) == [i \in DOMAIN bytes |-> Xor(bytes[i], Keystream(ic, i - 1))]

-----------------------------------------------------------------------------
(* encrypt.c.                                                              *)

\* Mutant: a call starts at the beginning of a block.
padding_none(counter) == 0

padding(counter) == counter % SODIUM_BLOCK_SIZE

Padded(bytes, n) == [i \in 1..(n + Len(bytes)) |-> IF i <= n THEN Zero ELSE bytes[i - n]]
Unpadded(bytes, n) == [i \in 1..(Len(bytes) - n) |-> bytes[i + n]]

\* The bytes of a call that follows counter bytes, encrypted or decrypted.
Crypt(counter, bytes) ==
    CASE method = "table" -> [i \in DOMAIN bytes |-> Xor(bytes[i], "table")]
      [] method = "evp" -> [i \in DOMAIN bytes |-> Xor(bytes[i], counter + i - 1)]
      [] OTHER -> LET n == padding(counter) IN
                  Unpadded(crypto_stream_xor_ic(Padded(bytes, n), counter \div SODIUM_BLOCK_SIZE), n)

Advance(ctx, n) == [init |-> TRUE, counter |-> ctx.counter + n]

ss_encrypt(bytes) ==
    /\ plain' = plain \o bytes
    /\ wire' = wire \o (IF e_ctx.init THEN <<>> ELSE Iv) \o Crypt(e_ctx.counter, bytes)
    /\ e_ctx' = Advance(e_ctx, Len(bytes))
    /\ UNCHANGED <<method, d_ctx, taken, opened>>

\* ss_decrypt on n more bytes; of the first ones server_recv_cb waits until it has
\* more than the IV.
ss_decrypt(n) ==
    LET iv == IF d_ctx.init THEN 0 ELSE Len(Iv)
        bytes == SubSeq(wire, taken + iv + 1, taken + n)
    IN  /\ n > iv /\ taken + n <= Len(wire)
        /\ taken' = taken + n
        /\ opened' = opened \o Crypt(d_ctx.counter, bytes)
        /\ d_ctx' = Advance(d_ctx, n - iv)
        /\ UNCHANGED <<method, e_ctx, plain, wire>>

CipherInit ==
    /\ method \in Methods
    /\ e_ctx = [init |-> FALSE, counter |-> 0] /\ d_ctx = [init |-> FALSE, counter |-> 0]
    /\ plain = <<>> /\ wire = <<>> /\ taken = 0 /\ opened = <<>>

\* Any pieces of any length.
CipherNext ==
    \/ \E bytes \in Seq(Octets \X {{}}) : ss_encrypt(bytes)
    \/ \E n \in Nat : ss_decrypt(n)

CipherSpec == CipherInit /\ [][CipherNext]_cipher

-----------------------------------------------------------------------------
\* A stream of chacha20-ietf has 2^32 blocks: word 13 is not a counter there.
Within == method = "chacha20-ietf" => Len(plain) <= WORD * SODIUM_BLOCK_SIZE

\* Whatever pieces the stream is encrypted and decrypted in, the receiver gets the
\* bytes of the sender (the padding in ss_encrypt and ss_decrypt).
Decrypts == Within => opened = SubSeq(plain, 1, Len(opened))

\* No byte of the keystream is used for two bytes of a stream.
KeystreamOnce ==
    Within /\ method # "table" =>
        \A i, j \in DOMAIN wire : i # j /\ wire[i][2] # {} => wire[i][2] # wire[j][2]
=============================================================================
