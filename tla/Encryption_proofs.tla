------------------------- MODULE Encryption_proofs -------------------------
(***************************************************************************)
(* Decryption undoes encryption for every block size, word size, IV and    *)
(* way of cutting the stream into calls.                                   *)
(*                                                                         *)
(* The argument: the keystream byte a call uses for its i-th byte depends  *)
(* only on the place of that byte in the stream (KeyAt, CryptKey), since   *)
(* the padding makes up for the division (DivAdd).                         *)
(*                                                                         *)
(* A datagram: what a receiver accepts is what the sender sealed, for      *)
(* every key, IV length, payload and alteration on the way (DgInv).        *)
(***************************************************************************)
EXTENDS StreamCipher, SealedDatagram, SequenceTheorems, TLAPS

\* The leaves are for the SMT solver, unless they cite another prover.
USE SMTT(60)

-----------------------------------------------------------------------------
(* Division.                                                               *)

LEMMA Euclid ==
    ASSUME NEW d \in Nat \ {0}, NEW x \in Nat
    PROVE  /\ x = d * (x \div d) + (x % d)
           /\ x \div d \in Nat /\ x % d \in Nat /\ x % d < d
OBVIOUS

LEMMA Multiples ==
    ASSUME NEW d \in Nat \ {0}, NEW p \in Nat, NEW q \in Nat, p < q
    PROVE  d * p + d <= d * q
OBVIOUS

LEMMA Unique ==
    ASSUME NEW d \in Nat \ {0}, NEW q \in Nat, NEW r \in Nat, NEW p \in Nat, NEW s \in Nat,
           r < d, s < d, d * q + r = d * p + s
    PROVE  q = p /\ r = s
<1>1. CASE q < p
    BY <1>1, Multiples
<1>2. CASE p < q
    BY <1>2, Multiples
<1>3. CASE p = q
    BY <1>3
<1> QED BY <1>1, <1>2, <1>3

\* Counting k further from the rest of c gets to where c + k is.
LEMMA DivAdd ==
    ASSUME NEW d \in Nat \ {0}, NEW c \in Nat, NEW k \in Nat
    PROVE  /\ (c \div d) + (((c % d) + k) \div d) = (c + k) \div d
           /\ ((c % d) + k) % d = (c + k) % d
<1> DEFINE q == c \div d
           r == c % d
           u == (r + k) \div d
           v == (r + k) % d
           w == (c + k) \div d
           z == (c + k) % d
<1>1. c = d * q + r /\ q \in Nat /\ r \in Nat
    BY Euclid
<1>2. r + k = d * u + v /\ u \in Nat /\ v \in Nat /\ v < d
    BY <1>1, Euclid
<1>3. c + k \in Nat
    OBVIOUS
<1>4. c + k = d * w + z /\ w \in Nat /\ z \in Nat /\ z < d
    BY <1>3, Euclid
<1> HIDE DEF q, r, u, v, w, z
<1>5. d * (q + u) = d * q + d * u
    BY <1>1, <1>2
<1>6. d * (q + u) + v = d * w + z
    BY <1>1, <1>2, <1>4, <1>5
<1>7. q + u \in Nat
    BY <1>1, <1>2
<1>8. q + u = w /\ v = z
    BY <1>2, <1>4, <1>6, <1>7, Unique
<1> QED BY <1>8 DEF q, r, u, v, w, z

\* What is below a product divides to less than its other factor.
LEMMA DivBelow ==
    ASSUME NEW d \in Nat \ {0}, NEW n \in Nat, NEW x \in Nat, x < n * d
    PROVE  x \div d < n
<1> DEFINE q == x \div d
<1>1. x = d * q + (x % d) /\ q \in Nat /\ x % d \in Nat
    BY Euclid
<1> HIDE DEF q
<1>2. n * d = d * n
    OBVIOUS
<1>3. CASE n < q
    <2>1. d * n + d <= d * q
        BY <1>1, <1>3, Multiples
    <2> QED BY <1>1, <1>2, <2>1
<1>4. CASE q = n
    BY <1>1, <1>2, <1>4
<1> QED BY <1>1, <1>3, <1>4 DEF q

LEMMA DivSmall ==
    ASSUME NEW d \in Nat \ {0}, NEW x \in Nat, x < d
    PROVE  x \div d = 0 /\ x % d = x
BY Euclid, Unique

-----------------------------------------------------------------------------
(* What a call does.                                                       *)

LEMMA FunctionSeq ==
    ASSUME NEW S, NEW n \in Nat, NEW f \in [1..n -> S]
    PROVE  f \in Seq(S) /\ Len(f) = n
<1>1. f \in Seq(S)
    BY SeqDef
<1>2. 1..Len(f) = 1..n /\ Len(f) \in Nat
    BY <1>1, LenProperties
<1> QED BY <1>1, <1>2

Sodium == method \notin {"table", "evp"}

\* The keystream byte for the byte at place q, from 0, of the stream.
KeyAt(q) ==
    CASE method = "table" -> "table"
      [] method = "evp" -> q
      [] OTHER -> <<ivsetup(q \div SODIUM_BLOCK_SIZE), q % SODIUM_BLOCK_SIZE>>

\* The counter of chacha20-ietf suffices for the stream up to q.
Counts(q) == method = "chacha20-ietf" => q < WORD * SODIUM_BLOCK_SIZE

\* The i-th byte after the counter's place has the key of that place.
LEMMA KeystreamAt ==
    ASSUME NEW c \in Nat, NEW i \in Nat, Counts(c + i), Sodium
    PROVE  Keystream(c \div SODIUM_BLOCK_SIZE, padding(c) + i) = KeyAt(c + i)
<1> USE CipherAssumption
<1> DEFINE B == SODIUM_BLOCK_SIZE
           ic == c \div B
           m == ((c % B) + i) \div B
           b == (c + i) \div B
<1>1. c % B \in Nat /\ ic \in Nat /\ c + i \in Nat /\ (c % B) + i \in Nat
    BY Euclid
<1>2. m \in Nat /\ b \in Nat
    BY <1>1, Euclid
<1>3. ic + m = b /\ ((c % B) + i) % B = (c + i) % B
    BY DivAdd, Zenon
<1> HIDE DEF ic, m, b
<1>4. (ic \div WORD) + (((ic % WORD) + m) \div WORD) = b \div WORD /\ ((ic % WORD) + m) % WORD = b % WORD
    <2>1. WORD \in Nat \ {0}
        OBVIOUS
    <2>2. /\ (ic \div WORD) + (((ic % WORD) + m) \div WORD) = (ic + m) \div WORD
          /\ ((ic % WORD) + m) % WORD = (ic + m) % WORD
        BY <1>1, <1>2, <2>1, DivAdd, ZenonT(30)
    <2> QED BY <1>3, <2>2
<1>5. nth_block(ivsetup(ic), m) = ivsetup(b)
    <2>1. CASE method = "chacha20-ietf"
        <3>1. b < WORD
            BY <1>1, <2>1, DivBelow DEF Counts, b
        <3>2. b \div WORD = 0
            BY <1>2, <3>1, DivSmall
        <3>3. ic \div WORD \in Nat /\ ic % WORD \in Nat
            BY <1>1, Euclid
        <3>4. ((ic % WORD) + m) \div WORD \in Nat
            BY <1>2, <3>3, Euclid
        <3>5. ((ic % WORD) + m) \div WORD = 0
            BY <1>4, <3>2, <3>3, <3>4
        <3> QED BY <1>4, <2>1, <3>5 DEF nth_block, ivsetup
    <2>2. CASE method # "chacha20-ietf"
        BY <1>4, <2>2 DEF nth_block, ivsetup
    <2> QED BY <2>1, <2>2
<1>6. KeyAt(c + i) = <<ivsetup(b), (c + i) % B>>
    BY DEF KeyAt, Sodium, b
<1>7. Keystream(ic, (c % B) + i) = <<nth_block(ivsetup(ic), m), ((c % B) + i) % B>>
    BY DEF Keystream, m
<1> QED BY <1>3, <1>5, <1>6, <1>7 DEF padding, ic

\* The i-th byte of a call is XORed with the key of its place in the stream.
LEMMA CryptKey ==
    ASSUME NEW S, NEW c \in Nat, NEW bytes \in Seq(S), \A i \in DOMAIN bytes : Counts(c + i - 1)
    PROVE  Crypt(c, bytes) = [i \in 1..Len(bytes) |-> Xor(bytes[i], KeyAt(c + i - 1))]
<1> USE CipherAssumption
<1>1. DOMAIN bytes = 1..Len(bytes) /\ Len(bytes) \in Nat
    BY LenProperties
<1>2. CASE method = "table"
    BY <1>1, <1>2 DEF Crypt, KeyAt
<1>3. CASE method = "evp"
    BY <1>1, <1>3 DEF Crypt, KeyAt
<1>4. CASE Sodium
    <2> DEFINE n == padding(c)
               ic == c \div SODIUM_BLOCK_SIZE
               padded == Padded(bytes, n)
               x == crypto_stream_xor_ic(padded, ic)
    <2>1. n \in Nat
        BY Euclid DEF padding
    <2>2. Crypt(c, bytes) = Unpadded(x, n)
        BY <1>4 DEF Crypt, Sodium
    <2> HIDE DEF n
    <2>3. padded = [i \in 1..(n + Len(bytes)) |-> IF i <= n THEN Zero ELSE bytes[i - n]]
        BY DEF Padded
    <2> HIDE DEF padded
    <2>4. x = [i \in 1..(n + Len(bytes)) |-> Xor(padded[i], Keystream(ic, i - 1))]
        BY <2>3 DEF crypto_stream_xor_ic
    <2> HIDE DEF x, ic
    <2>5. Len(x) = n + Len(bytes)
        <3> DEFINE T == {x[i] : i \in 1..(n + Len(bytes))}
        <3>1. x \in [1..(n + Len(bytes)) -> T]
            BY <2>4
        <3>2. n + Len(bytes) \in Nat
            BY <1>1, <2>1
        <3> QED BY <3>1, <3>2, FunctionSeq
    <2>6. Unpadded(x, n) = [i \in 1..Len(bytes) |-> x[i + n]]
        BY <1>1, <2>1, <2>5 DEF Unpadded
    <2>7. ASSUME NEW i \in 1..Len(bytes)
          PROVE  x[i + n] = Xor(bytes[i], KeyAt(c + i - 1))
        <3>1. padded[i + n] = bytes[i] /\ i + n \in 1..(n + Len(bytes))
            BY <1>1, <2>1, <2>3
        <3>2. x[i + n] = Xor(bytes[i], Keystream(ic, (i + n) - 1))
            <4> DEFINE k == i + n
            <4>1. k \in 1..(n + Len(bytes)) /\ padded[k] = bytes[i]
                BY <3>1
            <4> HIDE DEF k
            <4>2. x[k] = Xor(bytes[i], Keystream(ic, k - 1))
                BY <2>4, <4>1
            <4> QED BY <4>2 DEF k
        <3>3. Counts(c + (i - 1)) /\ i - 1 \in Nat /\ c + (i - 1) = c + i - 1 /\ (i + n) - 1 = n + (i - 1)
            BY <1>1, <2>1
        <3>4. Keystream(ic, n + (i - 1)) = KeyAt(c + (i - 1))
            BY <1>4, <3>3, KeystreamAt DEF n, ic
        <3> QED BY <3>2, <3>3, <3>4
    <2> QED BY <2>2, <2>6, <2>7
<1> QED BY <1>2, <1>3, <1>4 DEF Sodium

-----------------------------------------------------------------------------
(* The stream.                                                             *)

Keys == {"table"} \cup Nat \cup ((Nat \X Nat) \X Nat)
Bytes == (Octets \cup {"iv"}) \X SUBSET Keys
PlainBytes == Octets \X {{}}

LEMMA KeyType == ASSUME NEW q \in Nat PROVE KeyAt(q) \in Keys
<1> USE CipherAssumption
<1>1. CASE ~Sodium
    BY <1>1 DEF Sodium, KeyAt, Keys
<1>2. CASE Sodium
    <2> DEFINE b == q \div SODIUM_BLOCK_SIZE
    <2>1. b \in Nat /\ q % SODIUM_BLOCK_SIZE \in Nat
        BY Euclid
    <2> HIDE DEF b
    <2>2. b % WORD \in Nat /\ b \div WORD \in Nat
        BY <2>1, Euclid
    <2>3. ivsetup(b) \in Nat \X Nat
        BY <2>2 DEF ivsetup
    <2> QED BY <1>2, <2>1, <2>3 DEF KeyAt, Keys, Sodium, b
<1> QED BY <1>1, <1>2

LEMMA KeyInjective ==
    ASSUME NEW p \in Nat, NEW q \in Nat, Counts(p), Counts(q), method # "table", KeyAt(p) = KeyAt(q)
    PROVE  p = q
<1> USE CipherAssumption
<1>1. CASE method = "evp"
    BY <1>1 DEF KeyAt
<1>2. CASE Sodium
    <2> DEFINE B == SODIUM_BLOCK_SIZE
               b == p \div B
               c == q \div B
    <2>1. /\ p = B * b + (p % B) /\ b \in Nat
          /\ q = B * c + (q % B) /\ c \in Nat
        BY Euclid
    <2>2. ivsetup(b) = ivsetup(c) /\ p % B = q % B
        BY <1>2 DEF KeyAt, Sodium
    <2>3. method = "chacha20-ietf" => b < WORD /\ c < WORD
        BY DivBelow DEF Counts
    <2> HIDE DEF b, c
    <2>4. b = WORD * (b \div WORD) + (b % WORD) /\ c = WORD * (c \div WORD) + (c % WORD)
        BY <2>1, Euclid
    <2>5. method = "chacha20-ietf" => b % WORD = b /\ c % WORD = c
        BY <2>1, <2>3, DivSmall, Zenon
    <2>6. b = c
        BY <2>2, <2>4, <2>5 DEF ivsetup
    <2> QED BY <2>1, <2>2, <2>6
<1> QED BY <1>1, <1>2 DEF Sodium

LEMMA XorType ==
    ASSUME NEW b \in Bytes, NEW k \in Keys
    PROVE  Xor(b, k) \in Bytes
BY DEF Xor, Bytes

LEMMA XorTwice ==
    ASSUME NEW b \in PlainBytes, NEW k
    PROVE  Xor(b, k) = <<b[1], {k}>> /\ Xor(Xor(b, k), k) = b
BY DEF Xor, PlainBytes

LEMMA PlainAreBytes == PlainBytes \subseteq Bytes
BY DEF PlainBytes, Bytes

\* A call on bytes gives as many bytes.
LEMMA CryptType ==
    ASSUME NEW c \in Nat, NEW bytes \in Seq(Bytes), \A i \in DOMAIN bytes : Counts(c + i - 1)
    PROVE  /\ Crypt(c, bytes) \in Seq(Bytes) /\ Len(Crypt(c, bytes)) = Len(bytes)
           /\ \A i \in 1..Len(bytes) : Crypt(c, bytes)[i] = Xor(bytes[i], KeyAt(c + i - 1))
<1> DEFINE r == [i \in 1..Len(bytes) |-> Xor(bytes[i], KeyAt(c + i - 1))]
<1>1. Crypt(c, bytes) = r
    BY CryptKey
<1>2. Len(bytes) \in Nat /\ \A i \in 1..Len(bytes) : bytes[i] \in Bytes
    BY LenProperties
<1>3. \A i \in 1..Len(bytes) : Xor(bytes[i], KeyAt(c + i - 1)) \in Bytes
    <2> TAKE i \in 1..Len(bytes)
    <2>1. c + i - 1 \in Nat
        BY <1>2
    <2> QED BY <1>2, <2>1, KeyType, XorType
<1>4. r \in [1..Len(bytes) -> Bytes]
    BY <1>3
<1>5. \A i \in 1..Len(bytes) : r[i] = Xor(bytes[i], KeyAt(c + i - 1))
    OBVIOUS
<1> HIDE DEF r
<1>6. r \in Seq(Bytes) /\ Len(r) = Len(bytes)
    BY <1>2, <1>4, FunctionSeq
<1> QED BY <1>1, <1>5, <1>6, Zenon

\* The IV in front of the bytes of ctx.
ivlen(ctx) == IF ctx.init THEN Len(Iv) ELSE 0

LEMMA IvType ==
    /\ Iv \in Seq(Bytes) /\ Len(Iv) \in Nat
    /\ \A i \in 1..Len(Iv) : Iv[i] = <<"iv", {}>>
<1> DEFINE n == IF method = "table" THEN 0 ELSE IvLen
<1>1. n \in Nat
    BY CipherAssumption
<1>2. Iv = [i \in 1..n |-> <<"iv", {}>>]
    BY DEF Iv
<1>3. <<"iv", {}>> \in Bytes
    BY DEF Bytes
<1> HIDE DEF n
<1>4. Iv \in [1..n -> Bytes]
    BY <1>2, <1>3
<1>5. Iv \in Seq(Bytes) /\ Len(Iv) = n
    BY <1>1, <1>4, FunctionSeq
<1> QED BY <1>1, <1>2, <1>5

Contexts == [init : BOOLEAN, counter : Nat]

Sender ==
    /\ e_ctx \in Contexts /\ e_ctx.counter = Len(plain) /\ (e_ctx.init \/ Len(plain) = 0)
    /\ wire \in Seq(Bytes) /\ Len(wire) = ivlen(e_ctx) + Len(plain)
    /\ \A p \in 1..ivlen(e_ctx) : wire[p] = <<"iv", {}>>
    /\ \A p \in 1..Len(plain) : wire[ivlen(e_ctx) + p] = Xor(plain[p], KeyAt(p - 1))

Receiver ==
    /\ d_ctx \in Contexts /\ d_ctx.counter = Len(opened) /\ (d_ctx.init \/ Len(opened) = 0)
    /\ d_ctx.init => e_ctx.init
    /\ taken = ivlen(d_ctx) + Len(opened)
    /\ opened \in Seq(Bytes) /\ Len(opened) <= Len(plain)
    /\ \A p \in 1..Len(opened) : opened[p] = plain[p]

Inv ==
    /\ method \in Methods /\ plain \in Seq(PlainBytes)
    /\ Within => Sender /\ Receiver

LEMMA WithinCounts ==
    ASSUME Within, plain \in Seq(PlainBytes), NEW p \in 1..Len(plain)
    PROVE  Counts(p - 1)
<1>1. Len(plain) \in Nat /\ WORD * SODIUM_BLOCK_SIZE \in Nat
    BY CipherAssumption, LenProperties
<1> QED BY <1>1 DEF Within, Counts

LEMMA InvInit == CipherInit => Inv
<1> SUFFICES ASSUME CipherInit PROVE Inv
    OBVIOUS
<1>1. plain \in Seq(PlainBytes) /\ wire \in Seq(Bytes) /\ opened \in Seq(Bytes) /\ Len(<<>>) = 0
    BY EmptySeq DEF CipherInit
<1> QED BY <1>1 DEF CipherInit, Inv, Sender, Receiver, Contexts, ivlen

LEMMA Joined ==
    ASSUME NEW s \in Seq(Bytes), NEW t \in Seq(Bytes)
    PROVE  /\ s \o t \in Seq(Bytes) /\ Len(s \o t) = Len(s) + Len(t)
           /\ \A p \in 1..(Len(s) + Len(t)) : (s \o t)[p] = IF p <= Len(s) THEN s[p] ELSE t[p - Len(s)]
BY ConcatProperties

LEMMA EncryptKeeps ==
    ASSUME Inv, NEW bytes \in Seq(PlainBytes), ss_encrypt(bytes)
    PROVE  Inv'
<1> USE CipherAssumption
<1> DEFINE n == Len(plain)
           l == Len(bytes)
           c == Crypt(e_ctx.counter, bytes)
           w == wire \o (IF e_ctx.init THEN <<>> ELSE Iv)
<1>1. /\ plain' = plain \o bytes /\ wire' = w \o c /\ method' = method
      /\ e_ctx' = [init |-> TRUE, counter |-> e_ctx.counter + l]
      /\ UNCHANGED <<d_ctx, taken, opened>>
    BY DEF ss_encrypt, Advance
<1>2. /\ plain' \in Seq(PlainBytes) /\ Len(plain') = n + l /\ n \in Nat /\ l \in Nat
      /\ \A p \in 1..n : plain'[p] = plain[p]
      /\ \A p \in 1..l : plain'[n + p] = bytes[p]
      /\ \A p \in 1..l : bytes[p] \in PlainBytes
    <2>1. plain \in Seq(PlainBytes)
        BY DEF Inv
    <2>2. n \in Nat /\ l \in Nat /\ \A p \in 1..l : bytes[p] \in PlainBytes
        BY <2>1, LenProperties
    <2>3. /\ plain \o bytes \in Seq(PlainBytes) /\ Len(plain \o bytes) = n + l
          /\ \A p \in 1..(n + l) : (plain \o bytes)[p] = IF p <= n THEN plain[p] ELSE bytes[p - n]
        BY <2>1, ConcatProperties
    <2> QED BY <1>1, <2>2, <2>3
<1>3. SUFFICES ASSUME Within'
               PROVE  Sender' /\ Receiver'
    BY <1>1, <1>2 DEF Inv
<1>4. Within /\ Sender /\ Receiver
    <2>1. WORD * SODIUM_BLOCK_SIZE \in Nat
        OBVIOUS
    <2> QED BY <1>1, <1>2, <1>3, <2>1 DEF Within, Inv
<1>5. Iv' = Iv /\ \A q : KeyAt(q)' = KeyAt(q)
    BY <1>1 DEF Iv, KeyAt, ivsetup
<1>6. /\ c \in Seq(Bytes) /\ Len(c) = l
      /\ \A i \in 1..l : c[i] = Xor(bytes[i], KeyAt(n + i - 1))
    <2>1. \A i \in DOMAIN bytes : Counts(n + i - 1)
        <3> TAKE i \in DOMAIN bytes
        <3>1. i \in 1..l
            BY LenProperties
        <3>2. WORD * SODIUM_BLOCK_SIZE \in Nat
            OBVIOUS
        <3> QED BY <1>1, <1>2, <1>3, <3>1, <3>2 DEF Within, Counts
    <2>2. bytes \in Seq(Bytes)
        BY PlainAreBytes, SeqMonotonic
    <2>3. e_ctx.counter = n
        BY <1>4 DEF Sender
    <2> QED BY <1>2, <2>1, <2>2, <2>3, CryptType
<1>7. /\ w \in Seq(Bytes) /\ Len(w) = Len(Iv) + n
      /\ \A p \in 1..Len(Iv) : w[p] = <<"iv", {}>>
      /\ \A p \in 1..n : w[Len(Iv) + p] = Xor(plain[p], KeyAt(p - 1))
    <2>1. CASE e_ctx.init
        <3>1. w = wire
            BY <1>4, <2>1, ConcatEmptySeq DEF Sender
        <3> HIDE DEF w
        <3> QED BY <1>4, <2>1, <3>1, Zenon DEF Sender, ivlen
    <2>2. CASE ~e_ctx.init
        <3>1. n = 0 /\ Len(wire) = 0 /\ wire \in Seq(Bytes)
            BY <1>4, <2>2 DEF Sender, ivlen
        <3>2. w = wire \o Iv
            BY <2>2
        <3>3. /\ w \in Seq(Bytes) /\ Len(w) = 0 + Len(Iv)
              /\ \A p \in 1..(0 + Len(Iv)) : w[p] = IF p <= 0 THEN wire[p] ELSE Iv[p - 0]
            BY <3>1, <3>2, IvType, ConcatProperties
        <3> HIDE DEF w, n
        <3>4. Len(Iv) \in Nat
            BY IvType
        <3>5. Len(w) = Len(Iv) + n
            BY <3>1, <3>3, <3>4
        <3>6. ASSUME NEW p \in 1..Len(Iv) PROVE w[p] = <<"iv", {}>>
            <4>1. p \in 1..(0 + Len(Iv)) /\ ~(p <= 0) /\ p - 0 = p
                BY <3>4
            <4>2. w[p] = Iv[p]
                BY <3>3, <4>1
            <4> QED BY <4>2, IvType, Zenon
        <3>7. 1..n = {}
            BY <3>1
        <3> QED BY <3>3, <3>5, <3>6, <3>7, Zenon
    <2> QED BY <2>1, <2>2, Zenon
<1> HIDE DEF c, w
<1>8. /\ wire' \in Seq(Bytes) /\ Len(wire') = (Len(Iv) + n) + l
      /\ \A p \in 1..((Len(Iv) + n) + l) :
            wire'[p] = IF p <= Len(Iv) + n THEN w[p] ELSE c[p - (Len(Iv) + n)]
    <2>0. w \in Seq(Bytes) /\ c \in Seq(Bytes)
        BY <1>6, <1>7
    <2>1. /\ w \o c \in Seq(Bytes) /\ Len(w \o c) = Len(w) + Len(c)
          /\ \A p \in 1..(Len(w) + Len(c)) : (w \o c)[p] = IF p <= Len(w) THEN w[p] ELSE c[p - Len(w)]
        BY <2>0, Joined
    <2> QED BY <1>1, <1>6, <1>7, <2>1, Zenon
<1> DEFINE v == Len(Iv)
<1>9. v \in Nat
    BY IvType
<1>10. ivlen(e_ctx)' = v
    BY <1>1, <1>5 DEF ivlen
<1>11. Sender'
    <2>1. e_ctx' \in Contexts /\ e_ctx'.counter = Len(plain') /\ e_ctx'.init
        BY <1>1, <1>2, <1>4 DEF Sender, Contexts
    <2> HIDE DEF v, n, l
    <2>2. ASSUME NEW p \in 1..v PROVE wire'[p] = <<"iv", {}>>
        <3>1. p \in 1..((v + n) + l) /\ p <= v + n
            BY <1>2, <1>9 DEF n, l
        <3>2. wire'[p] = w[p]
            BY <1>8, <3>1 DEF v, n, l
        <3> QED BY <1>7, <3>2, Zenon DEF v
    <2>3. ASSUME NEW p \in 1..(n + l) PROVE wire'[v + p] = Xor(plain'[p], KeyAt(p - 1))
        <3>0. v + p \in 1..((v + n) + l)
            BY <1>2, <1>9 DEF n, l
        <3>1. CASE p <= n
            <4>1. wire'[v + p] = w[v + p]
                <5>1. v + p <= v + n
                    BY <1>2, <1>9, <3>1 DEF n, l
                <5> QED BY <1>8, <3>0, <5>1, Zenon DEF v, n, l
            <4>2. p \in 1..n
                BY <1>2, <3>1 DEF n, l
            <4> QED BY <1>2, <1>7, <4>1, <4>2 DEF v, n
        <3>2. CASE p > n
            <4>1. p - n \in 1..l /\ (v + p) - (v + n) = p - n /\ ~(v + p <= v + n)
                  /\ n + (p - n) - 1 = p - 1 /\ n + (p - n) = p
                BY <1>2, <1>9, <3>2 DEF n, l
            <4>2. wire'[v + p] = c[(v + p) - (v + n)]
                BY <1>8, <3>0, <4>1, Zenon DEF v, n, l
            <4>3. c[p - n] = Xor(bytes[p - n], KeyAt(n + (p - n) - 1))
                BY <1>6, <4>1, Zenon DEF n, l
            <4>4. plain'[n + (p - n)] = bytes[p - n]
                BY <1>2, <4>1, Zenon DEF n, l
            <4> QED BY <4>1, <4>2, <4>3, <4>4, Zenon
        <3> QED BY <1>2, <3>1, <3>2 DEF n, l
    <2>4. Len(wire') = v + (n + l)
        BY <1>2, <1>8, <1>9 DEF v, n, l
    <2>5. Len(plain') = n + l
        BY <1>2 DEF n, l
    <2> QED BY <1>5, <1>8, <1>10, <2>1, <2>2, <2>3, <2>4, <2>5, Zenon DEF Sender
<1>12. Receiver'
    <2>1. ivlen(d_ctx)' = ivlen(d_ctx)
        BY <1>1, <1>5 DEF ivlen
    <2>2. Len(opened) \in Nat
        BY <1>4, LenProperties DEF Receiver
    <2> QED BY <1>1, <1>2, <1>4, <2>1, <2>2 DEF Receiver
<1> QED BY <1>11, <1>12

LEMMA DecryptKeeps ==
    ASSUME Inv, NEW n \in Nat, ss_decrypt(n)
    PROVE  Inv'
<1> USE CipherAssumption
<1> DEFINE iv == IF d_ctx.init THEN 0 ELSE Len(Iv)
           bytes == SubSeq(wire, taken + iv + 1, taken + n)
           c == Crypt(d_ctx.counter, bytes)
           o == Len(opened)
           v == Len(Iv)
           l == n - iv
<1>1. /\ n > iv /\ taken + n <= Len(wire) /\ taken' = taken + n
      /\ opened' = opened \o c
      /\ d_ctx' = [init |-> TRUE, counter |-> d_ctx.counter + (n - iv)]
      /\ UNCHANGED <<method, e_ctx, plain, wire>>
    BY Zenon DEF ss_decrypt, Advance
<1>2. SUFFICES ASSUME Within
               PROVE  Sender' /\ Receiver'
    BY <1>1, Zenon DEF Inv, Within
<1>3. Sender /\ Receiver /\ plain \in Seq(PlainBytes)
    BY <1>2 DEF Inv
<1>4. Iv' = Iv /\ \A q : KeyAt(q)' = KeyAt(q)
    BY <1>1 DEF Iv, KeyAt, ivsetup
<1>5. Sender'
    BY <1>1, <1>3, <1>4, Zenon DEF Sender, ivlen
<1>6. v \in Nat /\ iv \in Nat /\ l \in Nat /\ o \in Nat /\ taken \in Nat /\ Len(plain) \in Nat /\ Len(wire) \in Nat
    <2>1. v \in Nat
        BY IvType
    <2>2. iv \in Nat
        BY <2>1
    <2>3. o \in Nat /\ Len(plain) \in Nat /\ Len(wire) \in Nat
        BY <1>3, LenProperties, Zenon DEF Sender, Receiver
    <2>4. l \in Nat
        BY <1>1, <2>2
    <2>5. taken \in Nat
        BY <1>3, <2>1, <2>3 DEF Receiver, ivlen
    <2> QED BY <2>1, <2>2, <2>3, <2>4, <2>5
<1>7. e_ctx.init /\ taken + iv = v + o /\ taken + n = v + (o + l) /\ o + l <= Len(plain)
    <2>1. taken + iv = v + o
        BY <1>3, <1>6 DEF Receiver, ivlen
    <2>2. taken + n = v + (o + l)
        <3>1. \A x, y, z, m \in Nat, k \in Nat : x + k = y + z => x + m = y + (z + (m - k))
            OBVIOUS
        <3> HIDE DEF v, o, iv
        <3> QED BY <1>6, <2>1, <3>1
    <2>3. e_ctx.init
        <3>1. CASE d_ctx.init
            BY <1>3, <3>1 DEF Receiver
        <3>2. CASE ~e_ctx.init
            <4>1. Len(wire) = 0
                BY <1>3, <3>2 DEF Sender, ivlen
            <4> QED BY <1>1, <1>6, <4>1
        <3> QED BY <3>1, <3>2
    <2>4. Len(wire) = v + Len(plain)
        BY <1>3, <2>3 DEF Sender, ivlen
    <2>5. v + (o + l) <= v + Len(plain)
        BY <1>1, <2>2, <2>4, Zenon
    <2> HIDE DEF v, o, l, iv
    <2>6. o + l <= Len(plain)
        BY <1>6, <2>5
    <2> QED BY <2>1, <2>2, <2>3, <2>6
<1>8. \A p \in 1..Len(plain) : wire[v + p] = Xor(plain[p], KeyAt(p - 1))
    BY <1>3, <1>7 DEF Sender, ivlen
<1>9. d_ctx.counter = o
    BY <1>3 DEF Receiver
<1> HIDE DEF v, o, l, iv
<1>10. /\ bytes \in Seq(Bytes) /\ Len(bytes) = l
       /\ \A i \in 1..l : bytes[i] = wire[v + (o + i)]
    <2> DEFINE a == taken + iv + 1
               b == taken + n
    <2>1. a \in Int /\ b \in Int /\ a = v + o + 1 /\ b = v + (o + l)
        BY <1>6, <1>7
    <2>2. \A i \in a..b : wire[i] \in Bytes
        <3>1. \A i \in 1..Len(wire) : wire[i] \in Bytes
            BY <1>3, LenProperties, Zenon DEF Sender
        <3> QED BY <1>1, <1>6, <2>1, <3>1
    <2> HIDE DEF a, b
    <2>3. /\ SubSeq(wire, a, b) \in Seq(Bytes)
          /\ Len(SubSeq(wire, a, b)) = IF a <= b THEN b - a + 1 ELSE 0
          /\ \A i \in 1..(b - a + 1) : SubSeq(wire, a, b)[i] = wire[a + i - 1]
        BY <2>1, <2>2, SubSeqProperties
    <2>4. b - a + 1 = l /\ (a <= b \/ l = 0) /\ \A i \in 1..l : a + i - 1 = v + (o + i)
        BY <1>6, <2>1
    <2>5. bytes = SubSeq(wire, a, b)
        BY DEF a, b
    <2> HIDE DEF bytes
    <2> QED BY <1>6, <2>3, <2>4, <2>5, Zenon
<1>11. /\ c \in Seq(Bytes) /\ Len(c) = l
       /\ \A i \in 1..l : c[i] = Xor(bytes[i], KeyAt(o + i - 1))
    <2> HIDE DEF bytes
    <2>1. \A i \in DOMAIN bytes : Counts(o + i - 1)
        <3> TAKE i \in DOMAIN bytes
        <3>1. i \in 1..l
            BY <1>10, LenProperties
        <3>2. o + i \in 1..Len(plain)
            BY <1>6, <1>7, <3>1
        <3>3. Counts((o + i) - 1)
            BY <1>2, <1>3, <3>2, WithinCounts
        <3>4. (o + i) - 1 = o + i - 1
            BY <1>6, <3>1
        <3> QED BY <3>3, <3>4
    <2> QED BY <1>6, <1>9, <1>10, <2>1, CryptType, ZenonT(30)
<1> HIDE DEF c, bytes
<1>12. /\ opened' \in Seq(Bytes) /\ Len(opened') = o + l
       /\ \A p \in 1..(o + l) : opened'[p] = IF p <= o THEN opened[p] ELSE c[p - o]
    <2>1. /\ opened \o c \in Seq(Bytes) /\ Len(opened \o c) = Len(opened) + Len(c)
          /\ \A p \in 1..(Len(opened) + Len(c)) :
                (opened \o c)[p] = IF p <= Len(opened) THEN opened[p] ELSE c[p - Len(opened)]
        <3>1. opened \in Seq(Bytes) /\ c \in Seq(Bytes)
            BY <1>3, <1>11 DEF Receiver
        <3> QED BY <3>1, Joined
    <2> QED BY <1>1, <1>11, <2>1, Zenon DEF o
<1>13. \A p \in 1..(o + l) : opened'[p] = plain[p]
    <2> TAKE p \in 1..(o + l)
    <2>1. CASE p <= o
        <3>1. p \in 1..o
            BY <1>6, <2>1
        <3>2. opened[p] = plain[p]
            BY <1>3, <3>1, Zenon DEF Receiver, o
        <3> QED BY <1>12, <2>1, <3>2
    <2>2. CASE p > o
        <3>1. p - o \in 1..l /\ o + (p - o) = p /\ o + (p - o) - 1 = p - 1 /\ ~(p <= o)
              /\ p \in 1..Len(plain)
            BY <1>6, <1>7, <2>2
        <3>2. opened'[p] = c[p - o]
            BY <1>12, <3>1, Zenon
        <3>3. c[p - o] = Xor(bytes[p - o], KeyAt(p - 1))
            BY <1>11, <3>1, Zenon
        <3>4. bytes[p - o] = Xor(plain[p], KeyAt(p - 1))
            BY <1>8, <1>10, <3>1, Zenon
        <3>5. plain[p] \in PlainBytes
            BY <1>3, <3>1, ElementOfSeq
        <3> QED BY <3>2, <3>3, <3>4, <3>5, XorTwice, Zenon
    <2> QED BY <1>6, <2>1, <2>2
<1>14. ivlen(d_ctx)' = v
    BY <1>1, <1>4 DEF ivlen, v
<1>15. d_ctx' = [init |-> TRUE, counter |-> o + l]
    BY <1>1, <1>9 DEF l
<1>16. Receiver'
    <2>1. d_ctx' \in Contexts /\ d_ctx'.counter = Len(opened') /\ d_ctx'.init
        BY <1>6, <1>12, <1>15 DEF Contexts
    <2> QED BY <1>1, <1>6, <1>7, <1>12, <1>13, <1>14, <2>1, Zenon DEF Receiver
<1> QED BY <1>5, <1>16

LEMMA InvHolds == CipherSpec => []Inv
<1>1. CipherInit => Inv
    BY InvInit
<1>2. Inv /\ [CipherNext]_cipher => Inv'
    <2> SUFFICES ASSUME Inv, [CipherNext]_cipher
                 PROVE  Inv'
        OBVIOUS
    <2>1. ASSUME NEW bytes \in Seq(Octets \X {{}}), ss_encrypt(bytes) PROVE Inv'
        BY <2>1, EncryptKeeps DEF PlainBytes
    <2>2. ASSUME NEW n \in Nat, ss_decrypt(n) PROVE Inv'
        BY <2>2, DecryptKeeps
    <2>3. CASE UNCHANGED cipher
        BY <2>3, Zenon DEF cipher, Inv, Within, Sender, Receiver, ivlen, Iv, KeyAt, ivsetup
    <2> QED BY <2>1, <2>2, <2>3 DEF CipherNext
<1> QED BY <1>1, <1>2, PTL DEF CipherSpec

LEMMA InvDecrypts == Inv => Decrypts
<1> SUFFICES ASSUME Inv, Within
             PROVE  opened = SubSeq(plain, 1, Len(opened))
    BY DEF Decrypts
<1> DEFINE o == Len(opened)
           s == SubSeq(plain, 1, o)
<1>1. opened \in Seq(Bytes) /\ o \in Nat /\ o <= Len(plain) /\ \A p \in 1..o : opened[p] = plain[p]
    BY LenProperties DEF Inv, Receiver
<1>2. plain \in Seq(PlainBytes) /\ Len(plain) \in Nat
    BY LenProperties DEF Inv
<1>3. \A p \in 1..o : plain[p] \in PlainBytes
    BY <1>1, <1>2, ElementOfSeq
<1> HIDE DEF o
<1>4. /\ SubSeq(plain, 1, o) \in Seq(PlainBytes)
      /\ Len(SubSeq(plain, 1, o)) = IF 1 <= o THEN o - 1 + 1 ELSE 0
      /\ \A i \in 1..(o - 1 + 1) : SubSeq(plain, 1, o)[i] = plain[1 + i - 1]
    BY <1>1, <1>3, SubSeqProperties
<1>5. s \in Seq(PlainBytes) /\ Len(s) = o /\ \A i \in 1..o : s[i] = plain[i]
    BY <1>1, <1>4
<1> HIDE DEF s
<1>6. s \in Seq(Bytes)
    BY <1>5, PlainAreBytes, SeqMonotonic
<1>7. opened = s
    BY <1>1, <1>5, <1>6, SeqEqual DEF o
<1> QED BY <1>7 DEF s, o

LEMMA InvOnce == Inv => KeystreamOnce
<1> SUFFICES ASSUME Inv, Within, method # "table",
                    NEW i \in DOMAIN wire, NEW j \in DOMAIN wire, i # j, wire[i][2] # {}
             PROVE  wire[i][2] # wire[j][2]
    BY DEF KeystreamOnce
<1> DEFINE v == ivlen(e_ctx)
           n == Len(plain)
<1>1. /\ wire \in Seq(Bytes) /\ Len(wire) = v + n
      /\ \A p \in 1..v : wire[p] = <<"iv", {}>>
      /\ \A p \in 1..n : wire[v + p] = Xor(plain[p], KeyAt(p - 1))
      /\ plain \in Seq(PlainBytes)
    BY Zenon DEF Inv, Sender
<1>2. v \in Nat /\ n \in Nat
    BY <1>1, IvType, LenProperties, Zenon DEF ivlen
<1>3. \A p \in 1..n : plain[p] \in PlainBytes
    BY <1>1, ElementOfSeq, Zenon
<1> HIDE DEF v, n
<1>4. i \in 1..(v + n) /\ j \in 1..(v + n)
    BY <1>1, LenProperties
<1>5. ASSUME NEW k \in 1..(v + n)
      PROVE  \/ wire[k][2] = {}
             \/ k - v \in 1..n /\ wire[k][2] = {KeyAt((k - v) - 1)}
    <2>1. CASE k <= v
        <3>1. k \in 1..v
            BY <1>2, <2>1
        <3>2. wire[k] = <<"iv", {}>>
            BY <1>1, <3>1, Zenon
        <3> QED BY <3>2
    <2>2. CASE k > v
        <3>1. k - v \in 1..n /\ v + (k - v) = k
            BY <1>2, <2>2
        <3>2. wire[k] = Xor(plain[k - v], KeyAt((k - v) - 1))
            BY <1>1, <3>1, Zenon
        <3>3. wire[k] = <<plain[k - v][1], {KeyAt((k - v) - 1)}>>
            BY <1>3, <3>1, <3>2, XorTwice, Zenon
        <3> QED BY <3>1, <3>3
    <2> QED BY <1>2, <2>1, <2>2
<1>6. i - v \in 1..n /\ wire[i][2] = {KeyAt((i - v) - 1)}
    BY <1>4, <1>5
<1>7. CASE wire[j][2] = {}
    BY <1>7
<1>8. CASE j - v \in 1..n /\ wire[j][2] = {KeyAt((j - v) - 1)}
    <2> DEFINE p == i - v
               q == j - v
    <2>1. p \in 1..n /\ q \in 1..n /\ p # q
        BY <1>2, <1>4, <1>6, <1>8
    <2>2. p - 1 \in Nat /\ q - 1 \in Nat /\ p - 1 # q - 1
        BY <1>2, <2>1
    <2>3. Counts(p - 1) /\ Counts(q - 1)
        BY <1>1, <2>1, WithinCounts, Zenon DEF n
    <2>4. KeyAt(p - 1) # KeyAt(q - 1)
        BY <2>2, <2>3, KeyInjective, Zenon
    <2> QED BY <1>6, <1>8, <2>4
<1> QED BY <1>4, <1>5, <1>7, <1>8, Zenon

\* In whatever pieces ss_encrypt and ss_decrypt take the stream, for every block
\* size, size of the counter, length of the IV and method, the receiver gets the
\* bytes of the sender, as far as the counter goes.
THEOREM CipherDecrypts == CipherSpec => []Decrypts
BY InvHolds, InvDecrypts, PTL

\* No byte of the keystream serves two bytes of the stream, as far as the counter
\* goes.
THEOREM CipherKeystreamOnce == CipherSpec => []KeystreamOnce
BY InvHolds, InvOnce, PTL

-----------------------------------------------------------------------------
(* Datagrams.                                                              *)

Plains ==
    [flag : BOOLEAN, dest : {"none", "ip", "name"},
     data : {"none", "request", "altered", "reply"}, len : Nat]
Tags == [iv : Nat, of : Plains]
Datagrams == [iv : Nat, plain : Plains, tag : Tags, len : Nat]

DgTypeOK ==
    /\ dgWorld \in DgWorlds /\ dgAuth \in BOOLEAN
    /\ dgStep \in {"idle", "requested", "accepted", "refused", "replied", "delivered", "lost"}
    /\ dgSent \in Plains /\ dgWire \in Datagrams /\ dgAltered \in BOOLEAN
    /\ dgHeader \in [flag : BOOLEAN, dest : {"none", "ip", "name"}] /\ dgGot \in Plains
    /\ tmp \in [enc : Nat, dec : Nat] /\ dgFits \in BOOLEAN /\ datagrams \in Nat

Sealed == dgWorld.method # "table"
Tagged == Sealed /\ dgWorld.auth

\* A request on the wire: as ss_encrypt_all made it, or changed; its code, if there
\* is one, is that of the datagram which was sent.
RequestOnWire ==
    /\ dgWire.plain.data \in {"request", "altered"}
    /\ dgWire.tag = NoTag \/ (Tagged /\ dgWire.tag.of = dgSent)
    /\ ~dgAltered =>
          /\ dgWire.plain = dgSent /\ dgSent.flag = dgWorld.auth /\ dgSent.data = "request"
          /\ dgSent.len > 0
          /\ dgWire.len = ivLen + dgSent.len + IF Tagged THEN DG_AUTH_BYTES ELSE 0
          /\ dgWire.tag = IF Tagged THEN ss_onetimeauth(dgSent, dgWire.iv) ELSE NoTag

\* A reply on the wire has no code, and is flagged if it is for a name that was.
ReplyOnWire ==
    /\ dgWire.plain.data = "reply" /\ dgWire.tag = NoTag /\ dgWire.len > ivLen
    /\ dgWire.plain.flag => dgHeader.dest = "name" /\ dgHeader.flag

DgInv ==
    /\ DgTypeOK
    /\ dgWorld.strict => dgAuth
    /\ dgStep = "requested" => RequestOnWire
    /\ dgStep = "replied" => ReplyOnWire
    /\ DatagramsSound

\* The records that stand for nothing have their types, and so does the setup.
LEMMA DgTypes ==
    /\ Nothing \in Plains /\ NoTag \in Tags /\ NoDatagram \in Datagrams
    /\ Nothing.data = "none" /\ NoTag.of = Nothing
BY Zenon DEF Plains, Tags, Datagrams, Nothing, NoTag, NoDatagram

LEMMA DgWorldType ==
    ASSUME DgTypeOK
    PROVE  /\ dgWorld.auth \in BOOLEAN /\ dgWorld.strict \in BOOLEAN
           /\ \A len \in dgWorld.lens : len \in Nat /\ len > 0
           /\ ivLen \in Nat /\ DG_AUTH_BYTES \in Nat /\ MAX_UDP_PACKET_SIZE \in Nat
           /\ Sealed => ivLen = IV_LEN
BY DgAssumption DEF DgTypeOK, ivLen, Sealed

\* brealloc makes room for what it was asked for, and for a datagram.
LEMMA ReallocRoom ==
    ASSUME NEW c \in Nat, NEW l \in Nat
    PROVE  brealloc_to(c, l) \in Nat /\ brealloc_to(c, l) >= l /\ brealloc_to(c, l) >= MAX_UDP_PACKET_SIZE
BY DgAssumption DEF brealloc_to

\* What ss_encrypt_all puts on the wire.
LEMMA Encrypts ==
    ASSUME DgTypeOK, NEW pl \in Plains, NEW a \in BOOLEAN, NEW fresh \in Nat,
           ss_encrypt_all(pl, a, fresh)
    PROVE  /\ dgWire' \in Datagrams /\ dgWire'.plain = pl
           /\ dgWire'.len = ivLen + pl.len + IF Sealed /\ a THEN DG_AUTH_BYTES ELSE 0
           /\ dgWire'.tag = IF Sealed /\ a THEN ss_onetimeauth(pl, dgWire'.iv) ELSE NoTag
           /\ tmp' \in [enc : Nat, dec : Nat] /\ dgFits' \in BOOLEAN
           /\ dgFits /\ (Sealed /\ a => ivLen + pl.len + DG_AUTH_BYTES <= MAX_UDP_PACKET_SIZE) => dgFits'
<1>. DEFINE iv == IF Sealed THEN fresh ELSE 0
            len == ivLen + pl.len + IF Sealed /\ a THEN DG_AUTH_BYTES ELSE 0
            tag == IF Sealed /\ a THEN ss_onetimeauth(pl, iv) ELSE NoTag
            room == brealloc_to(tmp.enc, ivLen + pl.len)
<1>1. dgWire' = [iv |-> iv, plain |-> pl, len |-> len, tag |-> tag]
  BY DEF ss_encrypt_all, Sealed
<1>2. tmp' = IF Sealed THEN [tmp EXCEPT !.enc = room] ELSE tmp
  BY DEF ss_encrypt_all, Sealed, Room
<1>3. dgFits' = (dgFits /\ (Sealed => len <= room))
  BY DEF ss_encrypt_all, Sealed, Room
<1>4. pl.len \in Nat /\ ivLen \in Nat /\ DG_AUTH_BYTES \in Nat /\ MAX_UDP_PACKET_SIZE \in Nat
  BY DgWorldType DEF Plains
<1>5. tmp.enc \in Nat
  BY DEF DgTypeOK
<1>6. room \in Nat /\ room >= ivLen + pl.len /\ room >= MAX_UDP_PACKET_SIZE
  <2>1. ivLen + pl.len \in Nat
    BY <1>4
  <2>. QED  BY <1>5, <2>1, ReallocRoom, Zenon
<1>7. iv \in Nat /\ len \in Nat
  BY <1>4
<1>8. tag \in Tags
  <2>1. ss_onetimeauth(pl, iv) \in Tags
    BY <1>7 DEF Tags, ss_onetimeauth
  <2>. QED  BY <2>1, DgTypes
<1>9. (Sealed /\ a => ivLen + pl.len + DG_AUTH_BYTES <= MAX_UDP_PACKET_SIZE) => len <= room
  BY <1>4, <1>6
<1>10. len = ivLen + pl.len + IF Sealed /\ a THEN DG_AUTH_BYTES ELSE 0
  OBVIOUS
<1>. HIDE DEF iv, len, room
<1>11. dgWire' \in Datagrams /\ dgWire'.plain = pl /\ dgWire'.len = len /\ dgWire'.iv = iv /\ dgWire'.tag = tag
  BY <1>1, <1>7, <1>8 DEF Datagrams
<1>12. tmp' \in [enc : Nat, dec : Nat]
  BY <1>2, <1>6 DEF DgTypeOK
<1>13. dgFits' \in BOOLEAN
  BY <1>3 DEF DgTypeOK
<1>. QED  BY <1>3, <1>9, <1>10, <1>11, <1>12, <1>13, Zenon

\* What the receiver makes of it.
LEMMA DecryptsTo ==
    ASSUME DgTypeOK, NEW step, NEW dropped, NEW a \in BOOLEAN, Decrypted(step, dropped, a)
    PROVE  /\ dgGot' = ss_decrypt_all(dgWire, a) /\ dgGot' \in Plains
           /\ dgStep' = IF dgGot' = Nothing THEN dropped ELSE step
           /\ tmp' \in [enc : Nat, dec : Nat] /\ dgFits' \in BOOLEAN /\ (dgFits => dgFits')
           /\ UNCHANGED <<dgWorld, dgSent, dgAltered, datagrams>>
<1>1. /\ dgGot' = ss_decrypt_all(dgWire, a)
      /\ dgStep' = IF dgGot' = Nothing THEN dropped ELSE step
      /\ UNCHANGED <<dgWorld, dgSent, dgAltered, datagrams>>
  BY DEF Decrypted
<1>2. tmp' = IF ~Sealed THEN tmp ELSE [tmp EXCEPT !.dec = brealloc_to(tmp.dec, dgWire.len)]
  BY DEF Decrypted, Sealed
<1>3. dgFits' = (dgFits /\ (Sealed => dgWire.len - ivLen <= tmp'.dec))
  BY DEF Decrypted, Sealed
<1>4. dgWire.len \in Nat /\ dgWire.plain \in Plains /\ tmp.dec \in Nat /\ ivLen \in Nat
  BY DgWorldType, Zenon DEF DgTypeOK, Datagrams
<1>5. /\ brealloc_to(tmp.dec, dgWire.len) \in Nat
      /\ brealloc_to(tmp.dec, dgWire.len) >= dgWire.len
  BY <1>4, ReallocRoom, Zenon
<1>6. tmp' \in [enc : Nat, dec : Nat]
  BY <1>2, <1>5 DEF DgTypeOK
<1>7. Sealed => dgWire.len - ivLen <= tmp'.dec
  BY <1>2, <1>4, <1>5 DEF DgTypeOK
<1>8. [dgWire.plain EXCEPT !.len = @ + DG_AUTH_BYTES] \in Plains
  BY <1>4, DgWorldType DEF Plains
<1>9. dgGot' \in Plains
  BY <1>1, <1>4, <1>8, DgTypes, Zenon DEF ss_decrypt_all, Unverified
<1>10. dgFits' \in BOOLEAN /\ (dgFits => dgFits')
  BY <1>3, <1>7, Zenon DEF DgTypeOK
<1>. QED  BY <1>1, <1>6, <1>9, <1>10

\* The relay's buffers hold the datagrams of this setup with their codes.
Fitting == \A len \in dgWorld.lens : dgWorld.auth => ivLen + len + DG_AUTH_BYTES <= MAX_UDP_PACKET_SIZE

LEMMA RequestStep ==
    ASSUME DgInv, NEW dest \in {"ip", "name"}, NEW len \in dgWorld.lens, Request(dest, len)
    PROVE  DgInv'
<1>. DEFINE pl == [flag |-> dgWorld.auth, dest |-> dest, data |-> "request", len |-> len]
<1>1. DgTypeOK /\ len \in Nat /\ len > 0 /\ dgWorld.auth \in BOOLEAN /\ datagrams \in Nat
  BY DgWorldType, Zenon DEF DgInv, DgTypeOK
<1>2. pl \in Plains /\ pl.flag = dgWorld.auth /\ pl.data = "request" /\ pl.len = len
  BY <1>1, Zenon DEF Plains
<1>3. /\ dgSent' = pl /\ ss_encrypt_all(pl, dgWorld.auth, 2 * datagrams + 1)
      /\ datagrams' = datagrams + 1
      /\ dgStep' = "requested" /\ dgGot' = Nothing /\ dgAltered' = FALSE
      /\ UNCHANGED <<dgWorld, dgAuth, dgHeader>>
  BY Zenon DEF Request
<1>. HIDE DEF pl
<1>4. 2 * datagrams + 1 \in Nat /\ datagrams + 1 \in Nat
  BY <1>1
<1>5. /\ dgWire' \in Datagrams /\ dgWire'.plain = pl
      /\ dgWire'.len = ivLen + pl.len + IF Tagged THEN DG_AUTH_BYTES ELSE 0
      /\ dgWire'.tag = IF Tagged THEN ss_onetimeauth(pl, dgWire'.iv) ELSE NoTag
      /\ tmp' \in [enc : Nat, dec : Nat] /\ dgFits' \in BOOLEAN
      /\ dgFits /\ (Tagged => ivLen + pl.len + DG_AUTH_BYTES <= MAX_UDP_PACKET_SIZE) => dgFits'
  BY <1>1, <1>2, <1>3, <1>4, Encrypts, Zenon DEF Tagged
<1>6. ivLen' = ivLen /\ Tagged' = Tagged /\ (WritesFit' <=> (Fitting => dgFits'))
  BY <1>3, Zenon DEF ivLen, Tagged, Sealed, WritesFit, Fitting
<1>7. DgTypeOK'
  BY <1>1, <1>2, <1>3, <1>4, <1>5, DgTypes, Zenon DEF DgTypeOK
<1>8. RequestOnWire'
  <2>1. dgWire'.tag.of = pl \/ dgWire'.tag = NoTag
    BY <1>5 DEF ss_onetimeauth
  <2>2. ss_onetimeauth(dgSent', dgWire'.iv) = ss_onetimeauth(pl, dgWire'.iv)
    BY <1>3, Zenon
  <2>3. dgWire'.tag = NoTag \/ (Tagged /\ dgWire'.tag.of = pl)
    BY <1>5, <2>1
  <2>. QED  BY <1>1, <1>2, <1>3, <1>5, <1>6, <2>2, <2>3, Zenon DEF RequestOnWire, ss_onetimeauth
<1>9. DatagramsSound'
  <2>1. WritesFit'
    BY <1>2, <1>5, <1>6, Zenon DEF DgInv, DatagramsSound, WritesFit, Fitting, Tagged
  <2>. QED  BY <1>3, <2>1, Zenon DEF DatagramsSound, RequestIsTaken, OnlyAuthentic, RepliesArriveToAddresses
<1>. QED  BY <1>3, <1>7, <1>8, <1>9, Zenon DEF DgInv

LEMMA AlterStep ==
    ASSUME DgInv, Alter
    PROVE  DgInv'
<1>1. /\ dgStep = "requested" /\ dgAltered = FALSE /\ dgAltered' = TRUE
      /\ UNCHANGED <<dgWorld, dgAuth, dgStep, dgSent, dgHeader, dgGot, tmp, dgFits, datagrams>>
  BY Zenon DEF Alter, DgInv, DgTypeOK
<1>2. /\ dgWire \in Datagrams /\ dgWire.plain \in Plains /\ dgWire.len \in Nat /\ dgWire.tag \in Tags
  BY Zenon DEF DgInv, DgTypeOK, Datagrams
<1>3. RequestOnWire /\ dgWire.len > 0
  <2>1. dgSent.len \in Nat
    BY DEF DgInv, DgTypeOK, Plains
  <2>. QED  BY <1>1, <2>1, DgWorldType DEF DgInv, RequestOnWire
<1>4. \A flag \in BOOLEAN : /\ Garbled(dgWire.plain, flag) \in Plains
                            /\ Garbled(dgWire.plain, flag).data = "altered"
  BY <1>2, Zenon DEF Plains, Garbled
<1>5. /\ dgWire' \in Datagrams
      /\ dgWire'.plain.data \in {"request", "altered"}
      /\ dgWire'.tag \in {dgWire.tag, NoTag}
  <2>1. CASE \E flag \in BOOLEAN : dgWire' = [dgWire EXCEPT !.iv = 0, !.plain = Garbled(@, flag)]
    <3>1. PICK flag \in BOOLEAN : dgWire' = [dgWire EXCEPT !.iv = 0, !.plain = Garbled(@, flag)]
      BY <2>1, Zenon
    <3>2. dgWire' = [iv |-> 0, plain |-> Garbled(dgWire.plain, flag), tag |-> dgWire.tag, len |-> dgWire.len]
      BY <1>2, <3>1, Zenon DEF Datagrams
    <3>. QED  BY <1>2, <1>4, <3>2, Zenon DEF Datagrams
  <2>2. CASE \E flag \in BOOLEAN : dgWire' = [dgWire EXCEPT !.plain = Garbled(@, flag)]
    BY <1>2, <1>4, <2>2 DEF Datagrams
  <2>3. dgWire.plain.flag \in BOOLEAN
    BY <1>2 DEF Plains
  <2>4. CASE dgWire' = [dgWire EXCEPT !.tag = NoTag, !.len = @ - 1,
                                      !.plain = Garbled(@, dgWire.plain.flag)]
    <3>1. dgWire' = [iv |-> dgWire.iv, plain |-> Garbled(dgWire.plain, dgWire.plain.flag),
                     tag |-> NoTag, len |-> dgWire.len - 1]
      BY <1>2, <2>4, Zenon DEF Datagrams
    <3>2. dgWire.iv \in Nat /\ dgWire.len - 1 \in Nat
      BY <1>2, <1>3 DEF Datagrams
    <3>. QED  BY <1>2, <1>4, <2>3, <3>1, <3>2, DgTypes, Zenon DEF Datagrams
  <2>5. CASE dgWire' = [dgWire EXCEPT !.tag = NoTag]
    BY <1>2, <1>3, <2>5, DgTypes DEF Datagrams, RequestOnWire
  <2>. QED  BY <2>1, <2>2, <2>4, <2>5, Zenon DEF Alter
<1>6. RequestOnWire'
  <2>1. Tagged' = Tagged /\ dgSent' = dgSent
    BY <1>1 DEF Tagged, Sealed
  <2>2. dgWire'.tag = NoTag \/ (Tagged' /\ dgWire'.tag.of = dgSent')
    BY <1>3, <1>5, <2>1, Zenon DEF RequestOnWire
  <2>. QED  BY <1>1, <1>5, <2>2, Zenon DEF RequestOnWire
<1>7. DgTypeOK'
  BY <1>1, <1>5, Zenon DEF DgInv, DgTypeOK
<1>8. DatagramsSound'
  <2>1. WritesFit'
    BY <1>1, Zenon DEF DgInv, DatagramsSound, WritesFit, ivLen
  <2>. QED  BY <1>1, <2>1 DEF DatagramsSound, RequestIsTaken, OnlyAuthentic, RepliesArriveToAddresses
<1>. QED  BY <1>1, <1>6, <1>7, <1>8 DEF DgInv

\* ss-server: an honest request is taken or lacks the code that is asked for, and of
\* those that must be verified no other is.
LEMMA AcceptStep ==
    ASSUME DgInv, Accept
    PROVE  DgInv'
<1>1. dgStep = "requested" /\ Decrypted("accepted", "refused", dgAuth) /\ dgWire' = dgWire
  BY DEF Accept
<1>2. RequestOnWire /\ DgTypeOK
  BY <1>1 DEF DgInv
<1>3. /\ dgGot' = ss_decrypt_all(dgWire, dgAuth) /\ dgGot' \in Plains
      /\ dgStep' = IF dgGot' = Nothing THEN "refused" ELSE "accepted"
      /\ tmp' \in [enc : Nat, dec : Nat] /\ dgFits' \in BOOLEAN /\ (dgFits => dgFits')
      /\ UNCHANGED <<dgWorld, dgSent, dgAltered, datagrams>>
  <2>1. dgAuth \in BOOLEAN
    BY <1>2 DEF DgTypeOK
  <2>. QED  BY <1>1, <1>2, <2>1, DecryptsTo, Zenon
<1>4. dgHeader' = [flag |-> dgGot'.flag, dest |-> dgGot'.dest] /\ dgAuth' = (dgAuth \/ dgGot'.flag)
  BY DEF Accept
<1>5. /\ dgWire \in Datagrams /\ dgWire.plain \in Plains /\ dgWire.len \in Nat
      /\ dgSent \in Plains /\ dgSent.len \in Nat
      /\ dgWorld.auth \in BOOLEAN /\ ivLen \in Nat /\ DG_AUTH_BYTES \in Nat /\ (Sealed => ivLen = IV_LEN)
  BY <1>2, DgWorldType, Zenon DEF DgTypeOK, Datagrams, Plains
<1>6. DgTypeOK'
  <2>1. dgHeader' \in [flag : BOOLEAN, dest : {"none", "ip", "name"}] /\ dgAuth' \in BOOLEAN
    BY <1>2, <1>3, <1>4, Zenon DEF DgTypeOK, Plains
  <2>. QED  BY <1>1, <1>2, <1>3, <2>1, Zenon DEF DgTypeOK
<1>7. dgWire.plain # Nothing
  BY <1>2, DgTypes, Zenon DEF RequestOnWire
<1>8. ASSUME ~dgAltered
      PROVE  (dgGot' = dgSent /\ dgGot' # Nothing) \/ (dgGot' = Nothing /\ dgAuth /\ ~dgWorld.auth)
  <2>1. /\ dgWire.plain = dgSent /\ dgSent.flag = dgWorld.auth /\ dgSent.len > 0
        /\ dgWire.len = ivLen + dgSent.len + IF Tagged THEN DG_AUTH_BYTES ELSE 0
        /\ dgWire.tag = IF Tagged THEN ss_onetimeauth(dgSent, dgWire.iv) ELSE NoTag
    BY <1>2, <1>8, Zenon DEF RequestOnWire
  <2>2. CASE ~Sealed
    BY <1>3, <1>7, <2>1, <2>2, Zenon DEF ss_decrypt_all, Sealed
  <2>3. CASE Sealed /\ dgWorld.auth
    <3>1. dgWire.len - IV_LEN > DG_AUTH_BYTES /\ ~(dgWire.len <= IV_LEN)
      BY <1>5, <2>1, <2>3 DEF Tagged
    <3>2. MustVerify(dgWire, dgAuth) /\ ss_onetimeauth_verify(dgWire)
      BY <2>1, <2>3, Zenon DEF MustVerify, ss_onetimeauth_verify, Tagged
    <3>. QED  BY <1>3, <1>7, <2>1, <2>3, <3>1, <3>2, Zenon DEF ss_decrypt_all, Sealed
  <2>4. CASE Sealed /\ ~dgWorld.auth
    <3>1. ~(dgWire.len <= IV_LEN) /\ dgWire.tag = NoTag
      BY <1>5, <2>1, <2>4 DEF Tagged
    <3>2. ~ss_onetimeauth_verify(dgWire)
      BY <1>7, <3>1 DEF ss_onetimeauth_verify, ss_onetimeauth, NoTag
    <3>3. MustVerify(dgWire, dgAuth) <=> dgAuth
      BY <2>1, <2>4, Zenon DEF MustVerify
    <3>. QED  BY <1>3, <1>7, <2>1, <2>4, <3>1, <3>2, <3>3, Zenon DEF ss_decrypt_all, Unverified, Sealed
  <2>. QED  BY <2>2, <2>3, <2>4
<1>9. ASSUME Sealed, dgWorld.strict \/ dgWire.plain.flag, dgGot' # Nothing
      PROVE  dgGot' = dgSent /\ dgWorld.auth
  <2>1. MustVerify(dgWire, dgAuth)
    BY <1>9 DEF MustVerify, DgInv
  <2>2. ss_onetimeauth_verify(dgWire) /\ dgGot' = dgWire.plain
    BY <1>3, <1>9, <2>1, Zenon DEF ss_decrypt_all, Sealed
  <2>3. dgWire.tag.of = dgWire.plain
    BY <2>2 DEF ss_onetimeauth_verify, ss_onetimeauth
  <2>4. dgWire.tag # NoTag
    BY <1>7, <2>3, DgTypes
  <2>. QED  BY <1>2, <2>2, <2>3, <2>4, Zenon DEF RequestOnWire, Tagged
<1>10. RequestIsTaken'
  BY <1>3, <1>4, <1>8, Zenon DEF RequestIsTaken
<1>11. OnlyAuthentic'
  BY <1>1, <1>3, <1>9, Zenon DEF OnlyAuthentic, Sealed
<1>12. RepliesArriveToAddresses' /\ WritesFit'
  BY <1>3, Zenon DEF DgInv, DatagramsSound, RepliesArriveToAddresses, WritesFit, ivLen
<1>13. dgWorld'.strict => dgAuth'
  BY <1>3, <1>4, Zenon DEF DgInv
<1>14. dgStep' # "requested" /\ dgStep' # "replied"
  BY <1>3
<1>. QED  BY <1>6, <1>10, <1>11, <1>12, <1>13, <1>14 DEF DgInv, DatagramsSound

\* ss-server replies, without a code.
LEMMA ReplyStep ==
    ASSUME DgInv, NEW len \in dgWorld.lens, Reply(len)
    PROVE  DgInv'
<1>. DEFINE h == ReplyHeader(dgHeader)
            pl == [flag |-> h.flag, dest |-> h.dest, data |-> "reply", len |-> len]
<1>1. DgTypeOK /\ len \in Nat /\ len > 0 /\ datagrams \in Nat /\ ivLen \in Nat
  BY DgWorldType, Zenon DEF DgInv, DgTypeOK
<1>2. /\ h.flag \in BOOLEAN /\ h.dest \in {"none", "ip", "name"}
      /\ h.flag => dgHeader.dest = "name" /\ dgHeader.flag
  BY <1>1, Zenon DEF DgTypeOK, ReplyHeader
<1>3. /\ ss_encrypt_all(pl, FALSE, 2 * datagrams) /\ dgStep' = "replied"
      /\ UNCHANGED <<dgWorld, dgAuth, dgSent, dgAltered, dgHeader, dgGot, datagrams>>
  BY Zenon DEF Reply
<1>. HIDE DEF h
<1>4. pl \in Plains /\ pl.flag = h.flag /\ pl.data = "reply" /\ pl.len = len
  BY <1>1, <1>2, Zenon DEF Plains
<1>. HIDE DEF pl
<1>5. 2 * datagrams \in Nat
  BY <1>1
<1>6. /\ dgWire' \in Datagrams /\ dgWire'.plain = pl /\ dgWire'.len = ivLen + pl.len + 0
      /\ dgWire'.tag = NoTag
      /\ tmp' \in [enc : Nat, dec : Nat] /\ dgFits' \in BOOLEAN /\ (dgFits => dgFits')
  BY <1>1, <1>3, <1>4, <1>5, Encrypts, Zenon
<1>7. DgTypeOK'
  BY <1>1, <1>3, <1>6, Zenon DEF DgTypeOK
<1>8. ivLen' = ivLen
  BY <1>3, Zenon DEF ivLen
<1>9. ReplyOnWire'
  <2>1. dgWire'.len > ivLen'
    BY <1>1, <1>4, <1>6, <1>8
  <2>. QED  BY <1>2, <1>3, <1>4, <1>6, <2>1, Zenon DEF ReplyOnWire
<1>10. DatagramsSound'
  <2>1. WritesFit'
    BY <1>3, <1>6, <1>8, Zenon DEF DgInv, DatagramsSound, WritesFit
  <2>. QED  BY <1>3, <2>1, Zenon DEF DatagramsSound, RequestIsTaken, OnlyAuthentic, RepliesArriveToAddresses
<1>. QED  BY <1>3, <1>7, <1>9, <1>10, Zenon DEF DgInv

\* The local program loses a reply only if it is flagged.
LEMMA DeliverStep ==
    ASSUME DgInv, Deliver
    PROVE  DgInv'
<1>1. /\ dgStep = "replied" /\ Decrypted("delivered", "lost", FALSE)
      /\ UNCHANGED <<dgAuth, dgHeader, dgWire>>
  BY Zenon DEF Deliver
<1>2. ReplyOnWire /\ DgTypeOK
  BY <1>1 DEF DgInv
<1>3. /\ dgGot' = ss_decrypt_all(dgWire, FALSE) /\ dgGot' \in Plains
      /\ dgStep' = IF dgGot' = Nothing THEN "lost" ELSE "delivered"
      /\ tmp' \in [enc : Nat, dec : Nat] /\ dgFits' \in BOOLEAN /\ (dgFits => dgFits')
      /\ UNCHANGED <<dgWorld, dgSent, dgAltered, datagrams>>
  BY <1>1, <1>2, DecryptsTo, Zenon
<1>4. DgTypeOK'
  BY <1>1, <1>2, <1>3, Zenon DEF DgTypeOK
<1>5. dgWire.plain # Nothing
  BY <1>2, DgTypes DEF ReplyOnWire
<1>6. ASSUME dgGot' = Nothing PROVE dgWire.plain.flag
  <2>1. Sealed
    BY <1>3, <1>5, <1>6, Zenon DEF ss_decrypt_all, Sealed
  <2>2. ~(dgWire.len <= IV_LEN) /\ dgWire.tag = NoTag
    BY <1>2, <2>1, DgWorldType, DgAssumption DEF ReplyOnWire, DgTypeOK, Datagrams
  <2>. QED  BY <1>3, <1>5, <1>6, <2>1, <2>2, Zenon DEF ss_decrypt_all, MustVerify, Unverified, Sealed
<1>7. RepliesArriveToAddresses'
  BY <1>1, <1>2, <1>3, <1>6, Zenon DEF RepliesArriveToAddresses, ReplyOnWire
<1>8. WritesFit'
  BY <1>3, Zenon DEF DgInv, DatagramsSound, WritesFit, ivLen
<1>9. dgStep' \in {"lost", "delivered"}
  BY <1>3
<1>10. DatagramsSound'
  BY <1>7, <1>8, <1>9 DEF DatagramsSound, RequestIsTaken, OnlyAuthentic
<1>. QED  BY <1>1, <1>3, <1>4, <1>9, <1>10, Zenon DEF DgInv

\* Datagrams that ss_encrypt_all made are taken and no others, replies to addresses
\* arrive, and nothing is written behind a buffer, whatever the sizes of the IV, of the
\* code and of the buffers are and however long the datagrams (encrypt.c, udprelay.c).
THEOREM DatagramsSoundHolds == DgSpec => []DatagramsSound
<1>1. DgInit => DgInv
  <2>. SUFFICES ASSUME DgInit PROVE DgInv
    OBVIOUS
  <2>1. DgTypeOK
    BY DgTypes, DgAssumption, Zenon DEF DgInit, DgTypeOK
  <2>2. DatagramsSound
    BY Zenon DEF DgInit, DatagramsSound, RequestIsTaken, OnlyAuthentic, RepliesArriveToAddresses, WritesFit
  <2>. QED  BY <2>1, <2>2, Zenon DEF DgInit, DgInv
<1>2. DgInv /\ [DgNext]_dgVars => DgInv'
  <2>. SUFFICES ASSUME DgInv, [DgNext]_dgVars PROVE DgInv'
    OBVIOUS
  <2>1. CASE UNCHANGED dgVars
    <3>1. UNCHANGED <<dgWorld, dgAuth, dgStep, dgSent, dgWire, dgAltered>>
          /\ UNCHANGED <<dgHeader, dgGot, tmp, dgFits, datagrams>>
      BY <2>1, Zenon DEF dgVars
    <3>2. DgTypeOK' = DgTypeOK /\ ivLen' = ivLen
      BY <3>1, Zenon DEF DgTypeOK, ivLen
    <3>3. Tagged' = Tagged
      BY <3>1, Zenon DEF Tagged, Sealed
    <3>4. RequestOnWire' = RequestOnWire /\ ReplyOnWire' = ReplyOnWire
      BY <3>1, <3>2, <3>3, Zenon DEF RequestOnWire, ReplyOnWire
    <3>5. DatagramsSound' = DatagramsSound
      BY <3>1, <3>2, Zenon
         DEF DatagramsSound, RequestIsTaken, OnlyAuthentic, RepliesArriveToAddresses, WritesFit
    <3>. QED  BY <3>1, <3>2, <3>4, <3>5, Zenon DEF DgInv
  <2>2. CASE DgNext
    BY <2>2, AlterStep, AcceptStep, DeliverStep, ReplyStep, RequestStep, Zenon DEF DgNext
  <2>. QED  BY <2>1, <2>2
<1>3. DgInv => DatagramsSound
  BY DEF DgInv
<1>. QED  BY <1>1, <1>2, <1>3, PTL DEF DgSpec
=============================================================================
