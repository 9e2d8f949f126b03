------------------------------- MODULE Sodium -------------------------------
(***************************************************************************)
(* libsodium: boxes, helpers and guarded memory, random numbers, hashes    *)
(* that take their input in pieces, and password hashing.                  *)
(***************************************************************************)
EXTENDS Integers, Sequences, FiniteSets

(***************************************************************************)
(* libsodium's authenticated encryption: secretbox, box, sealed boxes and  *)
(* ChaCha20-Poly1305.                                                      *)
(*                                                                         *)
(* The functions work on memory, and a message and its encryption may      *)
(* overlap there in any way; so memory is an array of bytes, and a loop    *)
(* that copies reads each byte when it comes to it.  A byte is             *)
(* <<what, ks>>, ks being the bytes of key stream it is combined with;     *)
(* an authenticator is <<"mac", key, bytes>>.                              *)
(***************************************************************************)

CONSTANTS
    STREAM_BLOCK,       \* bytes of a block of key stream
    ZEROBYTES, MACBYTES, PKBYTES,
    MEM,                \* bytes of memory
    BoxCases            \* which function, where its arguments are

BoxApis == {"secretbox", "box", "seal", "zeropad", "aead", "aead_ietf"}

ASSUME BoxAssumption ==
    /\ STREAM_BLOCK > ZEROBYTES /\ ZEROBYTES > MACBYTES /\ MACBYTES > 0 /\ PKBYTES > 0
    /\ \A c \in BoxCases : c.kind \in {"none", "inputs"} \/ c.api \in BoxApis

VARIABLES
    boxCase,
    box         \* the memory, how far the program is, and what the last call returned

box_vars == <<boxCase, box>>

Byte(n) == << <<"b", n>>, {} >>
OctetsAt(m, at, n) == [i \in 1..n |-> m[at + i - 1]]
Store(m, at, s) == [i \in DOMAIN m |-> IF i - at \in 0..Len(s)-1 THEN s[i-at+1] ELSE m[i]]
XorKs(b, ks) == <<b[1], IF ks \in b[2] THEN b[2] \ {ks} ELSE b[2] \cup {ks}>>

Mac(key, bytes) == [j \in 1..MACBYTES |-> << <<"mac", key, bytes, j>>, {} >>]

\* Key stream, for a nonce and a key, from byte `from' on.
KeyStream(key, from, n) == [i \in 1..n |-> XorKs(Byte(0), <<key, from + i - 1>>)]

\* Where the key stream of counter 1 starts.
counter_1 == STREAM_BLOCK

\* crypto_stream_..._xor_ic(out, in, len): byte by byte.
stream_xor(m, out, in, len, key, from) ==
    LET f[i \in 0..len] ==
            IF i = 0 THEN m ELSE [f[i-1] EXCEPT ![out + i - 1] = XorKs(f[i-1][in + i - 1], <<key, from + i - 1>>)]
    IN f[len]

-----------------------------------------------------------------------------
(* crypto_secretbox_easy.c.                                                *)

\* Mutant: only a message that starts later is moved.
overlaps_one_way(c, m, len) == m >= c /\ m - c < len

overlaps(c, m, len) == (c >= m /\ c - m < len) \/ (m >= c /\ m - c < len)

\* A message from `in' to `out', which may overlap, with the key stream after the key
\* of the authenticator.
secretbox_xor(mem, out, in, len, key) ==
    LET moved == IF overlaps(out, in, len) THEN Store(mem, out, OctetsAt(mem, in, len)) ELSE mem
        from == IF overlaps(out, in, len) THEN out ELSE in
        len0 == IF len > STREAM_BLOCK - ZEROBYTES THEN STREAM_BLOCK - ZEROBYTES ELSE len
        block0 == [i \in 1..len0 |-> XorKs(moved[from + i - 1], <<key, ZEROBYTES + i - 1>>)]
        first == Store(moved, out, block0)
    IN IF len > len0 THEN stream_xor(first, out + len0, from + len0, len - len0, key, counter_1) ELSE first

crypto_secretbox_detached(mem, c, mac, m, mlen, key) ==
    LET done == secretbox_xor(mem, c, m, mlen, key)
    IN Store(done, mac, Mac(KeyStream(key, 0, ZEROBYTES), OctetsAt(done, c, mlen)))

crypto_secretbox_easy(mem, c, m, mlen, key) ==
    crypto_secretbox_detached(mem, c + MACBYTES, c, m, mlen, key)

NotDone(mem) == [ret |-> -1, mem |-> mem]

crypto_secretbox_open_detached(mem, m, c, mac, clen, key) ==
    IF OctetsAt(mem, mac, MACBYTES) # Mac(KeyStream(key, 0, ZEROBYTES), OctetsAt(mem, c, clen)) THEN NotDone(mem)
    ELSE [ret |-> 0, mem |-> secretbox_xor(mem, m, c, clen, key)]

crypto_secretbox_open_easy(mem, m, c, clen, key) ==
    IF clen < MACBYTES THEN NotDone(mem)
    ELSE crypto_secretbox_open_detached(mem, m, c + MACBYTES, c, clen - MACBYTES, key)

-----------------------------------------------------------------------------
(* crypto_box: the key is agreed on.  A secret key is the number of its    *)
(* public key; with the public key 0, scalar multiplication fails.         *)

crypto_box_beforenm(pk, sk) == {pk, sk}
crypto_box_easy(mem, c, m, mlen, n, pk, sk) ==
    IF pk = 0 THEN NotDone(mem)
    ELSE [ret |-> 0, mem |-> crypto_secretbox_easy(mem, c, m, mlen, <<crypto_box_beforenm(pk, sk), n>>)]

crypto_box_open_easy(mem, m, c, clen, n, pk, sk) ==
    IF clen < MACBYTES \/ pk = 0 THEN NotDone(mem)
    ELSE crypto_secretbox_open_easy(mem, m, c, clen, <<crypto_box_beforenm(pk, sk), n>>)

\* What a byte is combined with that is changed on the way.
Changed == << <<{}, "changed">>, 0>>

PkBytes(pk) == [j \in 1..PKBYTES |-> Byte(100 + pk)]
PkAt(mem, c) == IF \E j \in 0..PKBYTES-1 : mem[c+j][2] # {} THEN 99 ELSE mem[c][1][2] - 100

\* crypto_box_seal; the nonce is a hash of both public keys.
crypto_box_seal(mem, c, m, mlen, pk, esk) ==
    crypto_box_easy(Store(mem, c, PkBytes(esk)), c + PKBYTES, m, mlen, <<esk, pk>>, pk, esk)

crypto_box_seal_open(mem, m, c, clen, pk, sk) ==
    IF clen < PKBYTES + MACBYTES THEN NotDone(mem)
    ELSE LET epk == PkAt(mem, c)
         IN crypto_box_open_easy(mem, m, c + PKBYTES, clen - PKBYTES, <<epk, pk>>, epk, sk)

-----------------------------------------------------------------------------
(* crypto_secretbox_xsalsa20poly1305: message and encryption start with    *)
(* ZEROBYTES bytes of padding.                                             *)

crypto_secretbox_xsalsa20poly1305(mem, c, m, mlen, key) ==
    IF mlen < ZEROBYTES THEN NotDone(mem)
    ELSE LET x == stream_xor(mem, c, m, mlen, key, 0)
             mac == Mac(OctetsAt(x, c, ZEROBYTES), OctetsAt(x, c + ZEROBYTES, mlen - ZEROBYTES))
             zeros == [j \in 1..ZEROBYTES - MACBYTES |-> Byte(0)]
         IN [ret |-> 0, mem |-> Store(Store(x, c + ZEROBYTES - MACBYTES, mac), c, zeros)]

crypto_secretbox_xsalsa20poly1305_open(mem, m, c, clen, key) ==
    IF clen < ZEROBYTES \/ OctetsAt(mem, c + ZEROBYTES - MACBYTES, MACBYTES)
            # Mac(KeyStream(key, 0, ZEROBYTES), OctetsAt(mem, c + ZEROBYTES, clen - ZEROBYTES))
    THEN NotDone(mem)
    ELSE [ret |-> 0, mem |-> Store(stream_xor(mem, m, c, clen, key, 0), m, [j \in 1..ZEROBYTES |-> Byte(0)])]

-----------------------------------------------------------------------------
(* ChaCha20-Poly1305.                                                      *)

Pad16(n) == [j \in 1..(ZEROBYTES - (n % ZEROBYTES)) % ZEROBYTES |-> Byte(0)]

\* What is authenticated.
aead_input(ad, c) == ad \o <<Byte(Len(ad))>> \o c \o <<Byte(Len(c))>>
aead_ietf_input(ad, c) == ad \o Pad16(Len(ad)) \o c \o Pad16(Len(c)) \o <<Byte(Len(ad)), Byte(Len(c))>>

AeadMac(ietf, ad, key, c) ==
    Mac(KeyStream(key, 0, ZEROBYTES), IF ietf THEN aead_ietf_input(ad, c) ELSE aead_input(ad, c))

\* crypto_aead_chacha20poly1305_encrypt and its IETF variant.
aead_encrypt(ietf, mem, c, m, mlen, ad, key) ==
    LET x == stream_xor(mem, c, m, mlen, key, counter_1)
    IN [ret |-> 0, mem |-> Store(x, c + mlen, AeadMac(ietf, ad, key, OctetsAt(x, c, mlen)))]

aead_decrypt(ietf, mem, m, c, clen, ad, key) ==
    IF clen < MACBYTES THEN NotDone(mem)
    ELSE LET mlen == clen - MACBYTES IN
         IF OctetsAt(mem, c + mlen, MACBYTES) # AeadMac(ietf, ad, key, OctetsAt(mem, c, mlen))
         THEN NotDone(Store(mem, m, [j \in 1..mlen |-> Byte(0)]))
         ELSE [ret |-> 0, mem |-> stream_xor(mem, m, c, mlen, key, counter_1)]

-----------------------------------------------------------------------------
(* A program encrypts a message, some byte of it may change on the way,    *)
(* and it is decrypted.                                                    *)

SharedKey == <<{1, 2}, "nonce">>
Ad == <<Byte(7)>>
Plain == [i \in 1..boxCase.mlen |-> Byte(10 + i)]
Before == IF boxCase.api = "zeropad" THEN ZEROBYTES ELSE 0
Overhead ==
    CASE boxCase.api = "seal" -> PKBYTES + MACBYTES
      [] boxCase.api = "zeropad" -> ZEROBYTES
      [] OTHER -> MACBYTES
Clen == Overhead + boxCase.mlen

Memory ==
    IF boxCase.kind # "box" THEN <<>>
    ELSE Store([i \in 1..MEM |-> Byte(50 + i)], boxCase.m, [j \in 1..Before |-> Byte(0)] \o Plain)

Seal(mem) ==
    LET m == boxCase.m  c == boxCase.c  n == boxCase.mlen IN
    CASE boxCase.api = "secretbox" -> [ret |-> 0, mem |-> crypto_secretbox_easy(mem, c, m, n, SharedKey)]
      [] boxCase.api = "box" -> crypto_box_easy(mem, c, m, n, "nonce", boxCase.pk, 1)
      [] boxCase.api = "seal" -> crypto_box_seal(mem, c, m, n, boxCase.pk, 3)
      [] boxCase.api = "zeropad" -> crypto_secretbox_xsalsa20poly1305(mem, c, m, n + ZEROBYTES, SharedKey)
      [] OTHER -> aead_encrypt(boxCase.api = "aead_ietf", mem, c, m, n, Ad, SharedKey)

Open(m, clen) ==
    LET c == boxCase.c IN
    CASE boxCase.api = "secretbox" -> crypto_secretbox_open_easy(box.mem, m, c, clen, SharedKey)
      [] boxCase.api = "box" -> crypto_box_open_easy(box.mem, m, c, clen, "nonce", 1, boxCase.pk)
      [] boxCase.api = "seal" -> crypto_box_seal_open(box.mem, m, c, clen, boxCase.pk, boxCase.pk)
      [] boxCase.api = "zeropad" -> crypto_secretbox_xsalsa20poly1305_open(box.mem, m, c, clen, SharedKey)
      [] OTHER -> aead_decrypt(boxCase.api = "aead_ietf", box.mem, m, c, clen, Ad, SharedKey)

Sealing ==
    /\ boxCase.kind = "box" /\ box.phase = "text"
    /\ box' = [mem |-> Seal(box.mem).mem, ret |-> Seal(box.mem).ret, phase |-> "sealed", damaged |-> 0, out |-> 0]
    /\ UNCHANGED boxCase

\* A byte of the encryption changes.
Damage(i) ==
    /\ boxCase.kind = "box" /\ box.phase = "sealed" /\ box.ret = 0 /\ box.damaged = 0
    /\ i > Before - MACBYTES
    /\ box' = [box EXCEPT !.damaged = i, !.mem[boxCase.c + i - 1] = XorKs(@, Changed)]
    /\ UNCHANGED boxCase

\* It is opened into memory that overlaps it in any way, as far as the function allows.
Opening(m) ==
    /\ boxCase.kind = "box" /\ box.phase = "sealed" /\ box.ret = 0
    /\ m + Before + boxCase.mlen - 1 <= MEM
    /\ boxCase.api \in {"zeropad", "aead", "aead_ietf"} => m = boxCase.c
    /\ LET r == Open(m, Clen) IN box' = [box EXCEPT !.mem = r.mem, !.ret = r.ret, !.phase = "open", !.out = m]
    /\ UNCHANGED boxCase

BoxStart ==
    box = [mem |-> Memory, ret |-> 0, phase |-> "text", damaged |-> 0, out |-> 0]

BoxInit == boxCase \in BoxCases /\ BoxStart

BoxNext ==
    \/ Sealing
    \/ \E m \in 1..MEM : Opening(m)
    \/ \E i \in 1..(IF boxCase.kind = "box" THEN Clen ELSE 0) : Damage(i)

-----------------------------------------------------------------------------
(* What is claimed.                                                        *)

\* What was encrypted is decrypted, wherever the message and its encryption are
\* and however they overlap, and no byte outside of the output changes
\* (crypto_secretbox_detached, crypto_secretbox_open_detached).
OpensAnywhere ==
    boxCase.kind = "box" /\ box.phase = "open" /\ box.damaged = 0 =>
        /\ box.ret = 0
        /\ OctetsAt(box.mem, box.out + Before, boxCase.mlen) = Plain
        /\ \A i \in 1..MEM \ (box.out..box.out + Before + boxCase.mlen - 1) : box.mem[i] = Seal(Memory).mem[i]

\* When a byte was changed the call fails and writes nothing but zeros (the order
\* of verification and decryption).
NothingReleased ==
    boxCase.kind = "box" /\ box.phase = "open" /\ box.damaged > 0 =>
        LET before == [Seal(Memory).mem EXCEPT ![boxCase.c + box.damaged - 1] = XorKs(@, Changed)] IN
        /\ box.ret = -1
        /\ \A i \in 1..MEM : box.mem[i] \in {before[i], Byte(0)}

\* No byte of key stream encrypts two bytes, nor is it part of the key of the
\* authenticator (the offsets in the first block, the counter 1 after it).
KeystreamApart ==
    boxCase.kind = "box" /\ box.phase = "sealed" /\ box.damaged = 0 /\ box.ret = 0 =>
        LET at == boxCase.c + (IF boxCase.api \in {"aead", "aead_ietf"} THEN 0 ELSE Overhead)
            used == [i \in 1..boxCase.mlen |-> box.mem[at + i - 1][2]]
        IN \A i \in DOMAIN used :
            /\ \A ks \in used[i] : ks[2] >= ZEROBYTES
            /\ used[i] # {} /\ \A j \in DOMAIN used \ {i} : used[i] \cap used[j] = {}

\* Additional data and message cannot be exchanged for others without the input
\* of the authenticator changing (the lengths that are authenticated with them).
AeadUnambiguous ==
    boxCase.kind = "inputs" =>
        \A ad, c \in boxCase.seqs :
            /\ aead_input(ad, c) = aead_input(boxCase.ad, boxCase.c) => ad = boxCase.ad /\ c = boxCase.c
            /\ aead_ietf_input(ad, c) = aead_ietf_input(boxCase.ad, boxCase.c) => ad = boxCase.ad /\ c = boxCase.c

-----------------------------------------------------------------------------
(***************************************************************************)
(* libsodium's utils.c: numbers of many bytes, hexadecimal text, and the   *)
(* memory that sodium_malloc guards.                                       *)
(*                                                                         *)
(* A byte has BASE values (a half byte, in hexadecimal text, HALF of       *)
(* them); a number is the sequence of its bytes, the lowest first.  A      *)
(* character of hexadecimal text is the half byte it stands for, or IGNORE *)
(* (one of the characters to be skipped), or a larger number.  Addresses   *)
(* are numbers and the block starts at BLOCK.                              *)
(***************************************************************************)

CONSTANTS
    HALF,           \* the values of a hexadecimal digit
    SIZE_MAX, PAGE, CANARY,
    BLOCK,          \* where mmap puts a block: a multiple of PAGE
    SuCases         \* the inputs

BASE == HALF * HALF
IGNORE == HALF

ASSUME SuAssumption ==
    /\ HALF \in Nat \ {0} /\ SIZE_MAX \in Nat /\ PAGE \in Nat /\ CANARY \in Nat
    /\ PAGE > CANARY /\ BLOCK % PAGE = 0 /\ BLOCK > 0
    /\ \A c \in SuCases : c.kind \in {"none", "numbers", "bin", "hex", "block", "array"}

VARIABLES
    suCase,
    block       \* the block: its pages' protection, its canary, whether it was freed

su_vars == <<suCase, block>>

-----------------------------------------------------------------------------
(* Numbers.                                                                *)

Value(n) == LET v[i \in 0..Len(n)] == IF i = 0 THEN 0 ELSE v[i-1] * BASE + n[Len(n) + 1 - i] IN v[Len(n)]

\* The loop of sodium_add and sodium_increment; carry is what it starts with.
add(a, b, carry) ==
    LET c[i \in 0..Len(a)] == IF i = 0 THEN carry ELSE (c[i-1] + a[i] + b[i]) \div BASE
    IN [i \in 1..Len(a) |-> (c[i-1] + a[i] + b[i]) % BASE]

sodium_add(a, b) == add(a, b, 0)

\* sodium_increment.
sodium_increment(n) == add(n, [i \in 1..Len(n) |-> 0], 1)

\* sodium_compare, from the highest byte down.
sodium_compare(b1, b2) ==
    LET step[i \in 1..Len(b1)+1] ==
            IF i = Len(b1) + 1 THEN [gt |-> 0, eq |-> 1]
            ELSE [gt |-> IF b2[i] < b1[i] /\ step[i+1].eq = 1 THEN 1 ELSE step[i+1].gt,
                  eq |-> IF b1[i] = b2[i] THEN step[i+1].eq ELSE 0]
    IN step[1].gt + step[1].gt + step[1].eq - 1

\* sodium_memcmp and sodium_is_zero gather the differences of all bytes.
sodium_memcmp(b1, b2) == IF \A i \in 1..Len(b1) : b1[i] = b2[i] THEN 0 ELSE -1
sodium_is_zero(n) == IF \A i \in 1..Len(n) : n[i] = 0 THEN 1 ELSE 0

-----------------------------------------------------------------------------
(* Hexadecimal text.                                                       *)

sodium_bin2hex(bin) ==
    [i \in 1..2*Len(bin) |-> IF i % 2 = 1 THEN bin[(i+1) \div 2] \div HALF ELSE bin[i \div 2] % HALF]

\* Where hex2bin says it stopped.
hex_end(r) == IF r.half THEN r.pos - 1 ELSE r.pos

sodium_hex2bin(hex, maxlen, ignore) ==
    LET start == [pos |-> 0, bin |-> <<>>, acc |-> 0, half |-> FALSE, ret |-> 0, stop |-> FALSE]
        step(r) ==
            LET c == hex[r.pos + 1] IN
            IF c >= HALF
            THEN IF ignore /\ ~r.half /\ c = IGNORE THEN [r EXCEPT !.pos = @ + 1] ELSE [r EXCEPT !.stop = TRUE]
            ELSE IF Len(r.bin) >= maxlen THEN [r EXCEPT !.ret = -1, !.stop = TRUE]
            ELSE IF r.half THEN [r EXCEPT !.bin = Append(@, r.acc + c), !.half = FALSE, !.pos = @ + 1]
            ELSE [r EXCEPT !.acc = c * HALF, !.half = TRUE, !.pos = @ + 1]
        run[i \in 0..Len(hex)] ==
            IF i = 0 THEN start ELSE IF run[i-1].stop THEN run[i-1] ELSE step(run[i-1])
        r == run[Len(hex)]
    IN [ret |-> r.ret, bin |-> r.bin, read |-> hex_end(r)]

-----------------------------------------------------------------------------
(* Guarded memory.                                                         *)

\* Sizes are kept in a size_t.
Wrap(n) == n % (SIZE_MAX + 1)

_page_round(size) == ((size + PAGE - 1) \div PAGE) * PAGE

\* The sizes _sodium_malloc does not refuse.
_sodium_malloc_accepts(size) == size < SIZE_MAX - PAGE * 4

\* sodium_allocarray does not refuse the product.
allocarray_accepts(count, size) == ~(count > 0 /\ size >= SIZE_MAX \div count)

\* The parts of a block _sodium_malloc makes.
unprotected_size(size) == Wrap(_page_round(Wrap(CANARY + size)))
total_size(size) == Wrap(PAGE + PAGE + unprotected_size(size) + PAGE)
unprotected_ptr == BLOCK + PAGE * 2

canary_ptr(size) == unprotected_ptr + _page_round(CANARY + size) - (CANARY + size)
user_ptr(size) == canary_ptr(size) + CANARY

\* What free and mprotect find again from the user's pointer.
_unprotected_ptr_from_user_ptr(ptr) == ((ptr - CANARY) \div PAGE) * PAGE

NoBlock == [state |-> "none"]
Pages(from, size) == {p \in 0..total_size(suCase.size) \div PAGE : BLOCK + p * PAGE \in from..from + size - 1}

Malloc ==
    /\ suCase.kind = "block" /\ block.state = "none" /\ _sodium_malloc_accepts(suCase.size)
    /\ block' = [state |-> "used", canary |-> TRUE, beyond |-> FALSE,
                 prot |-> [p \in 0..total_size(suCase.size) \div PAGE - 1 |->
                    IF p \in {1} \cup Pages(unprotected_ptr + unprotected_size(suCase.size), PAGE) THEN "none"
                    ELSE IF p = 0 THEN "read" ELSE "write"]]
    /\ UNCHANGED suCase

\* sodium_mprotect_noaccess, _readonly and _readwrite.
_sodium_mprotect(mode) ==
    /\ block.state = "used"
    /\ block' = [block EXCEPT !.prot = [p \in DOMAIN @ |->
                    IF p \in Pages(_unprotected_ptr_from_user_ptr(user_ptr(suCase.size)), unprotected_size(suCase.size))
                    THEN mode ELSE @[p]]]
    /\ UNCHANGED suCase

\* The program writes at this distance from its pointer.
Write(offset) ==
    /\ block.state = "used"
    /\ LET at == user_ptr(suCase.size) + offset
           p == (at - BLOCK) \div PAGE
       IN /\ p \in DOMAIN block.prot
          /\ block' = IF block.prot[p] # "write" THEN [block EXCEPT !.state = "fault"]
                      ELSE [block EXCEPT !.canary = @ /\ at \notin canary_ptr(suCase.size)..user_ptr(suCase.size)-1,
                                         !.beyond = @ \/ offset >= suCase.size]
    /\ UNCHANGED suCase

\* sodium_free: the canary, then sodium_munlock, then munmap.
Free ==
    /\ block.state = "used"
    /\ LET base == _unprotected_ptr_from_user_ptr(user_ptr(suCase.size)) - PAGE * 2 IN
        block' = IF base # BLOCK \/ ~block.canary THEN [block EXCEPT !.state = "abort"]
                 ELSE [block EXCEPT !.state = "freed"]
    /\ UNCHANGED suCase

SuInit == suCase \in SuCases /\ block = NoBlock
SuNext ==
    \/ Malloc \/ Free
    \/ \E mode \in {"none", "read", "write"} : _sodium_mprotect(mode)
    \/ \E offset \in (-CANARY-PAGE)..PAGE+1 : Write(offset)

-----------------------------------------------------------------------------
(* What is claimed.                                                        *)

\* sodium_add and sodium_increment are sums, sodium_compare is the order of the
\* numbers, whatever carries and borrows go through their bytes.
NumbersAgree ==
    suCase.kind = "numbers" =>
        LET a == suCase.a  b == suCase.b
            m[i \in 0..Len(a)] == IF i = 0 THEN 1 ELSE m[i-1] * BASE
            sign(x) == IF x < 0 THEN -1 ELSE IF x > 0 THEN 1 ELSE 0
        IN /\ Value(sodium_add(a, b)) = (Value(a) + Value(b)) % m[Len(a)]
           /\ Value(sodium_increment(a)) = (Value(a) + 1) % m[Len(a)]
           /\ sodium_compare(a, b) = sign(Value(a) - Value(b))
           /\ sodium_memcmp(a, b) = 0 <=> a = b
           /\ sodium_is_zero(a) = 1 <=> Value(a) = 0

\* hex2bin reads what bin2hex wrote.  Of any other text it reads the complete
\* bytes: what it says it has read holds two digits for each byte, so that a
\* reader who goes on from there loses nothing; it fails only for want of room.
HexConsumed ==
    /\ suCase.kind = "bin" =>
        sodium_hex2bin(sodium_bin2hex(suCase.bin), Len(suCase.bin), FALSE)
            = [ret |-> 0, bin |-> suCase.bin, read |-> 2 * Len(suCase.bin)]
    /\ suCase.kind = "hex" =>
        LET r == sodium_hex2bin(suCase.hex, suCase.maxlen, suCase.ignore)
            digits == SelectSeq(SubSeq(suCase.hex, 1, r.read), LAMBDA c : c < HALF)
        IN /\ digits = sodium_bin2hex(r.bin)
           /\ Len(r.bin) <= suCase.maxlen
           /\ r.ret = -1 => Len(r.bin) = suCase.maxlen

\* What is written beyond the end of the memory of a program, or over the canary
\* before it, does not pass: the process faults, or aborts when it frees the
\* memory; what free finds from the program's pointer is the block that was made
\* (_sodium_malloc, sodium_free).
OverrunCaught ==
    suCase.kind = "block" /\ block.state # "none" =>
        /\ ~block.beyond
        /\ block.state = "freed" => block.canary
        /\ block.state = "abort" => ~block.canary

\* No size wraps around: a block that is handed out is as large as was asked for
\* (_sodium_malloc, sodium_allocarray).
SizesDoNotWrap ==
    suCase.kind = "array" =>
        LET n == Wrap(suCase.count * suCase.size) IN
        allocarray_accepts(suCase.count, suCase.size) /\ _sodium_malloc_accepts(n) =>
            /\ n = suCase.count * suCase.size
            /\ total_size(n) >= n + 3 * PAGE

-----------------------------------------------------------------------------
(***************************************************************************)
(* The random numbers of libsodium: the front (randombytes.c), the source  *)
(* that asks the system each time (randombytes_sysrandom.c) and the one    *)
(* that stretches a key (randombytes_salsa20_random.c), in a process that  *)
(* may fork, change the source, close it and stir it.                      *)
(*                                                                         *)
(* Keys are terms: a seed of the system, or what a key becomes when it is  *)
(* used.  A random word is the place it has in the keystream of a key and  *)
(* a nonce, so that two equal words are words nobody should get twice.     *)
(***************************************************************************)

CONSTANTS
    RngCases,       \* a machine and its process, or an input of a pure function
    RngSteps,       \* bound: calls
    RNG_WORDS,      \* words in rnd32 that are not kept for the key
    RNG_RANGE,      \* 2^w: the values of a random word
    RNG_CHUNK       \* the most that is asked of getrandom at a time

ASSUME RngAssumption ==
    /\ RngSteps \in Nat /\ RNG_WORDS \in Nat \ {0} /\ RNG_RANGE \in Nat \ {0} /\ RNG_CHUNK \in Nat \ {0}
    /\ \A c \in RngCases : c.kind \in {"none", "machine", "uniform", "fill"}

VARIABLES
    rngCase,
    rng,        \* the processes, each with its two static streams
    seeds,      \* what the system has given
    given,      \* the words each process got: <<key, nonce, place>>
    twice,      \* a word was given a second time
    rngSteps

rng_vars == <<rngCase, rng, seeds, given, twice, rngSteps>>

Procs == {"parent", "child"}
Impls == {"sysrandom", "salsa20"}
NoKey == <<>>
Unopened == [initialized |-> FALSE, getrandom |-> FALSE, fds |-> 0, fd |-> FALSE,
             key |-> NoKey, nonce |-> 0, block |-> <<NoKey, 0>>, left |-> 0, pid |-> "nobody"]

-----------------------------------------------------------------------------
(* Pure parts.                                                             *)

\* randombytes_uniform refuses the words below (2^w - bound) % bound.
uniform_min(bound) == (RNG_RANGE - bound) % bound

uniform_accepts(bound) == {r \in 0..RNG_RANGE-1 : r >= uniform_min(bound)}
randombytes_uniform(bound, r) == IF bound < 2 THEN 0 ELSE r % bound

chunk_size(size) == IF size < RNG_CHUNK THEN size ELSE RNG_CHUNK

\* randombytes_linux_getrandom: the requests it makes.
randombytes_linux_getrandom(size) ==
    LET f[n \in 0..size] == IF n = 0 THEN <<>> ELSE <<chunk_size(n)>> \o f[n - chunk_size(n)]
    IN f[size]

-----------------------------------------------------------------------------
(* The sources.                                                            *)

Machine == rngCase.kind = "machine"

\* random_dev_open: the first of the devices that is there and is a device.
random_dev_open == \E i \in 1..Len(rngCase.devices) : rngCase.devices[i] = "device"

\* init: getrandom if the system has it, or else a device; if neither, abort.
CanInit == rngCase.getrandom \/ random_dev_open
init(s) ==
    IF rngCase.getrandom THEN [s EXCEPT !.getrandom = TRUE, !.initialized = TRUE]
    ELSE [s EXCEPT !.getrandom = FALSE, !.fd = TRUE, !.fds = @ + 1, !.initialized = TRUE]
Ready(s) == IF s.initialized THEN s ELSE init(s)

\* The bytes of getrandom or of safe_read are there, unless the call fails.
HasSource(s) == s.getrandom \/ s.fd

\* randombytes_sysrandom_close.
sysrandom_close(s) ==
    IF s.fd THEN [s EXCEPT !.fds = @ - 1, !.fd = FALSE, !.initialized = FALSE] ELSE s

\* randombytes_salsa20_random_close; the words that are left stay.
salsa20_close(s) ==
    IF s.fd THEN [s EXCEPT !.fds = @ - 1, !.fd = FALSE, !.initialized = FALSE, !.pid = "nobody"] ELSE s

\* randombytes_salsa20_random_stir.
salsa20_stir(s, p) ==
    [Ready(s) EXCEPT !.left = 0, !.block = <<NoKey, 0>>, !.key = <<"seed", seeds + 1>>, !.pid = p]

\* randombytes_salsa20_random_stir_if_needed: nothing, stir, or abort in another
\* process.
stir_if_needed(s, p) == IF ~s.initialized THEN "stir" ELSE IF s.pid # p THEN "abort" ELSE "no"

\* randombytes_salsa20_random_buf, when there is a key: the next key is made of
\* this one, of the size and of the next nonce.
salsa20_buf(s, size) ==
    [s EXCEPT !.key = <<"buf", s.key, size, s.nonce + 1>>, !.nonce = @ + 1]

\* randombytes_salsa20_random_rekey, with the end of the block of this key and nonce.
rekey(key, nonce) == <<"rekey", key, nonce>>

\* randombytes_salsa20_random_getword, when no words are left: the end of the new
\* block goes into the key.
refill(s) ==
    [s EXCEPT !.block = <<s.key, s.nonce>>, !.left = RNG_WORDS, !.nonce = @ + 1,
              !.key = rekey(s.key, s.nonce)]

-----------------------------------------------------------------------------
(* What a process does.                                                    *)

Up(p) == Machine /\ rng[p].state = "up" /\ rngSteps < RngSteps /\ rngSteps' = rngSteps + 1
RngStream(p) == rng[p].streams[rng[p].impl]
SetStream(p, s) == rng' = [rng EXCEPT ![p].streams[rng[p].impl] = s]
Abort(p) == rng' = [rng EXCEPT ![p].state = "aborted"] /\ UNCHANGED <<seeds, given, twice>>
Give(p, words) ==
    /\ given' = [given EXCEPT ![p] = @ \cup words]
    /\ twice' = (twice \/ words \cap (given["parent"] \cup given["child"]) # {})

\* A call of the system that fails ends the process.
Faulty(p) == rngCase.faults /\ Abort(p)

\* randombytes_set_implementation.
SetImplementation(p, impl) ==
    /\ Up(p) /\ impl # rng[p].impl
    /\ rng' = [rng EXCEPT ![p].impl = impl]
    /\ UNCHANGED <<rngCase, seeds, given, twice>>

\* randombytes_stir.
Stir(p) ==
    /\ Up(p) /\ UNCHANGED rngCase
    /\ \/ Faulty(p)
       \/ ~RngStream(p).initialized /\ ~CanInit /\ Abort(p)
       \/ /\ RngStream(p).initialized \/ CanInit
          /\ UNCHANGED <<given, twice>>
          /\ IF rng[p].impl = "sysrandom" THEN SetStream(p, Ready(RngStream(p))) /\ UNCHANGED seeds
             ELSE IF HasSource(Ready(RngStream(p)))
             THEN SetStream(p, salsa20_stir(RngStream(p), p)) /\ seeds' = seeds + 1
             ELSE rng' = [rng EXCEPT ![p].state = "aborted"] /\ UNCHANGED seeds

\* randombytes_close.
Close(p) ==
    /\ Up(p) /\ SetStream(p, IF rng[p].impl = "sysrandom" THEN sysrandom_close(RngStream(p))
                                ELSE salsa20_close(RngStream(p)))
    /\ UNCHANGED <<rngCase, seeds, given, twice>>

\* randombytes_sysrandom_buf: the words are the system's.
SysBuf(p, size) ==
    LET s == RngStream(p) IN
    IF (~s.initialized /\ ~CanInit) \/ ~HasSource(Ready(s)) THEN Abort(p)
    ELSE /\ SetStream(p, Ready(s)) /\ seeds' = seeds + 1
         /\ Give(p, {<< <<"system", seeds + 1>>, 0, i>> : i \in 0..size-1})

\* What salsa20 gives, from the stream it finds or stirs.
SalsaGive(p, next, words) ==
    LET s == RngStream(p)
        need == stir_if_needed(s, p)
        t == IF need = "stir" THEN salsa20_stir(s, p) ELSE s
    IN IF need = "abort" \/ (need = "stir" /\ (~CanInit \/ ~HasSource(Ready(s)))) THEN Abort(p)
       ELSE /\ SetStream(p, next[t]) /\ Give(p, words[t])
            /\ seeds' = IF need = "stir" THEN seeds + 1 ELSE seeds

Streams(p) == {RngStream(p), salsa20_stir(RngStream(p), p)}
SalsaBuf(p, size) ==
    SalsaGive(p, [t \in Streams(p) |-> salsa20_buf(t, size)],
                 [t \in Streams(p) |-> {<<t.key, t.nonce, i>> : i \in 0..size-1}])

\* randombytes_buf.
Buf(p, size) ==
    /\ Up(p) /\ UNCHANGED rngCase
    /\ \/ Faulty(p)
       \/ IF rng[p].impl = "sysrandom" THEN SysBuf(p, size) ELSE SalsaBuf(p, size)

\* getword takes the last word that is left of the block.
Take(t) == [t EXCEPT !.left = @ - 1]
Taken(t) == {t.block \o <<t.left - 1>>}

\* randombytes_random.
Word(p) ==
    /\ Up(p) /\ UNCHANGED rngCase
    /\ \/ Faulty(p)
       \/ IF rng[p].impl = "sysrandom" THEN SysBuf(p, 1)
          ELSE IF RngStream(p).left > 0
          THEN SetStream(p, Take(RngStream(p))) /\ Give(p, Taken(RngStream(p))) /\ UNCHANGED seeds
          ELSE SalsaGive(p, [t \in Streams(p) |-> Take(refill(t))], [t \in Streams(p) |-> Taken(refill(t))])

Fork ==
    /\ Up("parent") /\ rng["child"].state = "none"
    /\ rng' = [rng EXCEPT !["child"] = [rng["parent"] EXCEPT
                  !.inherited = rng["parent"].streams["salsa20"].left > 0]]
    /\ UNCHANGED <<rngCase, seeds, given, twice>>

RngStart ==
    /\ rng = [p \in Procs |-> [state |-> IF p = "parent" THEN "up" ELSE "none", impl |-> "sysrandom",
                               streams |-> [i \in Impls |-> Unopened], inherited |-> FALSE]]
    /\ seeds = 0 /\ given = [p \in Procs |-> {}] /\ twice = FALSE /\ rngSteps = 0

RngInit == rngCase \in RngCases /\ RngStart

RngNext ==
    \/ Fork
    \/ \E p \in Procs :
        \/ Stir(p) \/ Close(p) \/ Word(p)
        \/ \E impl \in Impls : SetImplementation(p, impl)
        \/ \E size \in 1..2 : Buf(p, size)

-----------------------------------------------------------------------------
(* What is claimed.                                                        *)

\* No process is given a word that it, or the process it was forked from, has been
\* given before (stir_if_needed, the keys after buf and getword).  The exception:
\* salsa20 does not look at the process while words of a block are left, so a
\* child forked then shares them.
NeverTwice == twice => rng["child"].inherited

\* Who reads the memory of a process cannot tell what the process was given
\* before: the key of what was given is not there any more, nor are the words
\* taken from the block (randombytes_salsa20_random_rekey, getword).
PastIsGone ==
    \A p \in Procs : LET s == rng[p].streams["salsa20"] IN
        \A w \in given[p] :
            /\ w[1] # s.key
            /\ <<w[1], w[2]>> = s.block => w[3] >= s.left \/ rng["child"].inherited

\* Nothing is left open but what the streams know, a stream that is ready has a
\* source, and so a process aborts only if a call of the system fails, there is
\* no source, or a forked process goes on with salsa20 (init, close, stir).
SourceThere ==
    /\ \A p \in Procs, i \in Impls : LET s == rng[p].streams[i] IN
        /\ s.fds = IF s.fd THEN 1 ELSE 0
        /\ s.initialized => HasSource(s)
    /\ Machine /\ ~rngCase.faults /\ CanInit => rng["parent"].state = "up"

\* The words randombytes_uniform accepts are more than half of all, and each value
\* below the bound comes from equally many of them.
UniformIsUniform ==
    rngCase.kind = "uniform" =>
        LET b == rngCase.bound
            from(v) == Cardinality({r \in uniform_accepts(b) : randombytes_uniform(b, r) = v})
        IN /\ 2 * Cardinality(uniform_accepts(b)) > RNG_RANGE
           /\ \A v \in 0..b-1 : from(v) = from(0)

\* randombytes_linux_getrandom asks for every byte once, and never for more at a
\* time than getrandom gives without interruption.
FillsAll ==
    rngCase.kind = "fill" =>
        LET q == randombytes_linux_getrandom(rngCase.size)
            sum[i \in 0..Len(q)] == IF i = 0 THEN 0 ELSE sum[i-1] + q[i]
        IN sum[Len(q)] = rngCase.size /\ \A i \in 1..Len(q) : q[i] \in 1..RNG_CHUNK

\* Boxes open to what was sealed and only then, wherever the buffers lie; guarded
\* memory and the conversions keep their bounds; random numbers are never handed
\* out twice, and are uniform.
CoreSound ==
    /\ OpensAnywhere /\ NothingReleased /\ KeystreamApart /\ AeadUnambiguous
    /\ NumbersAgree /\ HexConsumed /\ OverrunCaught /\ SizesDoNotWrap
    /\ NeverTwice /\ PastIsGone /\ SourceThere /\ UniformIsUniform /\ FillsAll

-----------------------------------------------------------------------------
(***************************************************************************)
(* The hashes and authenticators of libsodium that take their input piece  *)
(* by piece: SHA-256, SHA-512, HMAC with either, BLAKE2b, Poly1305.        *)
(*                                                                         *)
(* What a compression function computes is left out: a chaining value is   *)
(* the sequence of what was compressed, so two of them are equal when the  *)
(* same blocks went in.  A byte is a tuple that says where it comes from:  *)
(* <<"m", i>> is byte i of the message.  Block sizes and counter words     *)
(* are small.                                                              *)
(***************************************************************************)

CONSTANTS
    HBLOCK,         \* bytes of a block
    HWORD,          \* values of a word of a counter of bits
    TWORD,          \* values of a word of a counter of bytes
    HASHLEN,        \* bytes of a digest
    OUTBYTES, KEYBYTES,     \* of BLAKE2b
    HashCases       \* the inputs: algorithm, lengths of message, key and output

Algorithms == {"sha256", "sha512", "hmac256", "hmac512", "blake2b", "poly1305"}

ASSUME HashAssumption ==
    /\ HBLOCK \in Nat \ {0} /\ HASHLEN \in 1..HBLOCK /\ (HWORD \div 8) % HBLOCK = 0
    /\ \A c \in HashCases : c.kind = "none" \/ c.alg \in Algorithms

VARIABLES
    hashCase,
    hash            \* the context, the bytes of the message it was given, and what came out

hash_vars == <<hashCase, hash>>

ZERO == <<"0">>
Zeros(n) == [i \in 1..n |-> ZERO]
ByteSeq(tag, n) == [i \in 1..n |-> <<tag, i>>]
Rest(s, n) == SubSeq(s, n + 1, Len(s))
First(s, n) == SubSeq(s, 1, IF n < Len(s) THEN n ELSE Len(s))

\* An array after memcpy(&buf[at], s).
Memcpy(buf, at, s) == [i \in DOMAIN buf |-> IF i - at \in 1..Len(s) THEN s[i-at] ELSE buf[i]]

\* The blocks at the start of s.
Whole(s) == [k \in 1..Len(s) \div HBLOCK |-> SubSeq(s, (k-1) * HBLOCK + 1, k * HBLOCK)]
Remainder(s) == Rest(s, (Len(s) \div HBLOCK) * HBLOCK)

-----------------------------------------------------------------------------
(* SHA-256 and SHA-512.                                                    *)

sha_init == [h |-> <<>>, count |-> <<0, 0>>, buf |-> Zeros(HBLOCK)]

\* The counters, in bits: one word, or two.
sha256_count(count, inlen) == <<0, (count[2] + inlen * 8) % HWORD>>

sha512_count(count, inlen) ==
    LET bitlen == <<(inlen * 8) \div HWORD, (inlen * 8) % HWORD>>
        low == (count[2] + bitlen[2]) % HWORD
        carry == IF low < bitlen[2] THEN 1 ELSE 0
    IN <<(count[1] + carry + bitlen[1]) % HWORD, low>>

\* crypto_hash_sha256_update and crypto_hash_sha512_update after the counter.
sha_blocks(st, in, count) ==
    LET r == (st.count[2] \div 8) % HBLOCK
        buf == Memcpy(st.buf, r, First(in, HBLOCK - r))
        rest == Rest(in, HBLOCK - r)
    IN IF Len(in) < HBLOCK - r THEN [st EXCEPT !.count = count, !.buf = Memcpy(@, r, in)]
       ELSE [h |-> Append(st.h, buf) \o Whole(rest), count |-> count, buf |-> Memcpy(buf, 0, Remainder(rest))]

crypto_hash_sha256_update(st, in) ==
    IF in = <<>> THEN st ELSE sha_blocks(st, in, sha256_count(st.count, Len(in)))

crypto_hash_sha512_update(st, in) == sha_blocks(st, in, sha512_count(st.count, Len(in)))

PADBYTES(n) == First(<< <<"80">> >> \o Zeros(2 * HBLOCK), n)
LengthField(n) == <<"length", n>>

\* plen, when the length takes lenlen bytes.
pad_length(r, lenlen) == IF r < HBLOCK - lenlen THEN HBLOCK - lenlen - r ELSE 2 * HBLOCK - lenlen - r

SHA256_Pad(st) ==
    LET r == (st.count[2] \div 8) % HBLOCK
    IN crypto_hash_sha256_update(crypto_hash_sha256_update(st, PADBYTES(pad_length(r, 1))),
                                 <<LengthField(st.count[2])>>)

SHA512_Pad(st) ==
    LET r == (st.count[2] \div 8) % HBLOCK
    IN crypto_hash_sha512_update(crypto_hash_sha512_update(st, PADBYTES(pad_length(r, 2))),
                                 <<LengthField(st.count[1]), LengthField(st.count[2])>>)

Digest(h) == [i \in 1..HASHLEN |-> <<"digest", h, i>>]
crypto_hash_sha256_final(st) == Digest(SHA256_Pad(st).h)
crypto_hash_sha512_final(st) == Digest(SHA512_Pad(st).h)

-----------------------------------------------------------------------------
(* HMAC, with the update and final of its hash.                            *)

PadKey(x, key) == [i \in 1..HBLOCK |-> IF i <= Len(key) THEN <<x, key[i]>> ELSE <<x>>]

hmac256_key(key) ==
    IF Len(key) > HBLOCK THEN crypto_hash_sha256_final(crypto_hash_sha256_update(sha_init, key)) ELSE key

hmac512_key(key) ==
    IF Len(key) > HBLOCK THEN crypto_hash_sha512_final(crypto_hash_sha512_update(sha_init, key)) ELSE key

crypto_auth_hmacsha256_init(key) ==
    [ictx |-> crypto_hash_sha256_update(sha_init, PadKey("36", hmac256_key(key))),
     octx |-> crypto_hash_sha256_update(sha_init, PadKey("5c", hmac256_key(key)))]

crypto_auth_hmacsha512_init(key) ==
    [ictx |-> crypto_hash_sha512_update(sha_init, PadKey("36", hmac512_key(key))),
     octx |-> crypto_hash_sha512_update(sha_init, PadKey("5c", hmac512_key(key)))]

crypto_auth_hmacsha256_update(st, in) == [st EXCEPT !.ictx = crypto_hash_sha256_update(@, in)]
crypto_auth_hmacsha512_update(st, in) == [st EXCEPT !.ictx = crypto_hash_sha512_update(@, in)]

crypto_auth_hmacsha256_final(st) ==
    crypto_hash_sha256_final(crypto_hash_sha256_update(st.octx, crypto_hash_sha256_final(st.ictx)))

crypto_auth_hmacsha512_final(st) ==
    crypto_hash_sha512_final(crypto_hash_sha512_update(st.octx, crypto_hash_sha512_final(st.ictx)))

-----------------------------------------------------------------------------
(* BLAKE2b.                                                                *)

blake2b_increment_counter(t, inc) ==
    LET low == (t[1] + inc) % TWORD
    IN <<low, (t[2] + IF low < inc THEN 1 ELSE 0) % TWORD>>

blake2b_compress(st, b, last) == [st EXCEPT !.h = Append(@, [block |-> b, t |-> st.t, last |-> last])]

Counted(st, inc) == [st EXCEPT !.t = blake2b_increment_counter(@, inc)]

blake2b_update(st, in) ==
    LET step(x) ==
            LET fill == 2 * HBLOCK - x.st.buflen
                full == Memcpy(x.st.buf, x.st.buflen, First(x.in, fill))
                c == blake2b_compress(Counted(x.st, HBLOCK), First(full, HBLOCK), FALSE)
            IN IF Len(x.in) > fill
               THEN [st |-> [c EXCEPT !.buf = Memcpy(full, 0, Rest(full, HBLOCK)), !.buflen = HBLOCK],
                     in |-> Rest(x.in, fill)]
               ELSE [st |-> [x.st EXCEPT !.buf = full, !.buflen = @ + Len(x.in)], in |-> <<>>]
        run[i \in 0..Len(in)+1] ==
            IF i = 0 THEN [st |-> st, in |-> in]
            ELSE IF run[i-1].in = <<>> THEN run[i-1] ELSE step(run[i-1])
    IN run[Len(in)+1].st

blake2b_init(outlen, keylen) ==
    [param |-> <<outlen, keylen>>, h |-> <<>>, t |-> <<0, 0>>, buf |-> Zeros(2 * HBLOCK), buflen |-> 0]

blake2b_init_key(outlen, key) == blake2b_update(blake2b_init(outlen, Len(key)), Memcpy(Zeros(HBLOCK), 0, key))

\* The buffer holds a block before the last one.
blake2b_two_blocks(buflen) == buflen > HBLOCK

blake2b_final(st) ==
    LET c == blake2b_compress(Counted(st, HBLOCK), First(st.buf, HBLOCK), FALSE)
        f == IF blake2b_two_blocks(st.buflen)
             THEN [c EXCEPT !.buflen = @ - HBLOCK, !.buf = Memcpy(@, 0, SubSeq(@, HBLOCK + 1, c.buflen))]
             ELSE st
        padded == Memcpy(f.buf, f.buflen, Zeros(2 * HBLOCK - f.buflen))
    IN <<st.param, blake2b_compress(Counted(f, f.buflen), First(padded, HBLOCK), TRUE).h>>

\* What crypto_generichash and crypto_generichash_init refuse.
generichash_refuses(outlen, keylen) == outlen <= 0 \/ outlen > OUTBYTES \/ keylen > KEYBYTES

crypto_generichash_blake2b_init(key, outlen) ==
    IF key = <<>> THEN blake2b_init(outlen, 0) ELSE blake2b_init_key(outlen, key)

-----------------------------------------------------------------------------
(* Poly1305.                                                               *)

poly1305_init == [h |-> <<>>, buf |-> Zeros(HBLOCK), leftover |-> 0]

\* poly1305_blocks; the bit above a block is set unless this is a padded one.
poly1305_blocks(h, blocks, final) == h \o [k \in DOMAIN blocks |-> <<blocks[k], ~final>>]

poly1305_update(st, m) ==
    LET want == IF HBLOCK - st.leftover > Len(m) THEN Len(m) ELSE HBLOCK - st.leftover
        filled == [st EXCEPT !.buf = Memcpy(@, st.leftover, First(m, want)), !.leftover = @ + want]
        rest == IF st.leftover > 0 THEN Rest(m, want) ELSE m
        h == IF st.leftover > 0 THEN poly1305_blocks(st.h, <<filled.buf>>, FALSE) ELSE st.h
    IN IF st.leftover > 0 /\ filled.leftover < HBLOCK THEN filled
       ELSE [h |-> poly1305_blocks(h, Whole(rest), FALSE),
             buf |-> Memcpy(filled.buf, 0, Remainder(rest)),
             leftover |-> Len(Remainder(rest))]

\* The last block, when there is one.
poly1305_last(st) == Memcpy(st.buf, st.leftover, << <<"1">> >> \o Zeros(HBLOCK - st.leftover - 1))

poly1305_finish(st) ==
    IF st.leftover > 0 THEN poly1305_blocks(st.h, <<poly1305_last(st)>>, TRUE) ELSE st.h

-----------------------------------------------------------------------------
(* A program hashes a message, in pieces of its choice.                    *)

Key == ByteSeq("k", hashCase.keylen)
Message == ByteSeq("m", hashCase.len)

StartHash ==
    IF hashCase.kind = "none" THEN poly1305_init
    ELSE CASE hashCase.alg \in {"sha256", "sha512"} -> sha_init
           [] hashCase.alg = "hmac256" -> crypto_auth_hmacsha256_init(Key)
           [] hashCase.alg = "hmac512" -> crypto_auth_hmacsha512_init(Key)
           [] hashCase.alg = "poly1305" -> poly1305_init
           [] OTHER -> crypto_generichash_blake2b_init(Key, hashCase.outlen)

Updated(st, in) ==
    CASE hashCase.alg = "sha256" -> crypto_hash_sha256_update(st, in)
      [] hashCase.alg = "sha512" -> crypto_hash_sha512_update(st, in)
      [] hashCase.alg = "hmac256" -> crypto_auth_hmacsha256_update(st, in)
      [] hashCase.alg = "hmac512" -> crypto_auth_hmacsha512_update(st, in)
      [] hashCase.alg = "poly1305" -> poly1305_update(st, in)
      [] OTHER -> blake2b_update(st, in)

Finished(st) ==
    CASE hashCase.alg = "sha256" -> crypto_hash_sha256_final(st)
      [] hashCase.alg = "sha512" -> crypto_hash_sha512_final(st)
      [] hashCase.alg = "hmac256" -> crypto_auth_hmacsha256_final(st)
      [] hashCase.alg = "hmac512" -> crypto_auth_hmacsha512_final(st)
      [] hashCase.alg = "poly1305" -> poly1305_finish(st)
      [] OTHER -> blake2b_final(st)

Accepted == hashCase.kind # "none" /\ (hashCase.alg = "blake2b" => ~generichash_refuses(hashCase.outlen, hashCase.keylen))

HashUpdate(n) ==
    /\ Accepted /\ hash.out = <<>> /\ hash.fed + n <= hashCase.len
    /\ hash' = [hash EXCEPT !.fed = @ + n, !.st = Updated(@, SubSeq(Message, hash.fed + 1, hash.fed + n))]
    /\ UNCHANGED hashCase

HashFinal ==
    /\ Accepted /\ hash.out = <<>> /\ hash.fed = hashCase.len
    /\ hash' = [hash EXCEPT !.out = <<Finished(hash.st)>>]
    /\ UNCHANGED hashCase

HashStart ==
    hash = [st |-> IF Accepted THEN StartHash ELSE poly1305_init, fed |-> 0, out |-> <<>>]

HashInit == hashCase \in HashCases /\ HashStart

HashNext == HashFinal \/ \E n \in 0..(IF hashCase.kind = "none" THEN 0 ELSE hashCase.len) : HashUpdate(n)

-----------------------------------------------------------------------------
(* What is claimed.                                                        *)

Over(algs) == hashCase.kind # "none" /\ hashCase.alg \in algs /\ hash.out # <<>>

\* The blocks FIPS 180-4 hashes: a one bit, as few zeros as possible, and the
\* length of the message in bits.
StandardSha(msg, words) ==
    LET bits == 8 * Len(msg)
        zeros == CHOOSE z \in 0..HBLOCK-1 : (Len(msg) + 1 + z + words) % HBLOCK = 0
        length == IF words = 1 THEN <<LengthField(bits % HWORD)>>
                  ELSE <<LengthField(bits \div HWORD), LengthField(bits % HWORD)>>
    IN Whole(msg \o << <<"80">> >> \o Zeros(zeros) \o length)

\* However a message is cut into pieces, empty ones included, SHA-256 and SHA-512
\* hash the padded message of the standard, with the length of all of it, although
\* the counter also counts the padding and carries into a second word
\* (crypto_hash_sha256_update, SHA256_Pad, SHA512_Pad).
ShaIsStandard ==
    /\ Over({"sha256"}) => hash.out[1] = Digest(StandardSha(Message, 1))
    /\ Over({"sha512"}) => hash.out[1] = Digest(StandardSha(Message, 2))

\* HMAC is hash(key ^ 5c, hash(key ^ 36, message)) with a key that is hashed when
\* it is longer than a block (crypto_auth_hmacsha256_init, _final).
HmacIsStandard ==
    LET H(msg, words) == Digest(StandardSha(msg, words))
        hmac(words) ==
            LET k == IF Len(Key) > HBLOCK THEN H(Key, words) ELSE Key
            IN H(PadKey("5c", k) \o H(PadKey("36", k) \o Message, words), words)
    IN /\ Over({"hmac256"}) => hash.out[1] = hmac(1)
       /\ Over({"hmac512"}) => hash.out[1] = hmac(2)

\* BLAKE2b compresses each block of the key and the message with the number of
\* bytes so far and marks the last one, and only that one, as last; a message
\* that fills its last block gets no empty one after it (blake2b_update, which
\* compresses late, blake2b_final).
Blake2bIsStandard ==
    Over({"blake2b"}) =>
        LET in == (IF Key = <<>> THEN <<>> ELSE Key \o Zeros(HBLOCK - Len(Key))) \o Message
            n == IF in = <<>> THEN 1 ELSE (Len(in) + HBLOCK - 1) \div HBLOCK
            upto(k) == IF k = n THEN Len(in) ELSE k * HBLOCK
            padded == in \o Zeros(n * HBLOCK - Len(in))
        IN hash.out[1] = << <<hashCase.outlen, hashCase.keylen>>,
            [k \in 1..n |-> [block |-> SubSeq(padded, (k-1) * HBLOCK + 1, k * HBLOCK),
                             t |-> <<upto(k) % TWORD, upto(k) \div TWORD>>, last |-> k = n]]>>

\* Poly1305 evaluates the blocks of the message, each with a one above it: above
\* the block when it is full, else after its last byte (poly1305_update,
\* poly1305_finish).
Poly1305IsStandard ==
    Over({"poly1305"}) =>
        LET rest == Remainder(Message)
            full == [k \in DOMAIN Whole(Message) |-> <<Whole(Message)[k], TRUE>>]
        IN hash.out[1] = IF rest = <<>> THEN full
                         ELSE Append(full, <<rest \o << <<"1">> >> \o Zeros(HBLOCK - Len(rest) - 1), FALSE>>)

-----------------------------------------------------------------------------
(***************************************************************************)
(* Password hashing in libsodium (crypto_pwhash/scryptsalsa208sha256): the *)
(* choice of parameters for a limit of time and of memory, the memory they *)
(* need, the text a hash is kept in, and the loops of the key derivation.  *)
(*                                                                         *)
(* Sizes are scaled down: a byte has BYTE_BITS bits, a character of the    *)
(* text stands for CHAR_BITS, r and p have WORD_BITS.  Hashes are terms.   *)
(***************************************************************************)

CONSTANTS
    BYTE_BITS, CHAR_BITS, WORD_BITS,
    SALT_LEN, HASH_LEN,         \* bytes of salt and hash in the text
    OPSLIMIT_MIN,               \* the least opslimit, 32768
    SCRYPT_R,                   \* the r that pickparams takes, 8
    BLOCK_R,                    \* bytes of a block for each r, 128
    SCRYPT_SIZE_MAX, RP_MAX, N_MAX,
    ScryptCases

ASSUME ScryptAssumption ==
    /\ BYTE_BITS \in Nat \ {0} /\ CHAR_BITS \in Nat \ {0} /\ BLOCK_R % 4 = 0
    /\ \A c \in ScryptCases : c.kind \in {"none", "limits", "memory", "text", "broken", "smix", "pbkdf2"}

VARIABLE scryptCase

scrypt_vars == <<scryptCase>>

-----------------------------------------------------------------------------
(* Parameters.                                                             *)

\* The loop of pickparams.
N_log2_for(maxN) == CHOOSE n \in 1..63 : 2^n > maxN \div 2 /\ \A k \in 1..n-1 : 2^k <= maxN \div 2

pickparams(opslimit, memlimit) ==
    LET ops == IF opslimit < OPSLIMIT_MIN THEN OPSLIMIT_MIN ELSE opslimit IN
    IF ops < memlimit \div (BLOCK_R \div 4)
    THEN [N_log2 |-> N_log2_for(ops \div (SCRYPT_R * 4)), p |-> 1, r |-> SCRYPT_R]
    ELSE LET N_log2 == N_log2_for(memlimit \div (SCRYPT_R * BLOCK_R))
             maxrp == (ops \div 4) \div 2^N_log2
         IN [N_log2 |-> N_log2, r |-> SCRYPT_R,
             p |-> (IF maxrp > RP_MAX THEN RP_MAX ELSE maxrp) \div SCRYPT_R]

SizeT(n) == n % (SCRYPT_SIZE_MAX + 1)

B_size(r, p) == SizeT(BLOCK_R * r * p)
V_size(r, N) == SizeT(BLOCK_R * r * N)
XY_size(r) == SizeT(2 * BLOCK_R * r + BLOCK_R \div 2)

sizes_fit(N, r, p) ==
    /\ r <= (SCRYPT_SIZE_MAX \div BLOCK_R) \div p
    /\ N <= (SCRYPT_SIZE_MAX \div BLOCK_R) \div r

\* What escrypt_kdf_nosse computes with, and with how much memory.
escrypt_kdf_accepts(N, r, p) ==
    /\ r * p <= RP_MAX /\ N <= N_MAX
    /\ N >= 2 /\ \E k \in 1..30 : N = 2^k
    /\ r # 0 /\ p # 0
    /\ sizes_fit(N, r, p)
    /\ LET need == SizeT(B_size(r, p) + V_size(r, N)) IN
        need >= V_size(r, N) /\ SizeT(need + XY_size(r)) >= XY_size(r)

escrypt_kdf_need(N, r, p) == SizeT(SizeT(B_size(r, p) + V_size(r, N)) + XY_size(r))

-----------------------------------------------------------------------------
(* The text.                                                               *)

TextChar(n) == <<"c", n>>
DOLLAR == <<"$">>
NUL == <<"nul">>
BYTES2CHARS(n) == (n * BYTE_BITS + CHAR_BITS - 1) \div CHAR_BITS
HASH_CHARS == BYTES2CHARS(HASH_LEN)
STRBYTES == 3 + 1 + 2 * (WORD_BITS \div CHAR_BITS) + BYTES2CHARS(SALT_LEN) + 1 + HASH_CHARS + 1

encode64_uint32(src, srcbits) ==
    [i \in 1..(srcbits + CHAR_BITS - 1) \div CHAR_BITS |-> TextChar((src \div 2^(CHAR_BITS * (i-1))) % 2^CHAR_BITS)]

group_bits(s) == BYTE_BITS * Len(s)

\* encode64 takes the bytes in groups of GROUP, the last one may be shorter.
GROUP == CHAR_BITS
encode64(bytes) ==
    LET group(g) == SubSeq(bytes, (g-1) * GROUP + 1, IF g * GROUP < Len(bytes) THEN g * GROUP ELSE Len(bytes))
        value(s) == LET v[i \in 0..Len(s)] == IF i = 0 THEN 0 ELSE v[i-1] + s[i] * 2^(BYTE_BITS * (i-1)) IN v[Len(s)]
        e[g \in 0..(Len(bytes) + GROUP - 1) \div GROUP] ==
            IF g = 0 THEN <<>> ELSE e[g-1] \o encode64_uint32(value(group(g)), group_bits(group(g)))
    IN e[(Len(bytes) + GROUP - 1) \div GROUP]

escrypt_gensalt_r(N_log2, r, p, salt) ==
    IF r * p > RP_MAX THEN <<>> ELSE
    <<DOLLAR, <<"7">>, DOLLAR, TextChar(N_log2)>> \o encode64_uint32(r, WORD_BITS) \o encode64_uint32(p, WORD_BITS)
        \o encode64(salt) \o <<NUL>>

\* strchr finds the NUL at the end of the alphabet too.
decode64_one(c) == IF c = NUL THEN 2^CHAR_BITS ELSE IF c[1] = "c" THEN c[2] ELSE -1

\* Reading one character, or reading beyond the end.
At(s, i) == IF i <= Len(s) THEN s[i] ELSE <<"beyond">>

\* A word at this place, or -1.
decode64_uint32(s, at) ==
    LET n == WORD_BITS \div CHAR_BITS
        one(i) == decode64_one(At(s, at + i - 1))
        v[i \in 0..n] ==
            IF i = 0 THEN 0 ELSE IF v[i-1] < 0 \/ one(i) < 0 THEN -1
            ELSE v[i-1] + one(i) * 2^(CHAR_BITS * (i-1))
    IN v[n]

PREFIX == 4 + 2 * (WORD_BITS \div CHAR_BITS)

\* escrypt_r, up to the call of escrypt_kdf: what the setting says.
SettingOf(s, N_log2, r, p) ==
    LET nuls == {i \in PREFIX+1..Len(s) : s[i] = NUL}
        end == CHOOSE i \in nuls : \A j \in nuls : i <= j
        dollars == {i \in PREFIX+1..end-1 : s[i] = DOLLAR}
        saltend == IF dollars = {} THEN end ELSE CHOOSE i \in dollars : \A j \in dollars : i >= j
        need == saltend + HASH_CHARS + 1
        fits == nuls # {} /\ need <= STRBYTES
    IN [ok |-> s[1] = DOLLAR /\ s[2] = <<"7">> /\ s[3] = DOLLAR /\ N_log2 >= 0 /\ r >= 0 /\ p >= 0 /\ fits,
        over |-> s[1] = DOLLAR /\ s[2] = <<"7">> /\ s[3] = DOLLAR /\ N_log2 >= 0 /\ r >= 0 /\ p >= 0 /\ nuls = {},
        N_log2 |-> N_log2, r |-> r, p |-> p,
        text |-> IF fits THEN SubSeq(s, 1, saltend - 1) ELSE <<>>]
ParseSetting(s) ==
    SettingOf(s, decode64_one(s[4]), decode64_uint32(s, 5), decode64_uint32(s, 5 + WORD_BITS \div CHAR_BITS))

escrypt_r(passwd, s) ==
    LET digest(x) == [i \in 1..HASH_CHARS |-> <<"hash", passwd, x.N_log2, x.r, x.p, x.text, i>>]
        Hashed(x) == IF ~x.ok \/ ~escrypt_kdf_accepts(2^x.N_log2, x.r, x.p) THEN <<>>
                     ELSE x.text \o <<DOLLAR>> \o digest(x) \o <<NUL>>
    IN  Hashed(ParseSetting(s))

crypto_pwhash_str(passwd, salt, ps) ==
    LET Of(setting) == IF setting = <<>> THEN <<>> ELSE escrypt_r(passwd, setting)
    IN  Of(escrypt_gensalt_r(ps.N_log2, ps.r, ps.p, salt))

\* The NUL is where the array ends, and nowhere before.
str_terminated(s) == s[STRBYTES] = NUL /\ \A i \in 1..STRBYTES-1 : s[i] # NUL

crypto_pwhash_str_verify(s, passwd) ==
    IF ~str_terminated(s) THEN -1 ELSE IF escrypt_r(passwd, s) = s THEN 0 ELSE -1

-----------------------------------------------------------------------------
(* The key derivation.  A value is the list of what was done to it;        *)
(* integerify of a value is any number that depends on it.                 *)

Mixed(x) == Append(x, "h")
XorV(x, v) == Append(x, v)
integerify(x) == 3 * Len(x) + 1

\* The number the second half of a round takes.
smix_j(x, y) == integerify(y)

smix(B, N) ==
    LET fill[i \in 0..N \div 2] ==
            IF i = 0 THEN [x |-> B, V |-> <<>>]
            ELSE LET y == Mixed(fill[i-1].x)
                 IN [x |-> Mixed(y), V |-> fill[i-1].V \o <<fill[i-1].x, y>>]
        V == fill[N \div 2].V
        mix[i \in 0..N \div 2] ==
            IF i = 0 THEN fill[N \div 2].x
            ELSE LET x == mix[i-1]
                     y == Mixed(XorV(x, V[(integerify(x) % N) + 1]))
                 IN Mixed(XorV(y, V[(smix_j(x, y) % N) + 1]))
    IN mix[N \div 2]

pbkdf2_clen(dkLen, i, hlen) == IF dkLen - i * hlen > hlen THEN hlen ELSE dkLen - i * hlen

\* PBKDF2_SHA256 with a hash of hlen bytes; byte k of the combination of U_1, ..., U_c.
PBKDF2_SHA256(c, dkLen, hlen) ==
    LET U(i) == LET u[j \in 1..c] == IF j = 1 THEN <<"salt", i + 1>> ELSE <<"hmac", u[j-1]>> IN u
        T(i, k) == <<{U(i)[j] : j \in 1..c}, k>>
        blocks == {i \in 0..dkLen : i * hlen < dkLen}
        out[n \in 0..dkLen] ==
            IF n \notin blocks /\ n = 0 THEN <<>>
            ELSE IF n = 0 THEN [k \in 1..pbkdf2_clen(dkLen, 0, hlen) |-> T(0, k)]
            ELSE IF n \notin blocks THEN out[n-1]
            ELSE out[n-1] \o [k \in 1..pbkdf2_clen(dkLen, n, hlen) |-> T(n, k)]
    IN out[dkLen]

ScryptInit == scryptCase \in ScryptCases

-----------------------------------------------------------------------------
(* What is claimed.                                                        *)

\* What pickparams chooses keeps both limits and is accepted: the memory of the
\* table is within memlimit (unless that is too small for any table) and the work
\* within opslimit, and p is never 0.
LimitsKept ==
    scryptCase.kind = "limits" =>
        LET x == pickparams(scryptCase.ops, scryptCase.mem)
            ops == IF scryptCase.ops < OPSLIMIT_MIN THEN OPSLIMIT_MIN ELSE scryptCase.ops
        IN /\ scryptCase.mem >= 2 * SCRYPT_R * BLOCK_R => 2^x.N_log2 * x.r * BLOCK_R <= scryptCase.mem
           /\ 4 * 2^x.N_log2 * x.r * x.p <= ops
           /\ scryptCase.mem >= 2 * SCRYPT_R * BLOCK_R => x.p > 0

\* No size wraps: the memory that is allocated is as much as the three arrays
\* take (escrypt_kdf_nosse).
MemorySuffices ==
    scryptCase.kind = "memory" =>
        \A N \in scryptCase.Ns : \A p \in scryptCase.ps : escrypt_kdf_accepts(N, scryptCase.r, p) =>
            escrypt_kdf_need(N, scryptCase.r, p)
                = BLOCK_R * scryptCase.r * (p + N) + 2 * BLOCK_R * scryptCase.r + BLOCK_R \div 2

\* The text of a hash is as long as its array says and verifies with the password
\* it was made from and with no other, whatever bits the salt ends with (encode64,
\* escrypt_r, crypto_pwhash_scryptsalsa208sha256_str_verify).
TextVerifies ==
    scryptCase.kind = "text" =>
        \A s \in {crypto_pwhash_str("pw", scryptCase.salt, scryptCase.params)} :
        escrypt_kdf_accepts(2^scryptCase.params.N_log2, scryptCase.params.r, scryptCase.params.p) =>
            /\ Len(s) = STRBYTES
            /\ crypto_pwhash_str_verify(s, "pw") = 0 /\ crypto_pwhash_str_verify(s, "other") # 0

\* Whatever is in a text, verification reads no character beyond its array and
\* accepts no changed one.
BrokenTextSafe ==
    scryptCase.kind = "broken" =>
        \A s \in {crypto_pwhash_str("pw", scryptCase.salt, scryptCase.params)} :
        \A t \in {[i \in DOMAIN s |-> IF i \in DOMAIN scryptCase.changes THEN scryptCase.changes[i] ELSE s[i]]} :
           /\ str_terminated(t) => ~ParseSetting(t).over /\ Len(escrypt_r("pw", t)) <= STRBYTES
           /\ t # s => crypto_pwhash_str_verify(t, "pw") # 0

\* The loops of smix, which do two rounds at a time in two buffers, compute ROMix.
SmixIsRomix ==
    scryptCase.kind = "smix" =>
        LET N == scryptCase.N
            X[i \in 0..N] == IF i = 0 THEN <<"b">> ELSE Mixed(X[i-1])
            Y[i \in 0..N] == IF i = 0 THEN X[N] ELSE Mixed(XorV(Y[i-1], X[integerify(Y[i-1]) % N]))
        IN smix(<<"b">>, N) = Y[N]

\* PBKDF2_SHA256 fills the buffer and nothing else; byte k of it is byte k of the
\* blocks T_1, T_2, ... in their order, each combining c values.
Pbkdf2IsStandard ==
    scryptCase.kind = "pbkdf2" =>
        LET out == PBKDF2_SHA256(scryptCase.c, scryptCase.dkLen, HASH_LEN)
            chain(i) == LET u[j \in 1..scryptCase.c] == IF j = 1 THEN <<"salt", i>> ELSE <<"hmac", u[j-1]>>
                        IN {u[j] : j \in 1..scryptCase.c}
        IN out = [k \in 1..scryptCase.dkLen |-> <<chain(((k-1) \div HASH_LEN) + 1), ((k-1) % HASH_LEN) + 1>>]

\* The hashes compute the standard's value however their input is cut, and
\* password hashes keep to their limits and verify as they were stored.
HashesSound ==
    /\ ShaIsStandard /\ HmacIsStandard /\ Blake2bIsStandard /\ Poly1305IsStandard
    /\ LimitsKept /\ MemorySuffices /\ TextVerifies /\ BrokenTextSafe /\ SmixIsRomix /\ Pbkdf2IsStandard
=============================================================================
