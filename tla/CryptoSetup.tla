----------------------------- MODULE CryptoSetup -----------------------------
(***************************************************************************)
(* What src/encrypt.c computes before a byte is encrypted: the table of    *)
(* the "table" method, the key and the sizes of a method, with each of the *)
(* libraries it may be built with, and the state a cipher starts from.     *)
(***************************************************************************)
EXTENDS Integers, Sequences, FiniteSets

CONSTANTS
    BYTES,          \* the number of values of a byte
    ROUNDS,         \* the number of times the table is sorted
    Setups          \* passwords and methods, and digests that fail

VARIABLE setup      \* one of them

LOCAL Seqs == INSTANCE SequencesExt

-----------------------------------------------------------------------------
(* The table.                                                              *)

random_compare(x, y, i, a) == (a % (x + i)) - (a % (y + i))

\* One of the halves is used up.
rest(left, right) == left \o right

RECURSIVE merge(_, _, _, _)
merge(left, right, salt, key) ==
    IF left = <<>> \/ right = <<>> THEN rest(left, right)
    ELSE IF random_compare(Head(left), Head(right), salt, key) <= 0
    THEN <<Head(left)>> \o merge(Tail(left), right, salt, key)
    ELSE <<Head(right)>> \o merge(left, Tail(right), salt, key)

\* The middle is a byte.
RECURSIVE merge_sort(_, _, _)
merge_sort(array, salt, key) ==
    LET length == Len(array)
        llength == length - ((length \div 2) % BYTES)
    IN  IF length <= 1 THEN array
        ELSE merge(merge_sort(SubSeq(array, 1, llength), salt, key),
                   merge_sort(SubSeq(array, llength + 1, length), salt, key), salt, key)

\* Index i + 1 is byte i.
enc_table(key) ==
    Seqs!FoldLeft(LAMBDA table, salt : merge_sort(table, salt, key),
                  [i \in 1..BYTES |-> i - 1], [salt \in 1..ROUNDS |-> salt])

\* What dec_table[b] was set to last.
dec_table(table, b) ==
    LET is == {i \in 1..BYTES : table[i] = b} IN
    IF is = {} THEN -1 ELSE (CHOOSE i \in is : \A j \in is : j <= i) - 1

-----------------------------------------------------------------------------
(* Keys.  Byte j of the digest of round n is <<n, j>>.                     *)

Upto(n, mds) == IF n < mds THEN n ELSE mds
DigestBytes(n, from, count) == [j \in 1..count |-> <<n, from + j>>]

\* Mutant: the IV starts with a digest of its own.
BytesForIv_fresh(mds, i, niv) == IF i = 0 THEN Upto(niv, mds) ELSE 0

\* How much of the rest of a digest the IV takes.
BytesForIv(mds, i, niv) == Upto(niv, mds - i)

\* Round n of bytes_to_key, with nkey and niv bytes to go; the digest of round
\* fails, if any, fails.
RECURSIVE bytes_to_key(_, _, _, _, _)
bytes_to_key(n, mds, nkey, niv, fails) ==
    LET i == Upto(nkey, mds)
        v == BytesForIv(mds, i, niv)
        after == bytes_to_key(n + 1, mds, nkey - i, niv - v, fails)
    IN  IF n = fails THEN [ok |-> FALSE, key |-> <<>>, iv |-> <<>>]
        ELSE IF nkey = i /\ niv = v
        THEN [ok |-> TRUE, key |-> DigestBytes(n, 0, i), iv |-> DigestBytes(n, i, v)]
        ELSE [ok |-> after.ok, key |-> DigestBytes(n, 0, i) \o after.key, iv |-> DigestBytes(n, i, v) \o after.iv]

-----------------------------------------------------------------------------
(* Methods.                                                                *)

CIPHER_NUM == 18
TABLE == 0
RC4 == 1
RC4_MD5 == 2
BF_CFB == 6
SALSA20 == 15
MethodNumbers == 0..(CIPHER_NUM - 1)

supported_ciphers_iv_size == <<0, 0, 16, 16, 16, 16, 8, 16, 16, 16, 8, 8, 8, 8, 16, 8, 8, 12>>
supported_ciphers_key_size == <<0, 16, 16, 16, 24, 32, 16, 16, 24, 32, 16, 8, 16, 16, 16, 32, 32, 32>>

Libraries == {"openssl", "polarssl", "mbedtls"}
CIPHER_UNSUPPORTED == 10..14

NoCipher == [key |-> 0, iv |-> 0]

\* What the library says of a cipher.
cipher_info(lib, method) ==
    [key |-> IF lib = "polarssl" /\ method = BF_CFB THEN 4 ELSE supported_ciphers_key_size[method + 1],
     iv |-> supported_ciphers_iv_size[method + 1]]

get_cipher_type(lib, method) ==
    LET m == IF method = RC4_MD5 THEN RC4 ELSE method IN
    IF method <= TABLE \/ method >= CIPHER_NUM \/ m >= SALSA20 THEN NoCipher
    ELSE IF lib # "openssl" /\ m \in CIPHER_UNSUPPORTED THEN NoCipher
    ELSE cipher_info(lib, m)

\* PolarSSL's Blowfish is overridden.
cipher_key_size(lib, method, cipher) ==
    IF lib = "polarssl" /\ method = BF_CFB THEN 16 ELSE cipher.key

Fatal == [key_len |-> -1, iv_len |-> -1]

\* The lengths enc_key_init sets, or the end of the program.
enc_key_init(lib, method) ==
    LET cipher == IF method >= SALSA20
                  THEN [key |-> supported_ciphers_key_size[method + 1],
                        iv |-> supported_ciphers_iv_size[method + 1]]
                  ELSE get_cipher_type(lib, method)
    IN  IF cipher = NoCipher THEN Fatal
        ELSE [key_len |-> Len(bytes_to_key(1, 16, cipher_key_size(lib, method, cipher), cipher.iv, 0).key),
              iv_len |-> IF method = RC4_MD5 THEN 16 ELSE cipher.iv]

\* cipher_context_init, which enc_ctx_init calls for each stream, sets one of them
\* again.
cipher_context_init(lib, method, lens) ==
    IF method >= SALSA20 THEN [lens EXCEPT !.iv_len = supported_ciphers_iv_size[method + 1]]
    ELSE IF get_cipher_type(lib, method) = NoCipher THEN Fatal
    ELSE lens

\* A name that is not among supported_ciphers is taken for "table".
enc_init(lib, name) ==
    IF name \notin MethodNumbers \ {TABLE} THEN [key_len |-> 0, iv_len |-> 0]
    ELSE enc_key_init(lib, name)

\* The state a cipher starts from; the digest of key and IV is the pair of them.
cipher_context_set_iv(method, key, iv) ==
    IF method = RC4_MD5 THEN << <<key, iv>> >>
    ELSE IF supported_ciphers_iv_size[method + 1] = 0 THEN <<key>>
    ELSE <<key, iv>>

-----------------------------------------------------------------------------
(* What is claimed.                                                        *)

\* The sorted table is a permutation, and dec_table its inverse.
TableInverts ==
    setup.kind = "table" =>
        LET table == enc_table(setup.key) IN
        \A b \in 0..(BYTES - 1) :
            /\ dec_table(table, table[b + 1]) = b
            /\ dec_table(table, b) >= 0 /\ table[dec_table(table, b) + 1] = b

\* The key and then the IV are the first bytes of the digests, wherever one ends;
\* when one of the digests that are needed fails there is no key at all.
KeyIsPrefix ==
    setup.kind = "key" =>
        LET got == bytes_to_key(1, setup.mds, setup.nkey, setup.niv, setup.fails)
            Stream(from, count) == [j \in 1..count |->
                <<((from + j - 1) \div setup.mds) + 1, ((from + j - 1) % setup.mds) + 1>>]
            digests == ((setup.nkey + setup.niv - 1) \div setup.mds) + 1
        IN  IF setup.fails \in 1..digests THEN ~got.ok
            ELSE got.ok /\ got.key = Stream(0, setup.nkey) /\ got.iv = Stream(setup.nkey, setup.niv)

\* Ends built with different libraries agree on the lengths of a method's key and
\* IV, which are those of the tables, before the first stream and after it; or one
\* refuses to start.
SizesAgree ==
    setup.kind = "method" /\ setup.name \in MethodNumbers => \A lib \in Libraries :
        LET lens == enc_init(lib, setup.name)
        IN  lens = Fatal \/
            /\ lens = [key_len |-> supported_ciphers_key_size[setup.name + 1],
                       iv_len |-> supported_ciphers_iv_size[setup.name + 1]]
            /\ setup.name # TABLE => cipher_context_init(lib, setup.name, lens) = lens

\* With every method that sends an IV, streams with different IVs start from
\* different states.
IvMatters ==
    setup.kind = "method" /\ setup.name \in MethodNumbers /\ setup.name > RC4 =>
        \A iv1, iv2 \in 1..3 : iv1 # iv2 =>
            cipher_context_set_iv(setup.name, "key", iv1) # cipher_context_set_iv(setup.name, "key", iv2)

\* Both ends derive the same, usable secrets: the decrypting table inverts the
\* encrypting one, a shorter key is the start of a longer one, the sizes of the
\* method in use agree, and the key of a datagram depends on its IV.
SetupSound == TableInverts /\ KeyIsPrefix /\ SizesAgree /\ IvMatters
=============================================================================
