------------------------------- MODULE IvCache -------------------------------
(***************************************************************************)
(* The check for repeated initialization vectors (src/encrypt.c).  The     *)
(* first ss_decrypt of a TCP stream looks its IV up in iv_cache: a stream  *)
(* whose IV is there is refused, any other IV is remembered.  (Methods     *)
(* below RC4_MD5 are not checked, and not modelled here.)  iv_cache is a   *)
(* Cache whose capacity enc_key_init chooses.                              *)
(*                                                                         *)
(* when and now are history: the moment each IV was last presented.        *)
(***************************************************************************)
EXTENDS Cache, FiniteSets

CONSTANTS
    IVs,            \* the values an IV can take
    CAPACITY,       \* the capacity given to cache_create
    MaxPresented    \* bound: streams opened

ASSUME IvAssumption ==
    /\ CAPACITY \in Nat \ {0} /\ MaxPresented \in Nat
    /\ IsFiniteSet(IVs)

NoData == "NULL"

VARIABLES
    iv_cache,   \* the cache
    accepted,   \* the outcome of the last check
    when,       \* history: when each IV was last presented, 0 for never
    now         \* history: streams opened so far

iv_vars == <<iv_cache, accepted, when, now>>

IvInit ==
    /\ iv_cache = <<>>
    /\ accepted = {}
    /\ when = [iv \in IVs |-> 0]
    /\ now = 0

\* A stream whose IV is iv is opened; history.
Presented(iv) ==
    /\ now < MaxPresented
    /\ now' = now + 1
    /\ when' = [when EXCEPT ![iv] = now + 1]

\* ss_decrypt: the IV is in the cache, which makes it the youngest there.
Refuse(iv) ==
    /\ Presented(iv)
    /\ cache_key_exist(iv_cache, iv)
    /\ iv_cache' = touch(iv_cache, iv)
    /\ accepted' = {}

\* ss_decrypt: the IV is not in the cache, where it is put.
Accept(iv) ==
    /\ Presented(iv)
    /\ ~cache_key_exist(iv_cache, iv)
    /\ iv_cache' = cache_insert(CAPACITY, iv_cache, iv, NoData)
    /\ accepted' = {iv}

IvNext == \E iv \in IVs : Refuse(iv) \/ Accept(iv)

IvSpec == IvInit /\ [][IvNext]_iv_vars

-----------------------------------------------------------------------------
\* Every variable keeps its type, and the cache stays below its capacity.
IvTypeOK ==
    /\ iv_cache \in Entries(IVs, {NoData})
    /\ Len(iv_cache) < CAPACITY
    /\ accepted \in SUBSET IVs
    /\ when \in [IVs -> Nat] /\ now \in Nat

\* No IV has two entries, and the entries are in the order of their last use:
\* HASH_ITER meets the least recently used one first.
Ordered ==
    \A i, j \in DOMAIN iv_cache : i < j => when[iv_cache[i].key] < when[iv_cache[j].key]

Later(iv) == {other \in IVs : when[other] > when[iv]}

\* A stream is accepted only if its IV is new, or if CAPACITY - 1 other IVs were
\* presented since it was: the window in which a repetition is noticed.
ReplayWindow ==
    [][\A iv \in accepted' :
        when[iv] = 0 \/ Cardinality(Later(iv)) >= CAPACITY - 1]_iv_vars
=============================================================================
