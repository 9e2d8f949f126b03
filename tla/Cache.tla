-------------------------------- MODULE Cache --------------------------------
(***************************************************************************)
(* The least-recently-used cache of src/cache.c, shared by the UDP relay   *)
(* (client address -> remote_ctx_t) and by the check for repeated IVs.     *)
(*                                                                         *)
(* A cache is the sequence of its entries [key, data] in uthash's          *)
(* application order, which HASH_ADD_KEYPTR extends at the end and         *)
(* HASH_ITER walks from the start.                                         *)
(***************************************************************************)
EXTENDS Integers, Sequences

Entries(Keys, Data) == Seq([key : Keys, data : Data])

Holding(es, k) == {i \in DOMAIN es : es[i].key = k}

\* The entries without the i-th (HASH_DEL).
Without(es, i) ==
    [j \in 1..(Len(es) - 1) |-> IF j < i THEN es[j] ELSE es[j + 1]]

\* HASH_FIND walks a bucket from its newest entry.
HASH_FIND(es, k) == CHOOSE i \in Holding(es, k) : \A j \in Holding(es, k) : j <= i

cache_key_exist(es, k) == Holding(es, k) # {}

\* What a hit of cache_lookup or cache_key_exist does: delete and add again.
touch(es, k) ==
    IF cache_key_exist(es, k)
    THEN LET i == HASH_FIND(es, k) IN Append(Without(es, i), es[i])
    ELSE es

\* The result of cache_lookup: a set of at most one datum.
cache_lookup(es, k) ==
    IF cache_key_exist(es, k) THEN {es[HASH_FIND(es, k)].data} ELSE {}

\* What cache_insert does when its count reaches max_entries: give up the oldest.
Evict(max_entries, es) == IF Len(es) >= max_entries THEN Tail(es) ELSE es

\* Mutant: the entry that was just added is given up.
cache_insert_evicts_youngest(max_entries, es, k, d) ==
    IF Len(es) + 1 >= max_entries THEN es ELSE Append(es, [key |-> k, data |-> d])

cache_insert(max_entries, es, k, d) ==
    Evict(max_entries, Append(es, [key |-> k, data |-> d]))

\* The data that cache_insert hands to free_cb.
Evicted(max_entries, es, k, d) ==
    IF Len(es) + 1 >= max_entries
    THEN {Append(es, [key |-> k, data |-> d])[1].data}
    ELSE {}

\* The entry found under k is deleted; its datum goes to free_cb.
cache_remove(es, k) ==
    IF cache_key_exist(es, k) THEN Without(es, HASH_FIND(es, k)) ELSE es
=============================================================================
