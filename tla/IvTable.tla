------------------------------ MODULE IvTable -------------------------------
(***************************************************************************)
(* The replay check's cache in the table that src/cache.c keeps it in.     *)
(***************************************************************************)
EXTENDS Naturals, Sequences, IvCache

(***************************************************************************)
(* The hash table under the cache (src/uthash.h): an element is in the     *)
(* application-order list and in the chain of one bucket, and a bucket     *)
(* that fills up doubles the number of buckets.                            *)
(*                                                                         *)
(* A table is [app, buckets, ineff_expands, noexpand]; a bucket is [chain, *)
(* expand_mult], its count being Len(chain), and HASH_TO_BKT numbers       *)
(* buckets from 1.  Both linked lists are sequences of elements.  An       *)
(* element is its key: the users of the cache look a key up before they    *)
(* insert it.                                                              *)
(***************************************************************************)

CONSTANTS
    HashV(_),                   \* HASH_FCN
    HASH_INITIAL_NUM_BUCKETS,
    HASH_BKT_CAPACITY_THRESH

LOCAL Ext == INSTANCE SequencesExt

num_items(tbl) == Len(tbl.app)
num_buckets(tbl) == Len(tbl.buckets)
EmptyBucket == [chain |-> <<>>, expand_mult |-> 0]

HASH_MAKE_TABLE ==
    [app |-> <<>>, buckets |-> [b \in 1..HASH_INITIAL_NUM_BUCKETS |-> EmptyBucket],
     ineff_expands |-> 0, noexpand |-> FALSE]

HASH_TO_BKT(hashv, n) == 1 + (hashv % n)

HASH_FIND_IN_BKT(tbl, key) ==
    key \in Ext!ToSet(tbl.buckets[HASH_TO_BKT(HashV(key), num_buckets(tbl))].chain)

-----------------------------------------------------------------------------
\* ceil(items / n).
ideal_chain_maxlen(items, n) == items \div n + (IF items % n # 0 THEN 1 ELSE 0)

\* Mutant: an element keeps the bucket it had.
Move_old_bucket(news, key, ideal) ==
    [news EXCEPT ![HASH_TO_BKT(HashV(key), Len(news) \div 2)] =
        [chain |-> <<key>> \o @.chain, expand_mult |-> @.expand_mult]]

\* An element is moved to the head of its chain among the new buckets.
Move(news, key, ideal) ==
    [news EXCEPT ![HASH_TO_BKT(HashV(key), Len(news))] =
        LET count == Len(@.chain) + 1 IN
        [chain |-> <<key>> \o @.chain,
         expand_mult |-> IF count > ideal THEN count \div ideal ELSE @.expand_mult]]

nonideal_items(buckets, ideal) ==
    Ext!FoldLeft(+, 0, [b \in DOMAIN buckets |->
        IF Len(buckets[b].chain) > ideal THEN Len(buckets[b].chain) - ideal ELSE 0])

HASH_EXPAND_BUCKETS(tbl) ==
    LET n == 2 * num_buckets(tbl)
        ideal == ideal_chain_maxlen(num_items(tbl), n)
        elements == Ext!FlattenSeq([b \in DOMAIN tbl.buckets |-> tbl.buckets[b].chain])
        news == Ext!FoldLeft(LAMBDA bs, key : Move(bs, key, ideal),
                             [b \in 1..n |-> EmptyBucket], elements)
        ineff == IF nonideal_items(news, ideal) > num_items(tbl) \div 2
                 THEN tbl.ineff_expands + 1 ELSE 0
    IN  [tbl EXCEPT !.buckets = news, !.ineff_expands = ineff,
                    !.noexpand = @ \/ ineff > 1]

HASH_ADD_TO_BKT(tbl, b, key) ==
    LET added == [tbl EXCEPT !.buckets[b].chain = <<key>> \o @]
        bucket == added.buckets[b]
    IN  IF Len(bucket.chain) >= (bucket.expand_mult + 1) * HASH_BKT_CAPACITY_THRESH
           /\ ~tbl.noexpand
        THEN HASH_EXPAND_BUCKETS(added) ELSE added

\* The first element makes the table.
HASH_ADD_KEYPTR(old, key) ==
    LET tbl == IF old.app = <<>> THEN HASH_MAKE_TABLE ELSE old IN
    HASH_ADD_TO_BKT([tbl EXCEPT !.app = Append(@, key)],
                    HASH_TO_BKT(HashV(key), num_buckets(tbl)), key)

\* The last element takes the table with it.
HASH_DELETE(tbl, key) ==
    IF tbl.app = <<key>> THEN HASH_MAKE_TABLE
    ELSE [tbl EXCEPT !.app = Ext!Remove(@, key),
                     !.buckets[HASH_TO_BKT(HashV(key), num_buckets(tbl))].chain =
                         Ext!Remove(@, key)]

\* What HASH_FSCK checks: the chains hold the elements of the list, once each.
HASH_FSCK(tbl) ==
    LET chained == Ext!FlattenSeq([b \in DOMAIN tbl.buckets |-> tbl.buckets[b].chain])
    IN  Ext!ToSet(chained) = Ext!ToSet(tbl.app) /\ Len(chained) = num_items(tbl)

-----------------------------------------------------------------------------
(***************************************************************************)
(* iv_cache as src/cache.c keeps it: in a uthash table.  Every step takes  *)
(* IvCache's list and the table along, so that the two can be compared.    *)
(***************************************************************************)

VARIABLE tbl    \* iv_cache->entries

TableInit == IvInit /\ tbl = HASH_MAKE_TABLE

\* cache_key_exist, on a hit: delete and add again.
TableTouch(iv) == tbl' = HASH_ADD_KEYPTR(HASH_DELETE(tbl, iv), iv)

\* cache_insert: add, and delete the first one at the limit.
TableInsert(iv) ==
    LET added == HASH_ADD_KEYPTR(tbl, iv) IN
    tbl' = IF num_items(added) >= CAPACITY THEN HASH_DELETE(added, Head(added.app)) ELSE added

TableNext ==
    \E iv \in IVs :
        \/ Refuse(iv) /\ TableTouch(iv)
        \/ Accept(iv) /\ TableInsert(iv)

-----------------------------------------------------------------------------
\* The table has the entries of the cache in their order, and HASH_FIND finds
\* those and no others, however buckets were doubled and elements moved in between.
TableAgrees ==
    /\ tbl.app = [i \in DOMAIN iv_cache |-> iv_cache[i].key]
    /\ \A iv \in IVs : HASH_FIND_IN_BKT(tbl, iv) <=> cache_key_exist(iv_cache, iv)
    /\ HASH_FSCK(tbl)

\* The cache is what its order says, in the list and in the table alike.
TableSound == Ordered /\ TableAgrees
=============================================================================
