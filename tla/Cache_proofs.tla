---------------------------- MODULE Cache_proofs -----------------------------
(***************************************************************************)
(* Proofs about the operators of Cache, and about the two programs that    *)
(* keep one: the UDP relay (UdpRelay) and the check for repeated IVs       *)
(* (IvCache).                                                              *)
(***************************************************************************)
EXTENDS IvCache, UdpRelay, TLAPS

\* The leaves are for the SMT solver, unless they cite another prover.
USE SMTT(60)

-----------------------------------------------------------------------------
(* Sequences.                                                              *)

LEMMA SeqLen ==
    ASSUME NEW S, NEW s \in Seq(S)
    PROVE  Len(s) \in Nat /\ DOMAIN s = 1..Len(s) /\ s \in [1..Len(s) -> S]
OBVIOUS

LEMMA SeqElement ==
    ASSUME NEW S, NEW s \in Seq(S), NEW i \in 1..Len(s)
    PROVE  s[i] \in S
OBVIOUS

\* A function on 1..n is a sequence of length n.
LEMMA SeqOfFunction ==
    ASSUME NEW S, NEW n \in Nat, NEW f \in [1..n -> S]
    PROVE  f \in Seq(S) /\ Len(f) = n
OBVIOUS

LEMMA SeqEmpty ==
    ASSUME NEW S
    PROVE  <<>> \in Seq(S) /\ Len(<<>>) = 0
OBVIOUS

LEMMA SeqTail ==
    ASSUME NEW S, NEW s \in Seq(S), Len(s) > 0
    PROVE  /\ Tail(s) \in Seq(S) /\ Len(Tail(s)) = Len(s) - 1
           /\ \A i \in 1..(Len(s) - 1) : Tail(s)[i] = s[i + 1]
OBVIOUS

-----------------------------------------------------------------------------
(* The operators of Cache.                                                 *)

\* Deleting an entry keeps the others, in their order.
LEMMA WithoutProperties ==
    ASSUME NEW E, NEW es \in Seq(E), NEW i \in 1..Len(es)
    PROVE  /\ Without(es, i) \in Seq(E)
           /\ Len(Without(es, i)) = Len(es) - 1
           /\ \A j \in 1..(Len(es) - 1) :
                Without(es, i)[j] = IF j < i THEN es[j] ELSE es[j + 1]
<1>1. Len(es) - 1 \in Nat
  BY SeqLen
<1>2. \A j \in 1..(Len(es) - 1) : j \in 1..Len(es) /\ j + 1 \in 1..Len(es)
  BY <1>1
<1>3. \A j \in 1..Len(es) : es[j] \in E
  BY SeqElement
<1>4. Without(es, i) \in [1..(Len(es) - 1) -> E]
  BY <1>2, <1>3 DEF Without
<1>5. Without(es, i) \in Seq(E) /\ Len(Without(es, i)) = Len(es) - 1
  BY <1>1, <1>4, SeqLen, SeqOfFunction
<1>. QED  BY <1>5 DEF Without

\* HASH_FIND finds an entry if there is one.
LEMMA FindProperties ==
    ASSUME NEW E, NEW es \in Seq(E), NEW k, cache_key_exist(es, k),
           \A i, j \in 1..Len(es) : es[i].key = es[j].key => i = j
    PROVE  HASH_FIND(es, k) \in 1..Len(es) /\ es[HASH_FIND(es, k)].key = k
<1>1. PICK i \in Holding(es, k) : TRUE
  BY DEF cache_key_exist
<1>2. i \in 1..Len(es) /\ es[i].key = k
  BY <1>1, SeqLen DEF Holding
<1>3. \A j \in Holding(es, k) : j = i
  BY <1>2, SeqLen DEF Holding
<1>4. \A j \in Holding(es, k) : j <= i
  BY <1>2, <1>3
<1>. QED  BY <1>1, <1>2, <1>3, <1>4, Zenon DEF HASH_FIND

\* A hit moves its entry to the end.
LEMMA TouchProperties ==
    ASSUME NEW E, NEW es \in Seq(E), NEW k, cache_key_exist(es, k),
           \A i, j \in 1..Len(es) : es[i].key = es[j].key => i = j
    PROVE  /\ touch(es, k) \in Seq(E)
           /\ Len(touch(es, k)) = Len(es)
           /\ Len(es) \in Nat \ {0}
           /\ touch(es, k)[Len(es)] = es[HASH_FIND(es, k)]
           /\ touch(es, k)[Len(es)].key = k
           /\ \A j \in 1..(Len(es) - 1) :
                touch(es, k)[j] = IF j < HASH_FIND(es, k) THEN es[j] ELSE es[j + 1]
<1>. DEFINE p == HASH_FIND(es, k)
            w == Without(es, p)
<1>1. p \in 1..Len(es) /\ es[p].key = k /\ es[p] \in E /\ Len(es) \in Nat
  BY FindProperties, SeqLen, SeqElement
<1>2. /\ w \in Seq(E) /\ Len(w) = Len(es) - 1
      /\ \A j \in 1..(Len(es) - 1) : w[j] = IF j < p THEN es[j] ELSE es[j + 1]
  BY <1>1, WithoutProperties, Zenon
<1>. HIDE DEF w
<1>3. touch(es, k) = Append(w, es[p])
  BY DEF touch, w
<1>4. /\ Append(w, es[p]) \in Seq(E) /\ Len(Append(w, es[p])) = Len(es)
      /\ Append(w, es[p])[Len(es)] = es[p]
      /\ \A j \in 1..(Len(es) - 1) : Append(w, es[p])[j] = w[j]
  BY <1>1, <1>2
<1>. QED  BY <1>1, <1>2, <1>3, <1>4

\* An insertion adds its entry at the end, and drops the first when the count
\* reaches max_entries.
LEMMA InsertProperties ==
    ASSUME NEW E, NEW es \in Seq(E), NEW k, NEW d, [key |-> k, data |-> d] \in E,
           NEW max \in Nat \ {0}, Len(es) < max
    PROVE  /\ cache_insert(max, es, k, d) \in Seq(E)
           /\ Len(es) + 1 < max =>
                /\ Len(cache_insert(max, es, k, d)) = Len(es) + 1
                /\ cache_insert(max, es, k, d)[Len(es) + 1] = [key |-> k, data |-> d]
                /\ cache_insert(max, es, k, d)[Len(es) + 1].key = k
                /\ \A j \in 1..Len(es) : cache_insert(max, es, k, d)[j] = es[j]
           /\ Len(es) + 1 >= max =>
                /\ Len(es) = max - 1
                /\ Len(cache_insert(max, es, k, d)) = Len(es)
                /\ Len(es) > 0 => /\ cache_insert(max, es, k, d)[Len(es)] = [key |-> k, data |-> d]
                                   /\ cache_insert(max, es, k, d)[Len(es)].key = k
                /\ \A j \in 1..(Len(es) - 1) : cache_insert(max, es, k, d)[j] = es[j + 1]
<1>. DEFINE e == [key |-> k, data |-> d]
            a == Append(es, e)
<1>1. /\ a \in Seq(E) /\ Len(a) = Len(es) + 1 /\ Len(es) \in Nat
      /\ a[Len(es) + 1] = e /\ a[Len(es) + 1].key = k
      /\ \A j \in 1..Len(es) : a[j] = es[j]
  BY SeqLen
<1>. HIDE DEF a
<1>2. /\ Tail(a) \in Seq(E) /\ Len(Tail(a)) = Len(es)
      /\ \A j \in 1..Len(es) : Tail(a)[j] = a[j + 1]
  BY <1>1, SeqTail
<1>3. cache_insert(max, es, k, d) = IF Len(es) + 1 >= max THEN Tail(a) ELSE a
  BY <1>1 DEF cache_insert, Evict, a
<1>. QED  BY <1>1, <1>2, <1>3


\* The entries of a cache, and that no two of them have the same key.
Held(es) == {es[i] : i \in 1..Len(es)}
KeysDistinct(es) == \A i, j \in 1..Len(es) : es[i].key = es[j].key => i = j

\* A hit, found or not, keeps the entries.
LEMMA TouchKeeps ==
    ASSUME NEW E, NEW es \in Seq(E), NEW k, KeysDistinct(es)
    PROVE  /\ touch(es, k) \in Seq(E) /\ Len(touch(es, k)) = Len(es)
           /\ Held(touch(es, k)) = Held(es) /\ KeysDistinct(touch(es, k))
<1>1. CASE ~cache_key_exist(es, k)
  BY <1>1 DEF touch
<1>2. CASE cache_key_exist(es, k)
  <2>. DEFINE t == touch(es, k)
              n == Len(es)
              p == HASH_FIND(es, k)
              from == [j \in 1..n |-> IF j = n THEN p ELSE IF j < p THEN j ELSE j + 1]
  <2>1. p \in 1..n /\ n \in Nat
    BY <1>2, FindProperties, SeqLen DEF KeysDistinct
  <2>2. /\ t \in Seq(E) /\ Len(t) = n /\ t[n] = es[p]
        /\ \A j \in 1..(n - 1) : t[j] = IF j < p THEN es[j] ELSE es[j + 1]
    BY <1>2, TouchProperties DEF KeysDistinct
  <2>. HIDE DEF t, n, p
  <2>3. /\ \A j \in 1..n : from[j] \in 1..n
        /\ \A i, j \in 1..n : from[i] = from[j] => i = j
        /\ \A i \in 1..n : \E j \in 1..n : from[j] = i
    <3>1. \A i \in 1..n : \E j \in 1..n : from[j] = i
      <4>. TAKE i \in 1..n
      <4>1. CASE i = p
        <5>1. n \in 1..n /\ from[n] = i
          BY <2>1, <4>1
        <5>. QED  BY <5>1
      <4>2. CASE i < p
        <5>1. i \in 1..n /\ from[i] = i
          BY <2>1, <4>2
        <5>. QED  BY <5>1
      <4>3. CASE i > p
        <5>1. i - 1 \in 1..n /\ from[i - 1] = i
          BY <2>1, <4>3
        <5>. QED  BY <5>1
      <4>. QED  BY <2>1, <4>1, <4>2, <4>3
    <3>. QED  BY <2>1, <3>1
  <2>4. \A j \in 1..n : t[j] = es[from[j]]
    BY <2>1, <2>2
  <2>. HIDE DEF from
  <2>5. Held(t) = Held(es)
    <3>1. \A x : x \in Held(t) <=> \E j \in 1..n : x = t[j]
      BY <2>2 DEF Held
    <3>2. \A x : x \in Held(es) <=> \E j \in 1..n : x = es[j]
      BY DEF Held, n
    <3>3. ASSUME NEW x \in Held(t) PROVE x \in Held(es)
      <4>1. PICK j \in 1..n : x = t[j]
        BY <3>1
      <4>2. from[j] \in 1..n /\ x = es[from[j]]
        BY <2>3, <2>4, <4>1
      <4>. QED  BY <3>2, <4>2
    <3>4. ASSUME NEW x \in Held(es) PROVE x \in Held(t)
      <4>1. PICK i \in 1..n : x = es[i]
        BY <3>2
      <4>2. PICK j \in 1..n : from[j] = i
        BY <2>3
      <4>. QED  BY <2>4, <3>1, <4>1, <4>2
    <3>. QED  BY <3>3, <3>4, Zenon
  <2>6. KeysDistinct(t)
    <3>1. \A i, j \in 1..n : es[i].key = es[j].key => i = j
      BY DEF KeysDistinct, n
    <3>2. ASSUME NEW i \in 1..n, NEW j \in 1..n, t[i].key = t[j].key PROVE i = j
      <4>1. from[i] \in 1..n /\ from[j] \in 1..n /\ es[from[i]].key = es[from[j]].key
        BY <2>3, <2>4, <3>2, Zenon
      <4>2. from[i] = from[j]
        BY <3>1, <4>1
      <4>. QED  BY <2>3, <4>2
    <3>. QED  BY <2>2, <3>2 DEF KeysDistinct
  <2>. QED  BY <2>2, <2>5, <2>6 DEF n, t
<1>. QED  BY <1>1, <1>2

\* What cache_remove finds under a key that is held is given up, and nothing else.
LEMMA RemoveKeeps ==
    ASSUME NEW E, NEW es \in Seq(E), NEW e \in Held(es), KeysDistinct(es)
    PROVE  /\ cache_lookup(es, e.key) = {e.data}
           /\ cache_remove(es, e.key) \in Seq(E)
           /\ Len(cache_remove(es, e.key)) = Len(es) - 1
           /\ Held(cache_remove(es, e.key)) = Held(es) \ {e}
           /\ KeysDistinct(cache_remove(es, e.key))
<1>. DEFINE n == Len(es)
            p == HASH_FIND(es, e.key)
            w == Without(es, p)
            from == [j \in 1..(n - 1) |-> IF j < p THEN j ELSE j + 1]
<1>1. PICK i \in 1..n : es[i] = e
  BY DEF Held
<1>2. cache_key_exist(es, e.key) /\ n \in Nat
  BY <1>1, SeqLen DEF cache_key_exist, Holding
<1>3. p = i
  BY <1>1, <1>2, FindProperties DEF KeysDistinct
<1>4. /\ w \in Seq(E) /\ Len(w) = n - 1
      /\ \A j \in 1..(n - 1) : w[j] = IF j < p THEN es[j] ELSE es[j + 1]
  BY <1>3, WithoutProperties
<1>5. cache_remove(es, e.key) = w /\ cache_lookup(es, e.key) = {e.data}
  BY <1>1, <1>2, <1>3 DEF cache_remove, cache_lookup
<1>. HIDE DEF w, p, n
<1>6. /\ \A j \in 1..(n - 1) : from[j] \in (1..n) \ {p}
      /\ \A h, j \in 1..(n - 1) : from[h] = from[j] => h = j
  BY <1>1, <1>2, <1>3
<1>7. \A h \in (1..n) \ {p} : \E j \in 1..(n - 1) : from[j] = h
  <2>. TAKE h \in (1..n) \ {p}
  <2>1. CASE h < p
    <3>1. h \in 1..(n - 1) /\ from[h] = h
      BY <1>1, <1>2, <1>3, <2>1
    <3>. QED  BY <3>1
  <2>2. CASE h > p
    <3>1. h - 1 \in 1..(n - 1) /\ from[h - 1] = h
      BY <1>1, <1>2, <1>3, <2>2
    <3>. QED  BY <3>1
  <2>. QED  BY <1>1, <1>2, <1>3, <2>1, <2>2
<1>8. \A j \in 1..(n - 1) : w[j] = es[from[j]]
  BY <1>1, <1>2, <1>3, <1>4
<1>. HIDE DEF from
<1>9. \A h \in 1..n : es[h] = e <=> h = p
  BY <1>1, <1>3 DEF KeysDistinct, n
<1>10. Held(w) = Held(es) \ {e}
  <2>1. \A x : x \in Held(w) <=> \E j \in 1..(n - 1) : x = w[j]
    BY <1>4 DEF Held
  <2>2. \A x : x \in Held(es) <=> \E j \in 1..n : x = es[j]
    BY DEF Held, n
  <2>3. ASSUME NEW x \in Held(w) PROVE x \in Held(es) \ {e}
    <3>1. PICK j \in 1..(n - 1) : x = w[j]
      BY <2>1
    <3>2. from[j] \in 1..n /\ from[j] # p /\ x = es[from[j]]
      BY <1>6, <1>8, <3>1
    <3>. QED  BY <1>9, <2>2, <3>2
  <2>4. ASSUME NEW x \in Held(es), x # e PROVE x \in Held(w)
    <3>1. PICK h \in 1..n : x = es[h]
      BY <2>2
    <3>2. h \in (1..n) \ {p}
      BY <1>9, <2>4, <3>1
    <3>3. PICK j \in 1..(n - 1) : from[j] = h
      BY <1>7, <3>2
    <3>. QED  BY <1>8, <2>1, <3>1, <3>3
  <2>. QED  BY <2>3, <2>4
<1>11. KeysDistinct(w)
  <2>1. \A i1, j \in 1..n : es[i1].key = es[j].key => i1 = j
    BY DEF KeysDistinct, n
  <2>2. ASSUME NEW h \in 1..(n - 1), NEW j \in 1..(n - 1), w[h].key = w[j].key PROVE h = j
    <3>1. from[h] \in 1..n /\ from[j] \in 1..n /\ es[from[h]].key = es[from[j]].key
      BY <1>6, <1>8, <2>2, Zenon
    <3>2. from[h] = from[j]
      BY <2>1, <3>1, Zenon
    <3>. QED  BY <1>6, <3>2
  <2>. QED  BY <1>4, <2>2 DEF KeysDistinct
<1>. QED  BY <1>4, <1>5, <1>10, <1>11 DEF n

\* The entry that an insertion gives up.
Oldest(max, es) == IF Len(es) + 1 >= max THEN {es[1]} ELSE {}

\* An insertion adds its entry; of the others it gives up at most one, the datum of
\* which is what free_cb gets.
LEMMA InsertKeeps ==
    ASSUME NEW E, NEW es \in Seq(E), NEW k, NEW d, [key |-> k, data |-> d] \in E,
           NEW max \in Nat \ {0, 1}, Len(es) < max,
           KeysDistinct(es), ~cache_key_exist(es, k)
    PROVE  /\ cache_insert(max, es, k, d) \in Seq(E)
           /\ Len(cache_insert(max, es, k, d)) < max
           /\ KeysDistinct(cache_insert(max, es, k, d))
           /\ Oldest(max, es) \subseteq Held(es)
           /\ Held(cache_insert(max, es, k, d)) =
                 (Held(es) \ Oldest(max, es)) \cup {[key |-> k, data |-> d]}
           /\ \A x : x \in Evicted(max, es, k, d) <=> \E g \in Oldest(max, es) : x = g.data
<1>. DEFINE c == cache_insert(max, es, k, d)
            e == [key |-> k, data |-> d]
            n == Len(es)
<1>0. n \in Nat /\ e.key = k
  BY SeqLen
<1>1. /\ \A i, j \in 1..n : es[i].key = es[j].key => i = j
      /\ \A i \in 1..n : es[i].key # k
  BY SeqLen DEF KeysDistinct, cache_key_exist, Holding
<1>2. \A x : x \in Held(es) <=> \E j \in 1..n : x = es[j]
  BY Zenon DEF Held
<1>3. CASE n + 1 < max
  <2>1. c \in Seq(E) /\ Len(c) = n + 1 /\ c[n + 1] = e /\ \A j \in 1..n : c[j] = es[j]
    BY <1>3, InsertProperties
  <2>2. Evicted(max, es, k, d) = {} /\ Oldest(max, es) = {}
    BY <1>0, <1>3 DEF Evicted, Oldest
  <2>. HIDE DEF c, e, n
  <2>3. \A x : x \in Held(c) <=> \E j \in 1..(n + 1) : x = c[j]
    BY <2>1 DEF Held
  <2>4. Held(c) = (Held(es) \ {}) \cup {e}
    BY <1>0, <1>2, <2>1, <2>3
  <2>5. KeysDistinct(c)
    BY <1>0, <1>1, <2>1 DEF KeysDistinct
  <2>6. Len(c) < max
    BY <1>3, <2>1
  <2>. QED  BY <2>1, <2>2, <2>4, <2>5, <2>6, ZenonT(30) DEF c, e, n
<1>4. CASE n + 1 >= max
  <2>1. /\ c \in Seq(E) /\ Len(c) = n /\ n = max - 1 /\ c[n] = e
        /\ \A j \in 1..(n - 1) : c[j] = es[j + 1]
    BY <1>0, <1>4, InsertProperties
  <2>2. n >= 1
    BY <1>0, <1>4
  <2>3. Evicted(max, es, k, d) = {es[1].data} /\ Oldest(max, es) = {es[1]}
    BY <1>0, <1>4, <2>2 DEF Evicted, Oldest
  <2>. HIDE DEF c, e, n
  <2>4. \A x : x \in Held(c) <=> \E j \in 1..n : x = c[j]
    BY <2>1 DEF Held
  <2>5. es[1] \in Held(es) /\ \A j \in 1..n : es[j] = es[1] <=> j = 1
    BY <1>0, <1>1, <1>2, <2>2
  <2>6. Held(c) = (Held(es) \ {es[1]}) \cup {e}
    <3>1. ASSUME NEW x \in Held(c) PROVE x \in (Held(es) \ {es[1]}) \cup {e}
      <4>1. PICK j \in 1..n : x = c[j]
        BY <2>4
      <4>2. CASE j = n
        BY <2>1, <4>1, <4>2
      <4>3. CASE j < n
        <5>1. x = es[j + 1] /\ j + 1 \in 1..n /\ j + 1 # 1
          BY <1>0, <2>1, <4>1, <4>3
        <5>. QED  BY <1>2, <2>5, <5>1
      <4>. QED  BY <1>0, <4>2, <4>3
    <3>2. ASSUME NEW x \in Held(es), x # es[1] PROVE x \in Held(c)
      <4>1. PICK j \in 1..n : x = es[j]
        BY <1>2
      <4>2. j - 1 \in 1..(n - 1) /\ c[j - 1] = es[j] /\ j - 1 \in 1..n
        BY <1>0, <2>1, <3>2, <4>1
      <4>. QED  BY <2>4, <4>1, <4>2
    <3>3. e \in Held(c)
      BY <1>0, <2>1, <2>2, <2>4
    <3>. QED  BY <3>1, <3>2, <3>3
  <2>7. KeysDistinct(c)
    <3>1. ASSUME NEW i \in 1..n, NEW j \in 1..n, c[i].key = c[j].key, i # n, j # n PROVE i = j
      <4>1. i + 1 \in 1..n /\ j + 1 \in 1..n /\ i \in 1..(n - 1) /\ j \in 1..(n - 1)
        BY <1>0, <3>1
      <4>2. i + 1 = j + 1
        BY <1>1, <2>1, <3>1, <4>1, ZenonT(30)
      <4>. QED  BY <1>0, <4>2
    <3>2. ASSUME NEW i \in 1..n, c[i].key = k, i # n PROVE FALSE
      <4>1. i + 1 \in 1..n /\ i \in 1..(n - 1)
        BY <1>0, <3>2
      <4>. QED  BY <1>1, <2>1, <3>2, <4>1, Zenon
    <3>. QED  BY <1>0, <2>1, <3>1, <3>2, Zenon DEF KeysDistinct
  <2>8. Len(c) < max
    BY <2>1
  <2>9. \A x : x \in Evicted(max, es, k, d) <=> \E g \in Oldest(max, es) : x = g.data
    BY <2>3
  <2>. QED  BY <2>1, <2>3, <2>5, <2>6, <2>7, <2>8, <2>9, Zenon DEF c, e, n
<1>. QED  BY <1>0, <1>3, <1>4

-----------------------------------------------------------------------------
(* The UDP relay: its cache, its remotes and its watchers.                 *)

Keys == ({AF_UNSPEC} \cup Families) \X Srcs
CacheEntry == [key : Keys, data : Remotes]

\* The types of what the cache does not concern.
FrameOK ==
    /\ world \in Worlds /\ packets \in 0..world.packets
    /\ queries \in [Queries -> QueryCtx \cup {NULL}]
    /\ auth \in BOOLEAN
    /\ proc \in {"up", "down", "aborted"}

\* CacheMatches, of the entries as a set: every live remote has an entry under its
\* own key, every entry is of a live remote, and exactly these are watched.
CacheOK ==
    /\ remotes \in [Remotes -> RemoteCtx \cup {NULL}]
    /\ conn_cache \in Seq(CacheEntry)
    /\ Len(conn_cache) < MAX_UDP_CONN_NUM
    /\ KeysDistinct(conn_cache)
    /\ \A e \in Held(conn_cache) :
          /\ remotes[e.data] # NULL
          /\ e.key = hash_key(remotes[e.data])
          /\ remotes[e.data].af \in {AF_UNSPEC, remotes[e.data].sock}
    /\ \A id \in Remotes : Live(id) => \E e \in Held(conn_cache) : e.data = id
    /\ watching = {id \in Remotes : Live(id)}

\* An entry, and the place it has.
LEMMA HeldEntries ==
    ASSUME NEW es \in Seq(CacheEntry)
    PROVE  /\ Len(es) \in Nat /\ DOMAIN es = 1..Len(es)
           /\ \A e \in Held(es) : e \in CacheEntry /\ \E i \in 1..Len(es) : e = es[i]
           /\ \A i \in 1..Len(es) : es[i] \in Held(es)
<1>1. Len(es) \in Nat /\ DOMAIN es = 1..Len(es)
  BY SeqLen
<1>2. \A i \in 1..Len(es) : es[i] \in CacheEntry
  BY SeqElement
<1>. QED  BY <1>1, <1>2 DEF Held

\* With distinct keys an entry is known by its key.
LEMMA SameKey ==
    ASSUME NEW es \in Seq(CacheEntry), KeysDistinct(es),
           NEW e \in Held(es), NEW f \in Held(es), e.key = f.key
    PROVE  e = f
<1>1. PICK i \in 1..Len(es) : e = es[i]
  BY HeldEntries
<1>2. PICK j \in 1..Len(es) : f = es[j]
  BY HeldEntries
<1>. QED  BY <1>1, <1>2 DEF KeysDistinct

\* The remotes with an entry are distinct: an entry is known by its datum.
LEMMA SameData ==
    ASSUME CacheOK, NEW e \in Held(conn_cache), NEW f \in Held(conn_cache), e.data = f.data
    PROVE  e = f
BY SameKey DEF CacheOK

\* The cache agrees with the remotes after a step that keeps the entries, and the
\* key and the socket of every remote.
LEMMA CacheSame ==
    ASSUME CacheOK,
           conn_cache' \in Seq(CacheEntry), Len(conn_cache') = Len(conn_cache),
           Held(conn_cache') = Held(conn_cache), KeysDistinct(conn_cache'),
           watching' = watching, remotes' \in [Remotes -> RemoteCtx \cup {NULL}],
           \A id \in Remotes : remotes'[id] = NULL <=> remotes[id] = NULL,
           \A id \in Remotes : remotes[id] # NULL =>
               /\ remotes'[id].af = remotes[id].af /\ remotes'[id].src = remotes[id].src
               /\ remotes'[id].sock = remotes[id].sock
    PROVE  CacheOK'
<1>1. \A e \in Held(conn_cache) : e.data \in Remotes
  BY HeldEntries, ZenonT(30) DEF CacheOK, CacheEntry
<1>2. \A e \in Held(conn_cache') :
        /\ remotes'[e.data] # NULL
        /\ e.key = hash_key(remotes'[e.data])
        /\ remotes'[e.data].af \in {AF_UNSPEC, remotes'[e.data].sock}
  BY <1>1, Zenon DEF CacheOK, hash_key
<1>3. \A id \in Remotes : remotes'[id] # NULL => \E e \in Held(conn_cache') : e.data = id
  BY Zenon DEF CacheOK, Live
<1>4. watching' = {id \in Remotes : remotes'[id] # NULL}
  BY Zenon DEF CacheOK, Live
<1>5. Len(conn_cache') < MAX_UDP_CONN_NUM
  BY DEF CacheOK
<1>. QED  BY <1>2, <1>3, <1>4, <1>5, Zenon DEF CacheOK, Live

\* cache_lookup, hit or miss, and a step that leaves the remotes alone.
LEMMA TouchStep ==
    ASSUME CacheOK, NEW k, conn_cache' = touch(conn_cache, k), UNCHANGED <<remotes, watching>>
    PROVE  CacheOK'
<1>1. /\ conn_cache' \in Seq(CacheEntry) /\ Len(conn_cache') = Len(conn_cache)
      /\ Held(conn_cache') = Held(conn_cache) /\ KeysDistinct(conn_cache')
  BY TouchKeeps, Zenon DEF CacheOK
<1>2. remotes' \in [Remotes -> RemoteCtx \cup {NULL}]
  BY DEF CacheOK
<1>. QED  BY <1>1, <1>2, CacheSame, Zenon

\* A step that changes neither the cache nor a remote.
LEMMA IdleStep ==
    ASSUME CacheOK, UNCHANGED <<remotes, conn_cache, watching>>
    PROVE  CacheOK'
<1>1. Held(conn_cache') = Held(conn_cache) /\ KeysDistinct(conn_cache')
  BY DEF CacheOK, Held, KeysDistinct
<1>. QED  BY <1>1, CacheSame, Zenon DEF CacheOK

\* The remotes in out are released, with their entries.
LEMMA ReleaseStep ==
    ASSUME CacheOK, NEW out,
           conn_cache' \in Seq(CacheEntry), Len(conn_cache') <= Len(conn_cache),
           KeysDistinct(conn_cache'),
           \A e : e \in Held(conn_cache') <=> e \in Held(conn_cache) /\ e.data \notin out,
           remotes' = [i \in Remotes |-> IF i \in out THEN NULL ELSE remotes[i]],
           watching' = watching \ out
    PROVE  CacheOK'
<1>0. Len(conn_cache) \in Nat /\ Len(conn_cache') \in Nat
  BY SeqLen, Zenon DEF CacheOK
<1>1. \A e \in Held(conn_cache) : e.data \in Remotes
  BY HeldEntries, ZenonT(30) DEF CacheOK, CacheEntry
<1>2. remotes' \in [Remotes -> RemoteCtx \cup {NULL}]
  BY Zenon DEF CacheOK
<1>3. \A e \in Held(conn_cache') : e \in Held(conn_cache) /\ remotes'[e.data] = remotes[e.data]
  BY <1>1
<1>4. \A e \in Held(conn_cache') :
        /\ remotes'[e.data] # NULL
        /\ e.key = hash_key(remotes'[e.data])
        /\ remotes'[e.data].af \in {AF_UNSPEC, remotes'[e.data].sock}
  BY <1>3, Zenon DEF CacheOK
<1>5. \A id \in Remotes : remotes'[id] # NULL => id \notin out /\ remotes[id] # NULL
  OBVIOUS
<1>6. \A id \in Remotes : remotes'[id] # NULL => \E e \in Held(conn_cache') : e.data = id
  BY <1>5, Zenon DEF CacheOK, Live
<1>7. watching' = {id \in Remotes : remotes'[id] # NULL}
  BY Zenon DEF CacheOK, Live
<1>8. Len(conn_cache') < MAX_UDP_CONN_NUM
  BY <1>0, UdpAssumption DEF CacheOK
<1>. QED  BY <1>2, <1>4, <1>6, <1>7, <1>8, Zenon DEF CacheOK, Live

\* A remote that was set up is cached and watched; the one given up for it is released.
LEMMA StoreStep ==
    ASSUME CacheOK, NEW id \in Remotes, NEW r \in RemoteCtx, r.af \in {AF_UNSPEC, r.sock},
           cache_lookup(conn_cache, <<r.af, r.src>>) = {}, Store(id, r)
    PROVE  CacheOK'
<1>. DEFINE key == <<r.af, r.src>>
            e == [key |-> key, data |-> id]
            out == Evicted(MAX_UDP_CONN_NUM, conn_cache, key, id)
            held == Held(conn_cache)
            gone == Oldest(MAX_UDP_CONN_NUM, conn_cache)
<1>1. /\ ~Live(id)
      /\ conn_cache' = cache_insert(MAX_UDP_CONN_NUM, conn_cache, key, id)
      /\ remotes' = [i \in Remotes |-> IF i \in out THEN NULL ELSE IF i = id THEN r ELSE remotes[i]]
      /\ watching' = (watching \cup {id}) \ out
  BY Zenon DEF Store, close_and_free_remote
<1>2. e \in CacheEntry /\ e.key = key /\ e.data = id /\ key = hash_key(r) /\ r # NULL
  BY UdpAssumption, Zenon DEF CacheEntry, Keys, RemoteCtx, hash_key
<1>3. ~cache_key_exist(conn_cache, key)
  BY Zenon DEF cache_lookup
<1>3a. /\ conn_cache \in Seq(CacheEntry) /\ Len(conn_cache) < MAX_UDP_CONN_NUM
       /\ KeysDistinct(conn_cache) /\ MAX_UDP_CONN_NUM \in Nat \ {0, 1}
  BY UdpAssumption, Zenon DEF CacheOK
<1>4. /\ conn_cache' \in Seq(CacheEntry) /\ Len(conn_cache') < MAX_UDP_CONN_NUM
      /\ KeysDistinct(conn_cache')
      /\ gone \subseteq held /\ Held(conn_cache') = (held \ gone) \cup {e}
      /\ \A x : x \in out <=> \E g \in gone : x = g.data
  <2>. HIDE DEF key
  <2>1. [key |-> key, data |-> id] \in CacheEntry
    BY <1>2, ZenonT(30)
  <2>2. LET c == cache_insert(MAX_UDP_CONN_NUM, conn_cache, key, id)
        IN  /\ c \in Seq(CacheEntry) /\ Len(c) < MAX_UDP_CONN_NUM /\ KeysDistinct(c)
            /\ gone \subseteq held
            /\ Held(c) = (held \ gone) \cup {[key |-> key, data |-> id]}
            /\ \A x : x \in out <=> \E g \in gone : x = g.data
    BY <1>3, <1>3a, <2>1, InsertKeeps
  <2>. QED  BY <1>1, <2>2, Zenon
<1>. HIDE DEF e, out, held, key, gone
<1>6. \A f \in held : f.data \in Remotes /\ f.data # id
  BY <1>1, HeldEntries, Zenon DEF CacheOK, CacheEntry, Live, held
<1>7. \A f \in held : f.data \in out => f \in gone
  <2>. SUFFICES ASSUME NEW f \in held, f.data \in out PROVE f \in gone
    BY Zenon
  <2>1. PICK g \in gone : f.data = g.data
    BY <1>4, Zenon
  <2>. QED  BY <1>4, <2>1, SameData, Zenon DEF held
<1>8. id \notin out
  BY <1>4, <1>6, Zenon
<1>9. remotes' \in [Remotes -> RemoteCtx \cup {NULL}]
  BY <1>1, Zenon DEF CacheOK
<1>10. remotes'[id] = r /\ \A i \in Remotes : i # id /\ i \notin out => remotes'[i] = remotes[i]
  BY <1>1, <1>8, Zenon
<1>11. ASSUME NEW f \in Held(conn_cache')
       PROVE  /\ remotes'[f.data] # NULL
              /\ f.key = hash_key(remotes'[f.data])
              /\ remotes'[f.data].af \in {AF_UNSPEC, remotes'[f.data].sock}
  <2>1. CASE f = e
    BY <1>2, <1>10, <2>1, Zenon
  <2>2. CASE f # e
    <3>1. f \in held /\ f \notin gone
      BY <1>4, <2>2, Zenon
    <3>2. remotes'[f.data] = remotes[f.data]
      BY <1>6, <1>7, <1>10, <3>1, Zenon
    <3>. QED  BY <3>1, <3>2, Zenon DEF CacheOK, held
  <2>. QED  BY <2>1, <2>2, Zenon
<1>12. ASSUME NEW i \in Remotes, remotes'[i] # NULL
       PROVE  \E f \in Held(conn_cache') : f.data = i
  <2>1. CASE i = id
    BY <1>2, <1>4, <2>1, Zenon
  <2>2. CASE i # id
    <3>1. i \notin out /\ remotes[i] # NULL
      BY <1>1, <1>12, <2>2, Zenon
    <3>2. PICK f \in held : f.data = i
      BY <3>1, Zenon DEF CacheOK, Live, held
    <3>. QED  BY <1>4, <3>1, <3>2, Zenon
  <2>. QED  BY <2>1, <2>2, Zenon
<1>13. watching' = {i \in Remotes : remotes'[i] # NULL}
  <2>1. watching = {i \in Remotes : remotes[i] # NULL}
    BY Zenon DEF CacheOK, Live
  <2>. QED  BY <1>1, <1>2, <1>8, <2>1, Zenon
<1>. QED  BY <1>4, <1>9, <1>11, <1>12, <1>13, Zenon DEF CacheOK, Live

\* The remote whose timer went off is released, and no other.
LEMMA TimeoutStep ==
    ASSUME CacheOK, NEW id \in Remotes, remote_timeout_cb(id)
    PROVE  CacheOK'
<1>. DEFINE key == hash_key(remotes[id])
            out == cache_lookup(conn_cache, key)
<1>1. Live(id)
  BY Zenon DEF CacheOK, remote_timeout_cb
<1>2. PICK e \in Held(conn_cache) : e.data = id
  BY <1>1, Zenon DEF CacheOK
<1>3. e.key = key
  BY <1>2, Zenon DEF CacheOK
<1>3a. conn_cache \in Seq(CacheEntry) /\ KeysDistinct(conn_cache)
  BY Zenon DEF CacheOK
<1>4. /\ out = {id} /\ cache_remove(conn_cache, key) \in Seq(CacheEntry)
      /\ Len(cache_remove(conn_cache, key)) = Len(conn_cache) - 1
      /\ Held(cache_remove(conn_cache, key)) = Held(conn_cache) \ {e}
      /\ KeysDistinct(cache_remove(conn_cache, key))
  BY <1>2, <1>3, <1>3a, RemoveKeeps, ZenonT(30)
<1>5. /\ conn_cache' = cache_remove(conn_cache, key)
      /\ remotes' = [i \in Remotes |-> IF i \in out THEN NULL ELSE remotes[i]]
      /\ watching' = watching \ out
  BY DEF remote_timeout_cb, close_and_free_remote
<1>6. \A f \in Held(conn_cache) : f.data \in out <=> f = e
  BY <1>2, <1>4, SameData, Zenon
<1>7. Len(conn_cache) \in Nat
  BY SeqLen, Zenon DEF CacheOK
<1>. HIDE DEF out, key
<1>8. Len(conn_cache') <= Len(conn_cache)
  BY <1>4, <1>5, <1>7
<1>9. \A f : f \in Held(conn_cache') <=> f \in Held(conn_cache) /\ f.data \notin out
  BY <1>4, <1>5, <1>6, Zenon
<1>. QED  BY <1>4, <1>5, <1>8, <1>9, ReleaseStep, Zenon

\* free_udprelay releases every remote.
LEMMA FreeStep ==
    ASSUME CacheOK, free_udprelay
    PROVE  CacheOK'
<1>. DEFINE out == {conn_cache[i].data : i \in DOMAIN conn_cache}
<1>1. /\ conn_cache' = <<>>
      /\ remotes' = [i \in Remotes |-> IF i \in out THEN NULL ELSE remotes[i]]
      /\ watching' = watching \ out
  BY DEF free_udprelay, close_and_free_remote
<1>2. /\ <<>> \in Seq(CacheEntry) /\ Len(<<>>) = 0 /\ Held(<<>>) = {} /\ KeysDistinct(<<>>)
  BY DEF Held, KeysDistinct
<1>3. Len(conn_cache) \in Nat /\ \A e \in Held(conn_cache) : e.data \in out
  BY HeldEntries DEF CacheOK
<1>. HIDE DEF out
<1>4. Len(conn_cache') <= Len(conn_cache)
  BY <1>1, <1>2, <1>3
<1>5. \A f : f \in Held(conn_cache') <=> f \in Held(conn_cache) /\ f.data \notin out
  BY <1>1, <1>2, <1>3
<1>. QED  BY <1>1, <1>2, <1>4, <1>5, ReleaseStep, Zenon

\* What cache_lookup finds is a remote that exists, with the key looked up.
LEMMA LookupFinds ==
    ASSUME CacheOK, NEW k, NEW id \in cache_lookup(conn_cache, k)
    PROVE  id \in Remotes /\ Live(id) /\ hash_key(remotes[id]) = k
<1>. DEFINE p == HASH_FIND(conn_cache, k)
<1>1. conn_cache \in Seq(CacheEntry) /\ Len(conn_cache) \in Nat /\ DOMAIN conn_cache = 1..Len(conn_cache)
  BY HeldEntries, Zenon DEF CacheOK
<1>2. cache_key_exist(conn_cache, k) /\ id = conn_cache[p].data
  BY DEF cache_lookup
<1>3. \A i, j \in 1..Len(conn_cache) : conn_cache[i].key = conn_cache[j].key => i = j
  BY <1>1, Zenon DEF CacheOK, KeysDistinct
<1>4. p \in 1..Len(conn_cache) /\ conn_cache[p].key = k
  BY <1>1, <1>2, <1>3, FindProperties, Zenon
<1>. HIDE DEF p
<1>5. conn_cache[p] \in Held(conn_cache) /\ conn_cache[p] \in CacheEntry
  BY <1>1, <1>4, HeldEntries
<1>. QED  BY <1>2, <1>4, <1>5, Zenon DEF CacheOK, CacheEntry, Live

\* The families, and what a header is parsed to.
LEMMA FamilyTypes ==
    /\ \A a \in Addrs : FamilyOf[a] \in Families /\ Family(a) = FamilyOf[a]
    /\ \A n \in Names : Family(n) = AF_UNSPEC
BY UdpAssumption, Zenon DEF Families, Family

\* Every step keeps what is outside the cache in its type.
LEMMA FrameStep ==
    ASSUME FrameOK, CacheOK, Next
    PROVE  FrameOK'
<1>1. world' = world /\ world \in Worlds /\ world.packets \in Nat /\ world.otas \subseteq BOOLEAN
  BY UdpAssumption, Zenon DEF Next, FrameOK
<1>2. ASSUME NEW q \in Queries, Answer(q) PROVE queries' \in [Queries -> QueryCtx \cup {NULL}]
  BY <1>2 DEF Answer, FrameOK
<1>3. ASSUME Received PROVE packets' \in 0..world.packets
  BY <1>1, <1>3 DEF Received, FrameOK
<1>4. CASE RecvUndecryptable
  BY <1>1, <1>3, <1>4 DEF RecvUndecryptable, FrameOK
<1>5. ASSUME NEW ota \in world.otas, RecvBadHeader(ota) PROVE FrameOK'
  BY <1>1, <1>3, <1>5, Zenon DEF RecvBadHeader, FrameOK
<1>6. ASSUME NEW src \in Srcs, NEW d \in world.dests, NEW ota \in world.otas,
             RecvHit(src, d, ota) \/ RecvMiss(src, d, ota)
      PROVE  FrameOK'
  BY <1>1, <1>3, <1>6, Zenon DEF RecvHit, RecvMiss, Recv, FrameOK
<1>7. ASSUME NEW src \in Srcs, NEW d \in world.dests, NEW ota \in world.otas,
             RecvName(src, d, ota)
      PROVE  FrameOK'
  <2>1. PICK id \in Remotes \cup {NULL} : Lookup(src, d, ota, id)
    BY <1>7, LookupFinds, Zenon DEF RecvName
  <2>2. PICK q \in Queries, submitted \in BOOLEAN :
          queries' = [queries EXCEPT ![q] =
             [src |-> src, header |-> <<d, ota>>, remote |-> id, submitted |-> submitted]]
    BY <2>1, Zenon DEF Lookup
  <2>3. [src |-> src, header |-> <<d, ota>>, remote |-> id, submitted |-> submitted] \in QueryCtx
    BY <1>1, <1>7, Zenon DEF QueryCtx, Headers, RecvName
  <2>4. queries' \in [Queries -> QueryCtx \cup {NULL}]
    BY <2>2, <2>3 DEF FrameOK
  <2>. QED  BY <1>1, <1>3, <1>7, <2>4, Zenon DEF RecvName, Recv, FrameOK
<1>8. ASSUME NEW q \in Queries, query_resolve_cb(q) PROVE FrameOK'
  <2>1. Answer(q) /\ (UNCHANGED proc \/ proc' \in {"up", "aborted"})
    BY <1>8 DEF query_resolve_cb, ResolveNothing, ResolveStale, ResolveHit, ResolveMiss
  <2>. QED  BY <1>1, <1>2, <2>1, Zenon DEF Answer, FrameOK
<1>9. ASSUME NEW src \in Srcs, NEW ota \in world.otas, LocalHit(src, ota) \/ LocalMiss(src, ota)
      PROVE  FrameOK'
  BY <1>1, <1>3, <1>9, Zenon DEF LocalHit, LocalMiss, Recv_local, Encrypted, FrameOK
<1>10. ASSUME NEW id \in Remotes, remote_recv_cb(id) PROVE FrameOK'
  BY <1>1, <1>10, Zenon DEF remote_recv_cb, RemoteRecvOther, RemoteRecv, FrameOK
<1>11. ASSUME NEW id \in Remotes, remote_timeout_cb(id) PROVE FrameOK'
  BY <1>1, <1>11, Zenon DEF remote_timeout_cb, FrameOK
<1>12. CASE free_udprelay
  BY <1>1, <1>12, Zenon DEF free_udprelay, FrameOK
<1>. QED  BY <1>4, <1>5, <1>6, <1>7, <1>8, <1>9, <1>10, <1>11, <1>12, Zenon DEF Next, Step

\* Every step keeps the cache in agreement with the remotes.
LEMMA CacheStep ==
    ASSUME FrameOK, CacheOK, Next
    PROVE  CacheOK'
<1>1. world \in Worlds /\ world.otas \subseteq BOOLEAN /\ world.dests \subseteq Addrs \cup Names
  BY UdpAssumption, Zenon DEF FrameOK
<1>2. CASE RecvUndecryptable
  BY <1>2, IdleStep DEF RecvUndecryptable
<1>3. ASSUME NEW ota \in world.otas, RecvBadHeader(ota) PROVE CacheOK'
  BY <1>3, IdleStep DEF RecvBadHeader
<1>4. ASSUME NEW src \in Srcs, NEW d \in world.dests, NEW ota \in world.otas, RecvHit(src, d, ota)
      PROVE  CacheOK'
  BY <1>4, TouchStep, Zenon DEF RecvHit
<1>5. ASSUME NEW src \in Srcs, NEW d \in world.dests, NEW ota \in world.otas, RecvMiss(src, d, ota)
      PROVE  CacheOK'
  <2>1. CASE UNCHANGED <<remotes, conn_cache, watching>>
    BY <2>1, IdleStep
  <2>2. ASSUME NEW id \in Remotes,
               Store(id, new_remote(src, Family(d), <<d, ota>>, d, FamilyOf[d]))
        PROVE  CacheOK'
    <3>. DEFINE r == new_remote(src, Family(d), <<d, ota>>, d, FamilyOf[d])
    <3>1. /\ r \in RemoteCtx /\ r.af \in {AF_UNSPEC, r.sock}
          /\ <<r.af, r.src>> = <<Family(d), src>>
      BY <1>1, <1>5, FamilyTypes, Zenon DEF RecvMiss, new_remote, RemoteCtx, Headers
    <3>2. cache_lookup(conn_cache, <<r.af, r.src>>) = {}
      BY <1>5, <3>1, Zenon DEF RecvMiss
    <3>. HIDE DEF r
    <3>3. Store(id, r)
      BY <2>2, Zenon DEF r
    <3>. QED  BY <3>1, <3>2, <3>3, StoreStep, Zenon
  <2>. QED  BY <1>5, <2>1, <2>2, Zenon DEF RecvMiss
<1>6. ASSUME NEW src \in Srcs, NEW d \in world.dests, NEW ota \in world.otas, RecvName(src, d, ota)
      PROVE  CacheOK'
  BY <1>6, TouchStep, Zenon DEF RecvName
<1>7. ASSUME NEW q \in Queries, query_resolve_cb(q) PROVE CacheOK'
  <2>1. queries[q] # NULL /\ queries[q] \in QueryCtx
    BY <1>7 DEF query_resolve_cb, ResolveNothing, ResolveStale, ResolveHit, ResolveMiss, Answer, FrameOK
  <2>2. /\ queries[q].src \in Srcs /\ queries[q].header \in Headers(Names)
        /\ queries[q].remote \in Remotes \cup {NULL}
        /\ Resolves[queries[q].header[1]] \subseteq Addrs
    BY <2>1, UdpAssumption, Zenon DEF QueryCtx, Headers
  <2>3. CASE ResolveNothing(q) \/ ResolveStale(q)
    BY <2>3, IdleStep DEF ResolveNothing, ResolveStale
  <2>4. ASSUME NEW a \in Addrs, ResolveHit(q, a) PROVE CacheOK'
    <3>1. PICK id \in Found(q) : Live(id) /\ remotes' = [remotes EXCEPT ![id].dst = a]
      BY <2>4, Zenon DEF ResolveHit
    <3>2. id \in Remotes
      BY <2>2, <3>1, LookupFinds DEF Found
    <3>3. remotes[id] \in RemoteCtx
      BY <3>1, <3>2 DEF CacheOK, Live
    <3>4. [remotes[id] EXCEPT !.dst = a] \in RemoteCtx
      BY <3>3 DEF RemoteCtx
    <3>5. remotes' = [remotes EXCEPT ![id] = [remotes[id] EXCEPT !.dst = a]]
      BY <3>1
    <3>6. /\ remotes' \in [Remotes -> RemoteCtx \cup {NULL}]
          /\ \A i \in Remotes : remotes'[i] = NULL <=> remotes[i] = NULL
      BY <3>1, <3>2, <3>4, <3>5, UdpAssumption DEF CacheOK, Live
    <3>7. \A i \in Remotes : remotes[i] # NULL =>
            /\ remotes'[i].af = remotes[i].af /\ remotes'[i].src = remotes[i].src
            /\ remotes'[i].sock = remotes[i].sock
      BY <3>2, <3>3, <3>5 DEF CacheOK, RemoteCtx
    <3>8. /\ conn_cache' \in Seq(CacheEntry) /\ Len(conn_cache') = Len(conn_cache)
          /\ Held(conn_cache') = Held(conn_cache) /\ KeysDistinct(conn_cache')
      <4>1. conn_cache \in Seq(CacheEntry) /\ KeysDistinct(conn_cache)
        BY Zenon DEF CacheOK
      <4>2. conn_cache' = conn_cache \/ conn_cache' = touch(conn_cache, <<AF_UNSPEC, queries[q].src>>)
        BY <2>4 DEF ResolveHit, Looked
      <4>. QED  BY <4>1, <4>2, TouchKeeps, ZenonT(30)
    <3>9. watching' = watching
      BY <2>4 DEF ResolveHit
    <3>. QED  BY <3>6, <3>7, <3>8, <3>9, CacheSame, Zenon
  <2>5. ASSUME NEW a \in Addrs, ResolveMiss(q, a) PROVE CacheOK'
    <3>1. CASE UNCHANGED <<remotes, conn_cache, watching>>
      BY <3>1, IdleStep
    <3>2. ASSUME NEW id \in Remotes,
                 Store(id, new_remote(queries[q].src, AF_UNSPEC, queries[q].header, a, FamilyOf[a]))
          PROVE  CacheOK'
      <4>. DEFINE r == new_remote(queries[q].src, AF_UNSPEC, queries[q].header, a, FamilyOf[a])
      <4>1. /\ r \in RemoteCtx /\ r.af \in {AF_UNSPEC, r.sock}
            /\ <<r.af, r.src>> = <<AF_UNSPEC, queries[q].src>>
        BY <2>2, FamilyTypes, Zenon DEF new_remote, RemoteCtx, Headers
      <4>2. cache_lookup(conn_cache, <<r.af, r.src>>) = {}
        BY <2>5, <4>1, Zenon DEF ResolveMiss, Found
      <4>. HIDE DEF r
      <4>3. Store(id, r)
        BY <3>2 DEF r
      <4>. QED  BY <4>1, <4>2, <4>3, StoreStep, Zenon
    <3>. QED  BY <2>5, <3>1, <3>2, Zenon DEF ResolveMiss
  <2>. QED  BY <1>7, <2>1, <2>2, <2>3, <2>4, <2>5, Zenon DEF query_resolve_cb
<1>8. ASSUME NEW src \in Srcs, NEW ota \in world.otas, LocalHit(src, ota) PROVE CacheOK'
  BY <1>8, TouchStep, Zenon DEF LocalHit
<1>9. ASSUME NEW src \in Srcs, NEW ota \in world.otas, LocalMiss(src, ota) PROVE CacheOK'
  <2>. DEFINE af == FamilyOf[REMOTE_ADDR]
  <2>1. CASE UNCHANGED <<remotes, conn_cache, watching>>
    BY <2>1, IdleStep, Zenon
  <2>2. ASSUME NEW id \in Remotes, Store(id, new_remote(src, af, <<REMOTE_ADDR, ota>>, NULL, af))
        PROVE  CacheOK'
    <3>. DEFINE r == new_remote(src, af, <<REMOTE_ADDR, ota>>, NULL, af)
    <3>1. /\ r \in RemoteCtx /\ r.af \in {AF_UNSPEC, r.sock} /\ <<r.af, r.src>> = <<af, src>>
      BY <1>1, UdpAssumption, FamilyTypes, Zenon DEF new_remote, RemoteCtx, Headers
    <3>2. cache_lookup(conn_cache, <<r.af, r.src>>) = {}
      BY <1>9, <3>1, Zenon DEF LocalMiss
    <3>. HIDE DEF r
    <3>3. Store(id, r)
      BY <2>2, Zenon DEF r
    <3>. QED  BY <3>1, <3>2, <3>3, StoreStep, Zenon
  <2>. QED  BY <1>9, <2>1, <2>2, Zenon DEF LocalMiss
<1>10. ASSUME NEW id \in Remotes, remote_recv_cb(id) PROVE CacheOK'
  BY <1>10, IdleStep DEF remote_recv_cb
<1>11. ASSUME NEW id \in Remotes, remote_timeout_cb(id) PROVE CacheOK'
  BY <1>11, TimeoutStep
<1>12. CASE free_udprelay
  BY <1>12, FreeStep
<1>. QED  BY <1>2, <1>3, <1>4, <1>5, <1>6, <1>7, <1>8, <1>9, <1>10, <1>11, <1>12, Zenon DEF Next, Step

\* The relay's types and its cache, in every state.
UdpInv == FrameOK /\ CacheOK

LEMMA UdpInvHolds == Spec => []UdpInv
<1>1. Init => UdpInv
  <2>. SUFFICES ASSUME Init PROVE UdpInv
    OBVIOUS
  <2>1. FrameOK
    BY UdpAssumption DEF Init, FrameOK
  <2>2. conn_cache \in Seq(CacheEntry) /\ Len(conn_cache) = 0 /\ Held(conn_cache) = {}
    BY DEF Init, Held
  <2>3. remotes \in [Remotes -> RemoteCtx \cup {NULL}] /\ \A id \in Remotes : remotes[id] = NULL
    BY DEF Init
  <2>4. KeysDistinct(conn_cache) /\ watching = {}
    BY <2>2 DEF Init, KeysDistinct
  <2>. QED  BY <2>1, <2>2, <2>3, <2>4, UdpAssumption DEF UdpInv, CacheOK, Live
<1>2. UdpInv /\ [Next]_vars => UdpInv'
  <2>. SUFFICES ASSUME UdpInv, [Next]_vars PROVE UdpInv'
    OBVIOUS
  <2>1. CASE Next
    BY <2>1, FrameStep, CacheStep, Zenon DEF UdpInv
  <2>2. CASE UNCHANGED vars
    <3>1. FrameOK'
      BY <2>2 DEF UdpInv, FrameOK, vars
    <3>2. CacheOK'
      BY <2>2, IdleStep DEF UdpInv, vars
    <3>. QED  BY <3>1, <3>2 DEF UdpInv
  <2>. QED  BY <2>1, <2>2
<1>. QED  BY <1>1, <1>2, PTL DEF Spec

\* Every variable of the relay has its type, for every capacity of the cache, every
\* number of clients, destinations and lookups.
THEOREM UdpTypesHold == Spec => []TypeOK
<1>1. UdpInv => TypeOK
  BY Zenon DEF UdpInv, FrameOK, CacheOK, TypeOK, Entries, CacheEntry, Keys
<1>. QED  BY <1>1, UdpInvHolds, PTL

\* conn_cache holds exactly the remotes that exist, each once and under its own key,
\* and exactly these are watched (server_recv_cb, query_resolve_cb, remote_timeout_cb
\* and free_udprelay of udprelay.c, over cache_lookup, cache_insert and cache_remove).
THEOREM CacheMatchesHolds == Spec => []CacheMatches
<1>1. UdpInv => CacheMatches
  <2>. SUFFICES ASSUME UdpInv PROVE CacheMatches
    OBVIOUS
  <2>1. /\ conn_cache \in Seq(CacheEntry) /\ KeysDistinct(conn_cache)
        /\ Len(conn_cache) < MAX_UDP_CONN_NUM /\ watching = {id \in Remotes : Live(id)}
        /\ \A id \in Remotes : Live(id) => \E e \in Held(conn_cache) : e.data = id
    BY Zenon DEF UdpInv, CacheOK
  <2>2. /\ DOMAIN conn_cache = 1..Len(conn_cache)
        /\ \A i \in DOMAIN conn_cache : conn_cache[i] \in Held(conn_cache) /\ conn_cache[i] \in CacheEntry
        /\ \A e \in Held(conn_cache) : \E i \in DOMAIN conn_cache : e = conn_cache[i]
    BY <2>1, HeldEntries
  <2>3. \A i \in DOMAIN conn_cache :
          LET r == remotes[conn_cache[i].data]
          IN  r # NULL /\ conn_cache[i].key = <<r.af, r.src>> /\ r.af \in {AF_UNSPEC, r.sock}
    BY <2>2, Zenon DEF UdpInv, CacheOK, hash_key
  <2>4. ASSUME NEW id \in Remotes, Live(id) PROVE \E i \in DOMAIN conn_cache : id = conn_cache[i].data
    BY <2>1, <2>2, <2>4
  <2>5. ASSUME NEW i \in DOMAIN conn_cache PROVE conn_cache[i].data \in Remotes /\ Live(conn_cache[i].data)
    BY <2>2, <2>3, Zenon DEF CacheEntry, Live
  <2>6. {id \in Remotes : Live(id)} = {conn_cache[i].data : i \in DOMAIN conn_cache}
    BY <2>4, <2>5, Zenon
  <2>7. \A i, j \in DOMAIN conn_cache : conn_cache[i].key = conn_cache[j].key => i = j
    BY <2>1, <2>2 DEF KeysDistinct
  <2>. QED  BY <2>1, <2>3, <2>6, <2>7, Zenon DEF CacheMatches
<1>. QED  BY <1>1, UdpInvHolds, PTL

-----------------------------------------------------------------------------

\* Without names there is no lookup, every remote of ss-server is for an address and
\* still has the destination it was made for, and what was relayed went there.
Plain ==
    world.dests \subseteq Addrs =>
        /\ \A q \in Queries : queries[q] = NULL
        /\ world.module = "remote" =>
              \A id \in Remotes : Live(id) =>
                  remotes[id].af # AF_UNSPEC /\ remotes[id].dst = remotes[id].header[1]
        /\ Routed

\* Every step keeps it.
LEMMA PlainStep ==
    ASSUME UdpInv, Plain, Next
    PROVE  Plain'
<1>. SUFFICES ASSUME world.dests \subseteq Addrs
              PROVE  /\ \A q \in Queries : queries'[q] = NULL
                     /\ world.module = "remote" =>
                           \A id \in Remotes : remotes'[id] # NULL =>
                               remotes'[id].af # AF_UNSPEC /\ remotes'[id].dst = remotes'[id].header[1]
                     /\ Routed'
  BY Zenon DEF Next, Plain, Live
<1>. DEFINE Kept == /\ UNCHANGED <<queries, last>>
                    /\ \A id \in Remotes : remotes'[id] # NULL => remotes'[id] = remotes[id]
<1>1. /\ \A q \in Queries : queries[q] = NULL
      /\ world.module = "remote" =>
            \A id \in Remotes : remotes[id] # NULL =>
                remotes[id].af # AF_UNSPEC /\ remotes[id].dst = remotes[id].header[1]
      /\ Routed
  BY Zenon DEF Plain, Live
<1>2. ASSUME Kept
      PROVE  /\ \A q \in Queries : queries'[q] = NULL
             /\ world.module = "remote" =>
                   \A id \in Remotes : remotes'[id] # NULL =>
                       remotes'[id].af # AF_UNSPEC /\ remotes'[id].dst = remotes'[id].header[1]
             /\ Routed'
  BY <1>1, <1>2, Zenon DEF Routed
<1>3. \A d \in Addrs : d \notin Names
  BY UdpAssumption, Zenon
<1>4. ASSUME NEW d \in Addrs, Relayed(d, d) PROVE Routed'
  BY <1>3, <1>4, Zenon DEF Relayed, Routed
<1>5. remotes \in [Remotes -> RemoteCtx \cup {NULL}]
  BY Zenon DEF UdpInv, CacheOK
<1>6. CASE RecvUndecryptable
  BY <1>2, <1>6, Zenon DEF RecvUndecryptable
<1>7. ASSUME NEW ota \in world.otas, RecvBadHeader(ota) PROVE Kept
  BY <1>7, Zenon DEF RecvBadHeader
<1>8. ASSUME NEW src \in Srcs, NEW d \in world.dests, NEW ota \in world.otas, RecvHit(src, d, ota)
      PROVE  UNCHANGED <<queries, remotes>> /\ Routed'
  <2>1. PICK id \in cache_lookup(conn_cache, <<Family(d), src>>) :
          Sendto(remotes[id], d, Destination(remotes[id], d, <<d, ota>>))
    BY <1>8, Zenon DEF RecvHit
  <2>2. id \in Remotes /\ remotes[id] # NULL /\ world.module = "remote"
    BY <1>8, LookupFinds, Zenon DEF UdpInv, Live, RecvHit, Recv
  <2>3. Destination(remotes[id], d, <<d, ota>>) = d
    BY <1>1, <2>2 DEF Destination
  <2>4. Relayed(d, d) \/ UNCHANGED last
    BY <2>1, <2>3, Zenon DEF Sendto
  <2>5. Routed'
    BY <1>1, <1>4, <2>4 DEF Routed
  <2>. QED  BY <1>8, <2>5, Zenon DEF RecvHit
<1>9. ASSUME NEW src \in Srcs, NEW d \in world.dests, NEW ota \in world.otas, RecvMiss(src, d, ota), ~Kept
      PROVE  /\ UNCHANGED queries /\ Routed'
             /\ \A id \in Remotes : remotes'[id] # NULL =>
                   remotes'[id] = remotes[id] \/
                   (remotes'[id].af # AF_UNSPEC /\ remotes'[id].dst = remotes'[id].header[1])
  <2>1. /\ UNCHANGED queries /\ Relayed(d, d)
        /\ \E id \in Remotes : Store(id, new_remote(src, Family(d), <<d, ota>>, d, FamilyOf[d]))
    BY <1>9, Zenon DEF RecvMiss
  <2>2. PICK id \in Remotes : Store(id, new_remote(src, Family(d), <<d, ota>>, d, FamilyOf[d]))
    BY <2>1, ZenonT(30)
  <2>. DEFINE r == new_remote(src, Family(d), <<d, ota>>, d, FamilyOf[d])
  <2>3. r.af # AF_UNSPEC /\ r.dst = r.header[1]
    BY FamilyTypes, UdpAssumption DEF new_remote
  <2>. HIDE DEF r
  <2>4. \A i \in Remotes : remotes'[i] # NULL => remotes'[i] = remotes[i] \/ remotes'[i] = r
    BY <2>2, Zenon DEF Store, r
  <2>. QED  BY <1>4, <2>1, <2>3, <2>4, Zenon
<1>10. ASSUME NEW src \in Srcs, NEW d \in world.dests, NEW ota \in world.otas, RecvName(src, d, ota)
       PROVE  FALSE
  BY <1>3, <1>10, Zenon DEF RecvName
<1>11. ASSUME NEW q \in Queries, query_resolve_cb(q) PROVE FALSE
  BY <1>1, <1>11 DEF query_resolve_cb, ResolveNothing, ResolveStale, ResolveHit, ResolveMiss, Answer
<1>12. ASSUME NEW src \in Srcs, NEW ota \in world.otas, LocalHit(src, ota) \/ LocalMiss(src, ota)
       PROVE  world.module = "local" /\ UNCHANGED <<queries, last>>
  BY <1>12, Zenon DEF LocalHit, LocalMiss, Recv_local
<1>13. ASSUME NEW id \in Remotes, remote_recv_cb(id)
       PROVE  UNCHANGED <<queries, remotes>> /\ Routed'
  <2>1. CASE UNCHANGED last
    BY <1>1, <1>13, <2>1, Zenon DEF remote_recv_cb, Routed
  <2>2. ASSUME NEW a \in Addrs, RemoteRecv(id, a) PROVE Relayed(a, a)
    <3>1. remotes[id] # NULL /\ world.module = "remote"
      BY <2>2, Zenon DEF RemoteRecv, UdpInv, CacheOK, Live
    <3>. QED  BY <1>1, <2>2, <3>1, Zenon DEF RemoteRecv
  <2>. QED  BY <1>4, <1>13, <2>1, <2>2, Zenon DEF remote_recv_cb, RemoteRecvOther
<1>14. ASSUME NEW id \in Remotes, remote_timeout_cb(id) PROVE Kept
  BY <1>14, Zenon DEF remote_timeout_cb
<1>15. CASE free_udprelay
  BY <1>2, <1>15, Zenon DEF free_udprelay
<1>16. UNCHANGED last => Routed'
  BY <1>1, Zenon DEF Routed
<1>. HIDE DEF Kept
<1>17. CASE Kept
  BY <1>2, <1>17, Zenon
<1>18. CASE UNCHANGED <<queries, remotes>> /\ Routed'
  BY <1>1, <1>18, Zenon
<1>19. CASE world.module = "local" /\ UNCHANGED <<queries, last>>
  BY <1>1, <1>16, <1>19, Zenon
<1>20. CASE /\ UNCHANGED queries /\ Routed'
            /\ \A id \in Remotes : remotes'[id] # NULL =>
                  remotes'[id] = remotes[id] \/
                  (remotes'[id].af # AF_UNSPEC /\ remotes'[id].dst = remotes'[id].header[1])
  BY <1>1, <1>20, Zenon
<1>. QED  BY <1>6, <1>7, <1>8, <1>9, <1>10, <1>11, <1>12, <1>13, <1>14, <1>15, <1>17, <1>18, <1>19, <1>20,
             Zenon DEF Next, Step

\* A relay whose clients use addresses only sends each datagram to the address in its
\* header, and labels each reply with the address it came from ("detect destination
\* mismatch" in server_recv_cb).
THEOREM RoutedToAddressesHolds == Spec => []RoutedToAddresses
<1>1. Init => Plain
  BY Zenon DEF Init, Plain, Routed, Live
<1>2. UdpInv /\ Plain /\ [Next]_vars => Plain'
  <2>. SUFFICES ASSUME UdpInv, Plain, [Next]_vars PROVE Plain'
    OBVIOUS
  <2>1. CASE UNCHANGED vars
    BY <2>1, Zenon DEF Plain, Live, Routed, vars
  <2>. QED  BY <2>1, PlainStep
<1>3. Plain => RoutedToAddresses
  BY Zenon DEF Plain, RoutedToAddresses
<1>. QED  BY <1>1, <1>2, <1>3, UdpInvHolds, PTL DEF Spec

-----------------------------------------------------------------------------
(* The invariant of IvCache.                                               *)

Entry == [key : IVs, data : {NoData}]

\* No moment lies in the future.
Clock == \A iv \in IVs : when[iv] <= now

\* An IV that was presented and is not in the cache gave way to CAPACITY - 1 later ones.
Displaced ==
    \A iv \in IVs : ~cache_key_exist(iv_cache, iv) /\ when[iv] # 0 =>
        /\ Len(iv_cache) = CAPACITY - 1
        /\ \A i \in 1..Len(iv_cache) : when[iv] < when[iv_cache[i].key]

IvInv == IvTypeOK /\ Ordered /\ Clock /\ Displaced

\* What the cache holds, in the words of its keys.
LEMMA Members ==
    ASSUME NEW es \in Seq(Entry), NEW k
    PROVE  /\ cache_key_exist(es, k) <=> \E i \in 1..Len(es) : es[i].key = k
           /\ \A i \in 1..Len(es) : es[i].key \in IVs
           /\ Len(es) \in Nat
           /\ DOMAIN es = 1..Len(es)
<1>1. Len(es) \in Nat /\ DOMAIN es = 1..Len(es)
  BY SeqLen
<1>2. \A i \in 1..Len(es) : es[i] \in Entry
  BY SeqElement
<1>3. \A i \in 1..Len(es) : es[i].key \in IVs
  BY <1>2, Zenon DEF Entry
<1>4. cache_key_exist(es, k) <=> \E i \in 1..Len(es) : es[i].key = k
  BY <1>1 DEF cache_key_exist, Holding
<1>. QED  BY <1>1, <1>3, <1>4

\* No IV is held twice.
LEMMA Distinct ==
    ASSUME IvInv
    PROVE  \A i, j \in 1..Len(iv_cache) : iv_cache[i].key = iv_cache[j].key => i = j
<1>1. iv_cache \in Seq(Entry)
  BY DEF IvInv, IvTypeOK, Entries, Entry
<1>2. \A i, j \in 1..Len(iv_cache) : i < j => when[iv_cache[i].key] < when[iv_cache[j].key]
  BY <1>1, Members, Zenon DEF IvInv, Ordered
<1>3. \A i \in 1..Len(iv_cache) : when[iv_cache[i].key] \in Nat
  BY <1>1, Members, Zenon DEF IvInv, IvTypeOK
<1>4. Len(iv_cache) \in Nat
  BY <1>1, SeqLen
<1>. QED  BY <1>2, <1>3, <1>4

\* Ordered and Displaced, for a cache c, the moments w of last use and capacity cap.
OrderedBy(c, w) == \A i, j \in 1..Len(c) : i < j => w[c[i].key] < w[c[j].key]
DisplacedBy(c, w, cap) ==
    \A k \in IVs : (\A i \in 1..Len(c) : c[i].key # k) /\ w[k] # 0 =>
        /\ Len(c) = cap - 1
        /\ \A i \in 1..Len(c) : w[k] < w[c[i].key]

\* iv is presented at the moment t, later than all moments of w; v are the new ones.
Stamped(w, v, iv, t) ==
    /\ \A k \in IVs : w[k] < t
    /\ v[iv] = t /\ \A k \in IVs \ {iv} : v[k] = w[k]

\* d is c with its p-th entry moved to the end.
Moved(c, d, p, iv) ==
    /\ c[p].key = iv
    /\ Len(d) = Len(c) /\ d[Len(c)].key = iv
    /\ \A j \in 1..(Len(c) - 1) : d[j] = IF j < p THEN c[j] ELSE c[j + 1]

\* d is c with iv at the end, without its first entry if the capacity is reached.
Added(c, d, iv, cap) ==
    /\ Len(c) < cap
    /\ \A i \in 1..Len(c) : c[i].key # iv
    /\ Len(c) + 1 < cap =>
        /\ Len(d) = Len(c) + 1 /\ d[Len(c) + 1].key = iv
        /\ \A j \in 1..Len(c) : d[j] = c[j]
    /\ Len(c) + 1 >= cap =>
        /\ Len(d) = Len(c) /\ Len(c) = cap - 1
        /\ Len(c) > 0 => d[Len(c)].key = iv
        /\ \A j \in 1..(Len(c) - 1) : d[j] = c[j + 1]

\* A hit leaves the entries in order, and displaces none.
LEMMA RefuseOrder ==
    ASSUME NEW c \in Seq(Entry), NEW d \in Seq(Entry), NEW w \in [IVs -> Nat], NEW t \in Nat,
           NEW v \in [IVs -> Nat], NEW iv \in IVs, Stamped(w, v, iv, t),
           NEW cap \in Nat \ {0}, OrderedBy(c, w), DisplacedBy(c, w, cap),
           NEW p \in 1..Len(c), Moved(c, d, p, iv)
    PROVE  OrderedBy(d, v) /\ DisplacedBy(d, v, cap)
<1>. DEFINE n == Len(c)
<1>1. n \in Nat /\ n # 0 /\ p \in 1..n
  BY SeqLen
<1>s. /\ \A k \in IVs : w[k] < t
      /\ v[iv] = t /\ \A k \in IVs \ {iv} : v[k] = w[k]
  BY Zenon DEF Stamped
<1>m. c[p].key = iv /\ Len(d) = n /\ d[n].key = iv
  BY Zenon DEF Moved
<1>d. \A j \in 1..(n - 1) : d[j] = IF j < p THEN c[j] ELSE c[j + 1]
  BY Zenon DEF Moved
<1>2. \A i \in 1..n : c[i].key \in IVs /\ w[c[i].key] \in Nat
  BY Members, Zenon
<1>o. \A i, j \in 1..n : i < j => w[c[i].key] < w[c[j].key]
  BY Zenon DEF OrderedBy
<1>e. \A k \in IVs : (\A i \in 1..n : c[i].key # k) /\ w[k] # 0 =>
        n = cap - 1 /\ \A i \in 1..n : w[k] < w[c[i].key]
  BY Zenon DEF DisplacedBy
<1>. HIDE DEF n
<1>3. \A i \in 1..n : i # p => c[i].key # iv
  BY <1>1, <1>2, <1>m, <1>o
<1>4. \A j \in 1..(n - 1) :
        /\ j < p => d[j] = c[j] /\ d[j].key \in IVs /\ d[j].key # iv
        /\ ~(j < p) => d[j] = c[j + 1] /\ d[j].key \in IVs /\ d[j].key # iv
  <2>. SUFFICES ASSUME NEW j \in 1..(n - 1)
                PROVE  /\ j < p => d[j] = c[j] /\ d[j].key \in IVs /\ d[j].key # iv
                       /\ ~(j < p) => d[j] = c[j + 1] /\ d[j].key \in IVs /\ d[j].key # iv
    BY Zenon
  <2>1. j \in 1..n /\ j + 1 \in 1..n /\ (j < p => j # p) /\ (~(j < p) => j + 1 # p)
    BY <1>1
  <2>2. d[j] = IF j < p THEN c[j] ELSE c[j + 1]
    BY <1>d, Zenon
  <2>. QED  BY <1>2, <1>3, <2>1, <2>2, Zenon
<1>5. OrderedBy(d, v)
  <2>. SUFFICES ASSUME NEW i \in 1..n, NEW j \in 1..n, i < j
                PROVE  v[d[i].key] < v[d[j].key]
    BY <1>m, Zenon DEF OrderedBy
  <2>1. i \in 1..(n - 1) /\ d[i].key \in IVs \ {iv} /\ v[d[i].key] = w[d[i].key]
    BY <1>1, <1>4, <1>s
  <2>2. CASE j = n
    BY <1>m, <1>s, <2>1, <2>2, Zenon
  <2>3. CASE j # n
    <3>1. j \in 1..(n - 1) /\ d[j].key \in IVs \ {iv} /\ v[d[j].key] = w[d[j].key]
      BY <1>1, <1>4, <1>s, <2>3
    <3>2. CASE j < p
      <4>1. d[i] = c[i] /\ d[j] = c[j]
        <5>1. i < p
          BY <1>1, <3>2
        <5>. QED  BY <1>4, <2>1, <3>1, <3>2, <5>1, Zenon
      <4>. QED  BY <1>o, <2>1, <3>1, <4>1, Zenon
    <3>3. CASE ~(j < p) /\ i < p
      <4>1. d[i] = c[i] /\ d[j] = c[j + 1] /\ j + 1 \in 1..n /\ i < j + 1
        BY <1>1, <1>4, <2>1, <3>1, <3>3
      <4>. QED  BY <1>o, <2>1, <3>1, <4>1, ZenonT(30)
    <3>4. CASE ~(j < p) /\ ~(i < p)
      <4>1. /\ d[i] = c[i + 1] /\ d[j] = c[j + 1] /\ j + 1 \in 1..n /\ i + 1 \in 1..n
            /\ i + 1 < j + 1
        BY <1>1, <1>4, <2>1, <3>1, <3>4
      <4>. QED  BY <1>o, <2>1, <3>1, <4>1, ZenonT(30)
    <3>. QED  BY <1>1, <3>2, <3>3, <3>4, Zenon
  <2>. QED  BY <2>2, <2>3, Zenon
<1>6. DisplacedBy(d, v, cap)
  <2>. SUFFICES ASSUME NEW k \in IVs, \A i \in 1..n : d[i].key # k, v[k] # 0
                PROVE  n = cap - 1 /\ \A i \in 1..n : v[k] < v[d[i].key]
    BY <1>m, Zenon DEF DisplacedBy
  <2>1. k # iv /\ v[k] = w[k]
    BY <1>1, <1>m, <1>s
  <2>2. \A i \in 1..n : c[i].key # k
    <3>. SUFFICES ASSUME NEW i \in 1..n, i # p PROVE c[i].key # k
      BY <1>m, <2>1, Zenon
    <3>1. CASE i < p
      <4>1. i \in 1..(n - 1)
        BY <1>1, <3>1
      <4>2. d[i] = c[i]
        BY <1>4, <3>1, <4>1, Zenon
      <4>. QED  BY <4>2, Zenon
    <3>2. CASE i > p
      <4>1. i - 1 \in 1..(n - 1) /\ ~(i - 1 < p) /\ (i - 1) + 1 = i
        BY <1>1, <3>2
      <4>2. i - 1 \in 1..n
        BY <1>1, <4>1
      <4>3. d[i - 1] = c[i]
        BY <1>4, <4>1, Zenon
      <4>. QED  BY <4>2, <4>3, Zenon
    <3>. QED  BY <1>1, <3>1, <3>2
  <2>3. n = cap - 1 /\ \A i \in 1..n : w[k] < w[c[i].key]
    BY <1>e, <2>1, <2>2, Zenon
  <2>4. ASSUME NEW i \in 1..n PROVE v[k] < v[d[i].key]
    <3>1. CASE i = n
      BY <1>m, <1>s, <2>1, <3>1, Zenon
    <3>2. CASE i # n
      <4>1. i \in 1..(n - 1) /\ i + 1 \in 1..n /\ v[d[i].key] = w[d[i].key]
        BY <1>1, <1>4, <1>s, <3>2
      <4>2. d[i] = c[i] \/ d[i] = c[i + 1]
        BY <1>4, <4>1, Zenon
      <4>3. w[k] < w[d[i].key]
        BY <2>3, <4>1, <4>2, Zenon
      <4>. QED  BY <2>1, <4>1, <4>3, Zenon
    <3>. QED  BY <3>1, <3>2, Zenon
  <2>. QED  BY <2>3, <2>4, Zenon
<1>. QED  BY <1>5, <1>6, Zenon

\* What a hit does to a cache, whose keys are distinct.
LEMMA TouchMoves ==
    ASSUME NEW E, NEW c \in Seq(E), NEW iv, cache_key_exist(c, iv),
           \A i, j \in 1..Len(c) : c[i].key = c[j].key => i = j,
           c[HASH_FIND(c, iv)].key = iv
    PROVE  /\ touch(c, iv) \in Seq(E) /\ Len(touch(c, iv)) = Len(c)
           /\ Moved(c, touch(c, iv), HASH_FIND(c, iv), iv)
<1>. DEFINE d == touch(c, iv)
<1>1. /\ d \in Seq(E) /\ Len(d) = Len(c) /\ d[Len(c)].key = iv
      /\ \A j \in 1..(Len(c) - 1) : d[j] = IF j < HASH_FIND(c, iv) THEN c[j] ELSE c[j + 1]
  BY TouchProperties
<1>. HIDE DEF d
<1>2. Moved(c, d, HASH_FIND(c, iv), iv)
  BY <1>1, Zenon DEF Moved
<1>. QED  BY <1>1, <1>2, Zenon DEF d

\* What cache_insert does to a cache that does not hold the IV.
LEMMA InsertAdds ==
    ASSUME NEW E, NEW c \in Seq(E), NEW iv, NEW data, [key |-> iv, data |-> data] \in E,
           NEW cap \in Nat \ {0}, Len(c) < cap, \A i \in 1..Len(c) : c[i].key # iv
    PROVE  /\ cache_insert(cap, c, iv, data) \in Seq(E)
           /\ Added(c, cache_insert(cap, c, iv, data), iv, cap)
           /\ Len(cache_insert(cap, c, iv, data)) < cap
<1>. DEFINE d == cache_insert(cap, c, iv, data)
            n == Len(c)
<1>1. n \in Nat
  BY SeqLen, Zenon
<1>2. CASE n + 1 < cap
  <2>1. d \in Seq(E) /\ Len(d) = n + 1 /\ d[n + 1].key = iv /\ \A j \in 1..n : d[j] = c[j]
    BY <1>2, InsertProperties
  <2>. HIDE DEF d
  <2>2. Added(c, d, iv, cap) /\ Len(d) < cap
    <3>1. ~(n + 1 >= cap) /\ n < cap /\ Len(d) < cap
      BY <1>1, <1>2, <2>1
    <3>. QED  BY <1>2, <2>1, <3>1, Zenon DEF Added
  <2>. QED  BY <2>1, <2>2, ZenonT(30) DEF d
<1>3. CASE n + 1 >= cap
  <2>1. /\ d \in Seq(E) /\ Len(d) = n /\ n = cap - 1
        /\ n > 0 => d[n].key = iv
        /\ \A j \in 1..(n - 1) : d[j] = c[j + 1]
    BY <1>1, <1>3, InsertProperties
  <2>. HIDE DEF d
  <2>2. Added(c, d, iv, cap) /\ Len(d) < cap
    BY <1>1, <1>3, <2>1 DEF Added
  <2>. QED  BY <2>1, <2>2, Zenon DEF d
<1>. QED  BY <1>1, <1>2, <1>3

\* An insertion leaves the entries in order, and displaces the first at most.
LEMMA AcceptOrder ==
    ASSUME NEW c \in Seq(Entry), NEW d \in Seq(Entry), NEW w \in [IVs -> Nat], NEW t \in Nat,
           NEW v \in [IVs -> Nat], NEW iv \in IVs, Stamped(w, v, iv, t),
           NEW cap \in Nat \ {0}, OrderedBy(c, w), DisplacedBy(c, w, cap),
           Added(c, d, iv, cap)
    PROVE  OrderedBy(d, v) /\ DisplacedBy(d, v, cap)
<1>. DEFINE n == Len(c)
<1>1. n \in Nat
  BY SeqLen
<1>s. /\ \A k \in IVs : w[k] < t
      /\ v[iv] = t /\ \A k \in IVs \ {iv} : v[k] = w[k]
  BY Zenon DEF Stamped
<1>a. n < cap /\ \A i \in 1..n : c[i].key # iv
  BY Zenon DEF Added
<1>2. \A i \in 1..n : c[i].key \in IVs \ {iv} /\ w[c[i].key] \in Nat /\ v[c[i].key] = w[c[i].key]
                      /\ w[c[i].key] < t
  BY <1>s, <1>a, Members, Zenon
<1>o. \A i, j \in 1..n : i < j => w[c[i].key] < w[c[j].key]
  BY Zenon DEF OrderedBy
<1>e. \A k \in IVs : (\A i \in 1..n : c[i].key # k) /\ w[k] # 0 =>
        n = cap - 1 /\ \A i \in 1..n : w[k] < w[c[i].key]
  BY Zenon DEF DisplacedBy
<1>f. n + 1 < cap => /\ Len(d) = n + 1 /\ d[n + 1].key = iv
                     /\ \A j \in 1..n : d[j] = c[j]
  BY Zenon DEF Added
<1>g. n + 1 >= cap => /\ Len(d) = n /\ n = cap - 1
                      /\ n > 0 => d[n].key = iv
                      /\ \A j \in 1..(n - 1) : d[j] = c[j + 1]
  BY Zenon DEF Added
<1>. HIDE DEF n
<1>3. CASE n + 1 < cap
  <2>1. /\ Len(d) = n + 1 /\ d[n + 1].key = iv /\ v[d[n + 1].key] = t
        /\ \A j \in 1..n : d[j] = c[j]
    BY <1>3, <1>f, <1>s, Zenon
  <2>2. OrderedBy(d, v)
    <3>. SUFFICES ASSUME NEW i \in 1..(n + 1), NEW j \in 1..(n + 1), i < j
                  PROVE  v[d[i].key] < v[d[j].key]
      BY <2>1, ZenonT(30) DEF OrderedBy
    <3>1. i \in 1..n /\ v[d[i].key] = w[c[i].key] /\ w[c[i].key] < t
      BY <1>1, <1>2, <2>1
    <3>2. CASE j = n + 1
      BY <2>1, <3>1, <3>2, Zenon
    <3>3. CASE j # n + 1
      <4>1. j \in 1..n
        BY <1>1, <3>3
      <4>2. v[d[j].key] = w[c[j].key]
        BY <1>2, <2>1, <4>1, Zenon
      <4>. QED  BY <1>o, <3>1, <4>1, <4>2, Zenon
    <3>. QED  BY <3>2, <3>3, Zenon
  <2>3. DisplacedBy(d, v, cap)
    <3>. SUFFICES ASSUME NEW k \in IVs, \A i \in 1..(n + 1) : d[i].key # k, v[k] # 0
                  PROVE  FALSE
      BY <2>1, Zenon DEF DisplacedBy
    <3>1. k # iv /\ v[k] = w[k] /\ \A i \in 1..n : c[i].key # k
      <4>1. n + 1 \in 1..(n + 1) /\ \A i \in 1..n : i \in 1..(n + 1)
        BY <1>1
      <4>. QED  BY <1>s, <2>1, <4>1, Zenon
    <3>2. n = cap - 1
      BY <1>e, <3>1, Zenon
    <3>. QED  BY <1>1, <1>3, <3>2
  <2>. QED  BY <2>2, <2>3
<1>4. CASE n + 1 >= cap
  <2>1. /\ Len(d) = n /\ n = cap - 1
        /\ n > 0 => d[n].key = iv
        /\ \A j \in 1..(n - 1) : d[j] = c[j + 1]
    BY <1>4, <1>g, Zenon
  <2>2. \A j \in 1..(n - 1) : j + 1 \in 1..n /\ v[d[j].key] = w[c[j + 1].key] /\ w[c[j + 1].key] < t
    <3>. SUFFICES ASSUME NEW j \in 1..(n - 1)
                  PROVE  /\ j + 1 \in 1..n /\ v[d[j].key] = w[c[j + 1].key]
                         /\ w[c[j + 1].key] < t
      BY Zenon
    <3>1. j + 1 \in 1..n
      BY <1>1
    <3>. QED  BY <1>2, <2>1, <3>1, Zenon
  <2>3. OrderedBy(d, v)
    <3>. SUFFICES ASSUME NEW i \in 1..n, NEW j \in 1..n, i < j
                  PROVE  v[d[i].key] < v[d[j].key]
      BY <2>1, Zenon DEF OrderedBy
    <3>1. i \in 1..(n - 1) /\ i + 1 \in 1..n /\ v[d[i].key] = w[c[i + 1].key] /\ w[c[i + 1].key] < t
      <4>1. i \in 1..(n - 1)
        BY <1>1
      <4>. QED  BY <2>2, <4>1, Zenon
    <3>2. CASE j = n
      <4>1. d[j].key = iv
        BY <1>1, <2>1, <3>2
      <4>. QED  BY <1>s, <3>1, <4>1, Zenon
    <3>3. CASE j # n
      <4>1. j \in 1..(n - 1) /\ i + 1 < j + 1
        BY <1>1, <3>3
      <4>2. j + 1 \in 1..n /\ v[d[j].key] = w[c[j + 1].key]
        BY <2>2, <4>1, Zenon
      <4>. QED  BY <1>o, <3>1, <4>1, <4>2, Zenon
    <3>. QED  BY <3>2, <3>3, Zenon
  <2>4. DisplacedBy(d, v, cap)
    <3>. SUFFICES ASSUME NEW k \in IVs, \A i \in 1..n : d[i].key # k, v[k] # 0, NEW i \in 1..n
                  PROVE  v[k] < v[d[i].key]
      BY <2>1, Zenon DEF DisplacedBy
    <3>1. d[n].key = iv /\ n \in 1..n /\ k # iv /\ v[k] = w[k] /\ w[k] < t
      <4>1. n \in 1..n /\ n > 0
        BY <1>1
      <4>. QED  BY <1>s, <2>1, <4>1, Zenon
    <3>2. CASE i = n
      BY <1>s, <3>1, <3>2, Zenon
    <3>3. CASE i # n
      <4>1. i \in 1..(n - 1) /\ i + 1 \in 1..n /\ v[d[i].key] = w[c[i + 1].key]
        <5>1. i \in 1..(n - 1)
          BY <1>1, <3>3
        <5>. QED  BY <2>2, <5>1, Zenon
      <4>2. CASE c[1].key = k
        <5>1. 1 \in 1..n /\ 1 < i + 1
          BY <1>1, <4>1
        <5>. QED  BY <1>o, <3>1, <4>1, <4>2, <5>1, Zenon
      <4>3. CASE c[1].key # k
        <5>1. \A j \in 1..n : c[j].key # k
          <6>. SUFFICES ASSUME NEW j \in 1..n, j # 1 PROVE c[j].key # k
            BY <4>3, Zenon
          <6>1. j - 1 \in 1..(n - 1) /\ (j - 1) + 1 = j /\ j - 1 \in 1..n
            BY <1>1
          <6>2. d[j - 1] = c[j]
            BY <2>1, <6>1, Zenon
          <6>. QED  BY <6>1, <6>2, Zenon
        <5>. QED  BY <1>e, <3>1, <4>1, <5>1, Zenon
      <4>. QED  BY <4>2, <4>3, Zenon
    <3>. QED  BY <3>2, <3>3, Zenon
  <2>. QED  BY <2>3, <2>4
<1>. QED  BY <1>1, <1>3, <1>4

\* The same facts about the variables.
LEMMA IvInvForms ==
    ASSUME IvTypeOK
    PROVE  /\ Ordered <=> OrderedBy(iv_cache, when)
           /\ Displaced <=> DisplacedBy(iv_cache, when, CAPACITY)
<1>1. iv_cache \in Seq(Entry)
  BY DEF IvTypeOK, Entries, Entry
<1>2. Ordered <=> OrderedBy(iv_cache, when)
  BY <1>1, Members, Zenon DEF Ordered, OrderedBy
<1>3. Displaced <=> DisplacedBy(iv_cache, when, CAPACITY)
  BY <1>1, Members DEF Displaced, DisplacedBy
<1>. QED  BY <1>2, <1>3

LEMMA IvInvFormsNext ==
    ASSUME IvTypeOK'
    PROVE  /\ Ordered' <=> OrderedBy(iv_cache', when')
           /\ Displaced' <=> DisplacedBy(iv_cache', when', CAPACITY)
<1>1. iv_cache' \in Seq(Entry)
  BY DEF IvTypeOK, Entries, Entry
<1>2. Ordered' <=> OrderedBy(iv_cache', when')
  BY <1>1, Members, Zenon DEF Ordered, OrderedBy
<1>3. Displaced' <=> DisplacedBy(iv_cache', when', CAPACITY)
  BY <1>1, Members DEF Displaced, DisplacedBy
<1>. QED  BY <1>2, <1>3

LEMMA IvInit_Inv == IvInit => IvInv
<1>. SUFFICES ASSUME IvInit PROVE IvInv
  OBVIOUS
<1>1. IvTypeOK
  BY SeqEmpty, IvAssumption DEF IvInit, IvTypeOK, Entries
<1>2. Len(iv_cache) = 0
  BY SeqEmpty DEF IvInit
<1>3. OrderedBy(iv_cache, when) /\ DisplacedBy(iv_cache, when, CAPACITY)
  BY <1>2 DEF IvInit, OrderedBy, DisplacedBy
<1>4. Clock
  BY DEF IvInit, Clock
<1>. QED  BY <1>1, <1>3, <1>4, IvInvForms DEF IvInv

LEMMA IvStepInv ==
    ASSUME IvInv, NEW iv \in IVs, Refuse(iv) \/ Accept(iv)
    PROVE  IvInv'
<1>1. /\ iv_cache \in Seq(Entry) /\ Len(iv_cache) < CAPACITY /\ CAPACITY \in Nat \ {0}
      /\ OrderedBy(iv_cache, when) /\ DisplacedBy(iv_cache, when, CAPACITY)
      /\ when \in [IVs -> Nat] /\ now \in Nat /\ Len(iv_cache) \in Nat
  BY IvInvForms, IvAssumption, SeqLen, Zenon DEF IvInv, IvTypeOK, Entries, Entry
<1>2. Presented(iv)
  BY DEF Refuse, Accept
<1>3. /\ when' \in [IVs -> Nat] /\ now' = now + 1 /\ now' \in Nat
      /\ Stamped(when, when', iv, now')
  BY <1>1, <1>2 DEF Presented, IvInv, Clock, Stamped
<1>4. Clock'
  BY <1>1, <1>3 DEF Clock, Stamped
<1>5. /\ iv_cache' \in Seq(Entry) /\ Len(iv_cache') < CAPACITY /\ accepted' \in SUBSET IVs
      /\ OrderedBy(iv_cache', when') /\ DisplacedBy(iv_cache', when', CAPACITY)
  <2>1. CASE Refuse(iv)
    <3>1. cache_key_exist(iv_cache, iv) /\ iv_cache' = touch(iv_cache, iv) /\ accepted' = {}
      BY <2>1, Zenon DEF Refuse
    <3>. DEFINE p == HASH_FIND(iv_cache, iv)
    <3>2. p \in 1..Len(iv_cache) /\ iv_cache[p].key = iv
      BY <1>1, <3>1, Distinct, FindProperties, Zenon
    <3>3. /\ iv_cache' \in Seq(Entry) /\ Len(iv_cache') = Len(iv_cache)
          /\ Moved(iv_cache, iv_cache', p, iv)
      <4>1. \A i, j \in 1..Len(iv_cache) : iv_cache[i].key = iv_cache[j].key => i = j
        BY Distinct
      <4>2. iv_cache \in Seq(Entry) /\ cache_key_exist(iv_cache, iv)
        BY <1>1, <3>1, Zenon
      <4>3. /\ touch(iv_cache, iv) \in Seq(Entry) /\ Len(touch(iv_cache, iv)) = Len(iv_cache)
            /\ Moved(iv_cache, touch(iv_cache, iv), p, iv)
        BY <3>2, <4>1, <4>2, TouchMoves, Zenon
      <4>. QED  BY <3>1, <4>3, Zenon
    <3>. HIDE DEF p
    <3>4. OrderedBy(iv_cache', when') /\ DisplacedBy(iv_cache', when', CAPACITY)
      BY <1>1, <1>3, <3>2, <3>3, RefuseOrder, Zenon
    <3>. QED  BY <1>1, <3>1, <3>3, <3>4, Zenon
  <2>2. CASE Accept(iv)
    <3>1. /\ ~cache_key_exist(iv_cache, iv) /\ accepted' = {iv}
          /\ iv_cache' = cache_insert(CAPACITY, iv_cache, iv, NoData)
      BY <2>2, Zenon DEF Accept
    <3>2. \A i \in 1..Len(iv_cache) : iv_cache[i].key # iv
      BY <1>1, <3>1, Members, Zenon
    <3>3. [key |-> iv, data |-> NoData] \in Entry
      BY Zenon DEF Entry
    <3>4. /\ iv_cache' \in Seq(Entry) /\ Added(iv_cache, iv_cache', iv, CAPACITY)
          /\ Len(iv_cache') < CAPACITY
      BY <1>1, <3>1, <3>2, <3>3, InsertAdds, Zenon
    <3>5. OrderedBy(iv_cache', when') /\ DisplacedBy(iv_cache', when', CAPACITY)
      BY <1>1, <1>3, <3>4, AcceptOrder, Zenon
    <3>. QED  BY <3>1, <3>4, <3>5, Zenon
  <2>. QED  BY <2>1, <2>2, Zenon
<1>6. IvTypeOK'
  BY <1>3, <1>5 DEF IvTypeOK, Entries, Entry
<1>. QED  BY <1>4, <1>5, <1>6, IvInvFormsNext, Zenon DEF IvInv

\* For every capacity and every number of streams, the cache stays below its
\* capacity, and holds the IVs in the order of their last use.
THEOREM IvInvariance == IvSpec => []IvInv
<1>1. IvInv /\ [IvNext]_iv_vars => IvInv'
  <2>1. ASSUME IvInv, IvNext PROVE IvInv'
    BY <2>1, IvStepInv DEF IvNext
  <2>2. ASSUME IvInv, UNCHANGED iv_vars PROVE IvInv'
    BY <2>2, Zenon DEF iv_vars, IvInv, IvTypeOK, Ordered, Clock, Displaced
  <2>. QED  BY <2>1, <2>2
<1>. QED  BY <1>1, IvInit_Inv, PTL DEF IvSpec

\* touch and cache_insert keep the entries in the order of their last use.
THEOREM OrderedHolds == IvSpec => []Ordered
BY IvInvariance, PTL DEF IvInv

-----------------------------------------------------------------------------
(* Counting.  The library's facts are about its own instance of the two    *)
(* definitions.                                                            *)
Counting == INSTANCE FiniteSetTheorems

LEMMA SameCounting ==
    \A S : Cardinality(S) = Counting!Cardinality(S) /\ (IsFiniteSet(S) <=> Counting!IsFiniteSet(S))
BY Zenon DEF Cardinality, Counting!Cardinality, IsFiniteSet, Counting!IsFiniteSet

\* The keys of the entries are as many as the entries.
LEMMA KeyCount ==
    ASSUME IvInv
    PROVE  LET K == {iv_cache[i].key : i \in 1..Len(iv_cache)}
           IN  IsFiniteSet(K) /\ Cardinality(K) = Len(iv_cache)
<1>. DEFINE K == {iv_cache[i].key : i \in 1..Len(iv_cache)}
            f == [i \in 1..Len(iv_cache) |-> iv_cache[i].key]
<1>1. Len(iv_cache) \in Nat
  BY SeqLen, Zenon DEF IvInv, IvTypeOK, Entries
<1>2. IsFiniteSet(1..Len(iv_cache)) /\ Cardinality(1..Len(iv_cache)) = Len(iv_cache)
  <2>1. 1 \in Int /\ Len(iv_cache) \in Int
    BY <1>1
  <2>2. /\ IsFiniteSet(1..Len(iv_cache))
        /\ Cardinality(1..Len(iv_cache)) = IF 1 > Len(iv_cache) THEN 0 ELSE Len(iv_cache) - 1 + 1
    BY <2>1, SameCounting, Counting!FS_Interval, Zenon
  <2>. QED  BY <1>1, <2>2
<1>3. f \in Counting!Bijection(1..Len(iv_cache), K)
  BY Distinct, Zenon DEF Counting!Bijection, Counting!Injection, Counting!Surjection, Counting!IsInjective
<1>4. Counting!ExistsBijection(1..Len(iv_cache), K)
  BY <1>3, Zenon DEF Counting!ExistsBijection
<1>. QED  BY <1>2, <1>4, SameCounting, Counting!FS_Bijection, Zenon

\* A repeated IV is noticed as long as fewer than CAPACITY - 1 other IVs were
\* presented since (the IV check of ss_decrypt).
THEOREM ReplayWindowHolds == IvSpec => ReplayWindow
<1>1. ASSUME IvInv, [IvNext]_iv_vars
      PROVE  [\A iv \in accepted' : when[iv] = 0 \/ Cardinality(Later(iv)) >= CAPACITY - 1]_iv_vars
  <2>. SUFFICES ASSUME IvNext, NEW iv \in accepted', when[iv] # 0
                PROVE  Cardinality(Later(iv)) >= CAPACITY - 1
    BY <1>1, Zenon
  <2>. DEFINE K == {iv_cache[i].key : i \in 1..Len(iv_cache)}
  <2>1. Accept(iv) /\ iv \in IVs
    BY Zenon DEF IvNext, Refuse, Accept
  <2>2. Len(iv_cache) = CAPACITY - 1 /\ \A i \in 1..Len(iv_cache) : when[iv] < when[iv_cache[i].key]
    BY <1>1, <2>1, Zenon DEF Accept, IvInv, Displaced
  <2>3. iv_cache \in Seq(Entry) /\ when \in [IVs -> Nat]
    BY <1>1, Zenon DEF IvInv, IvTypeOK, Entries, Entry
  <2>4. \A k \in K : k \in IVs /\ when[k] > when[iv]
    BY <2>1, <2>2, <2>3, Members, ZenonT(30)
  <2>5. K \subseteq Later(iv)
    BY <2>4, Zenon DEF Later
  <2>6. IsFiniteSet(Later(iv)) /\ Cardinality(Later(iv)) \in Nat
    BY IvAssumption, SameCounting, Counting!FS_Subset, Counting!FS_CardinalityType, Zenon DEF Later
  <2>7. Cardinality(K) = CAPACITY - 1
    BY <1>1, <2>2, KeyCount, Zenon
  <2>. QED  BY <2>5, <2>6, <2>7, SameCounting, Counting!FS_Subset, ZenonT(30)
<1>. QED  BY <1>1, IvInvariance, PTL DEF IvSpec, ReplayWindow
=============================================================================
