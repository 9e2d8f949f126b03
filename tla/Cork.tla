-------------------------------- MODULE Cork --------------------------------
(***************************************************************************)
(* libcork's data structures: the collector, hash tables, slices, buffers. *)
(***************************************************************************)
EXTENDS Integers, Sequences, SequencesExt, FiniteSetsExt, FiniteSets

(***************************************************************************)
(* The garbage collector of libcork (libcork/core/gc.c): reference counts, *)
(* and a collector of cycles that runs over the objects whose count fell   *)
(* to something above zero since it last ran.                              *)
(*                                                                         *)
(* An object is a header and a few fields, each NULL or a reference; the   *)
(* program holds references too.  recurse visits the fields in order.  The *)
(* collector reads the header of an object it has just freed (when two     *)
(* roots are in one cycle, say), and the memory still holds what it held:  *)
(* nothing is allocated meanwhile.                                         *)
(***************************************************************************)

CONSTANTS
    GcObjects,
    ROOTS_SIZE,     \* entries of gc->roots, 1024
    MaxGcSteps,     \* bound: what the program does
    GcGraphs        \* the fields of the objects, to begin with

NULL == 0

VARIABLES
    gc,         \* obj: the headers and fields; roots; frees: how often each was freed
    held,       \* the references the program holds
    gcSteps,
    collected   \* cork_gc_collect_cycles has just run

gc_vars == <<gc, held, gcSteps, collected>>

\* cork_gc_alloc, with its fields set.
cork_gc_alloc(count, fields) ==
    [alive |-> TRUE, count |-> count, buffered |-> FALSE, color |-> "black", fields |-> fields]

Color(g, o, c) == [g EXCEPT !.obj[o].color = c]
Buffered(g, o, b) == [g EXCEPT !.obj[o].buffered = b]
Count(g, o, d) == [g EXCEPT !.obj[o].count = @ + d]
cork_gc_free(g, o) == [g EXCEPT !.obj[o].alive = FALSE, !.frees[o] = @ + 1]

\* What cork_gc_recurse visits: every field that is not NULL.
recurse(g, o) == SelectSeq(g.obj[o].fields, LAMBDA f : f # NULL)

-----------------------------------------------------------------------------
(* The collector.                                                          *)

RECURSIVE cork_gc_mark_gray(_, _)

mark_gray_step(g, o) == cork_gc_mark_gray(Count(g, o, -1), o)

cork_gc_mark_gray(g, o) ==
    IF g.obj[o].color = "gray" THEN g ELSE FoldLeft(mark_gray_step, Color(g, o, "gray"), recurse(g, o))

\* A root that is not purple any more leaves the buffer; one that was released
\* while it was there is freed.
mark_root(g, i) ==
    LET o == g.roots[i]
        out == [Buffered(g, o, FALSE) EXCEPT !.roots[i] = NULL]
    IN IF g.obj[o].color = "purple" THEN cork_gc_mark_gray(g, o)
       ELSE IF g.obj[o].color = "black" /\ g.obj[o].count = 0 THEN cork_gc_free(out, o) ELSE out

RECURSIVE cork_gc_scan_black(_, _)
scan_black_step(g, o) ==
    LET up == Count(g, o, 1)
    IN IF up.obj[o].color # "black" THEN cork_gc_scan_black(up, o) ELSE up
cork_gc_scan_black(g, o) == FoldLeft(scan_black_step, Color(g, o, "black"), recurse(g, o))

RECURSIVE cork_gc_scan(_, _)

cork_gc_scan(g, o) ==
    IF g.obj[o].color # "gray" THEN g
    ELSE IF g.obj[o].count > 0 THEN cork_gc_scan_black(g, o)
    ELSE FoldLeft(cork_gc_scan, Color(g, o, "white"), recurse(g, o))

RECURSIVE cork_gc_collect_white(_, _)

cork_gc_collect_white(g, o) ==
    IF g.obj[o].color = "white" /\ ~g.obj[o].buffered
    THEN cork_gc_free(FoldLeft(cork_gc_collect_white, Color(g, o, "black"), recurse(g, o)), o)
    ELSE g

OverRoots(g, Step(_, _)) ==
    FoldLeft(LAMBDA k, i : IF k.roots[i] = NULL THEN k ELSE Step(k, i), g, [i \in 1..Len(g.roots) |-> i])

scan_root(g, i) == cork_gc_scan(g, g.roots[i])
collect_root(g, i) == [cork_gc_collect_white(Buffered(g, g.roots[i], FALSE), g.roots[i]) EXCEPT !.roots[i] = NULL]

cork_gc_collect_cycles(g) ==
    [OverRoots(OverRoots(OverRoots(g, mark_root), scan_root), collect_root) EXCEPT !.roots = <<>>]

-----------------------------------------------------------------------------
(* Reference counts.                                                       *)

cork_gc_possible_root(g, o) ==
    IF g.obj[o].color = "purple" THEN g
    ELSE LET purple == Color(g, o, "purple")
             buffered == Buffered(purple, o, TRUE)
             room == IF Len(g.roots) >= ROOTS_SIZE THEN cork_gc_collect_cycles(buffered) ELSE buffered
         IN IF g.obj[o].buffered THEN purple ELSE [room EXCEPT !.roots = Append(@, o)]

RECURSIVE cork_gc_release(_, _)

\* cork_gc_decref and cork_gc_decref_step.
cork_gc_decref(g, o) ==
    LET down == Count(g, o, -1)
    IN IF down.obj[o].count = 0 THEN cork_gc_release(down, o) ELSE cork_gc_possible_root(down, o)

cork_gc_release(g, o) ==
    LET black == Color(FoldLeft(cork_gc_decref, g, recurse(g, o)), o, "black")
    IN IF black.obj[o].buffered THEN black ELSE cork_gc_free(black, o)

cork_gc_incref(g, o) == Color(Count(g, o, 1), o, "black")

-----------------------------------------------------------------------------
(* The program.                                                            *)

GcStep(g) == gc' = g /\ gcSteps < MaxGcSteps /\ gcSteps' = gcSteps + 1
HeldOnes == {o \in GcObjects : held[o] > 0}

\* The memory of an object that was freed is used again.
Alloc(o) ==
    /\ ~gc.obj[o].alive
    /\ GcStep([gc EXCEPT !.obj[o] = cork_gc_alloc(1, [f \in DOMAIN @.fields |-> NULL]), !.frees[o] = 0])
    /\ held' = [held EXCEPT ![o] = 1] /\ collected' = FALSE

Drop(o) ==
    /\ held[o] > 0 /\ GcStep(cork_gc_decref(gc, o))
    /\ held' = [held EXCEPT ![o] = @ - 1] /\ collected' = FALSE

\* A reference is taken from a field of an object the program holds.
Take(o, f) ==
    /\ held[o] > 0 /\ gc.obj[o].fields[f] # NULL /\ held[gc.obj[o].fields[f]] = 0
    /\ GcStep(cork_gc_incref(gc, gc.obj[o].fields[f]))
    /\ held' = [held EXCEPT ![gc.obj[o].fields[f]] = 1] /\ collected' = FALSE

\* A field is set: the old reference is dropped after the new one is taken.
Store(o, f, p) ==
    /\ held[o] > 0 /\ (p # NULL => held[p] > 0) /\ gc.obj[o].fields[f] # p
    /\ LET old == gc.obj[o].fields[f]
           taken == IF p = NULL THEN gc ELSE cork_gc_incref(gc, p)
           set == [taken EXCEPT !.obj[o].fields[f] = p]
       IN GcStep(IF old = NULL THEN set ELSE cork_gc_decref(set, old))
    /\ UNCHANGED held /\ collected' = FALSE

\* cork_gc_done.
cork_gc_done ==
    /\ GcStep(cork_gc_collect_cycles(gc))
    /\ UNCHANGED held /\ collected' = TRUE

\* The references to o: the program's, and those in objects not yet released.
RefsTo(o) ==
    held[o] + Len(SelectSeq(FlattenSeq([i \in GcObjects |-> IF gc.obj[i].alive /\ gc.obj[i].count > 0
                                                            THEN gc.obj[i].fields ELSE <<>>]),
                            LAMBDA f : f = o))

Incoming(fields, o) == Len(SelectSeq(FlattenSeq(fields), LAMBDA f : f = o))

GcStart(fields) ==
    /\ gc = [obj |-> [o \in GcObjects |-> cork_gc_alloc(1 + Incoming(fields, o), fields[o])],
             roots |-> <<>>, frees |-> [o \in GcObjects |-> 0]]
    /\ held = [o \in GcObjects |-> 1] /\ gcSteps = 0 /\ collected = FALSE

GcInit == \E fields \in GcGraphs : GcStart(fields)

GcNext ==
    \/ \E o \in GcObjects :
        \/ Alloc(o) \/ Drop(o)
        \/ \E f \in 1..Len(gc.obj[o].fields) : Take(o, f) \/ \E p \in GcObjects \cup {NULL} : Store(o, f, p)
    \/ cork_gc_done

-----------------------------------------------------------------------------
(* What is claimed.                                                        *)

\* Between the calls every count is exact, the collector's decrements undone:
\* an object that is alive and not released has as many references as its count
\* says (cork_gc_mark_gray, cork_gc_scan_black), and is not left gray or white.
CountsExact ==
    \A o \in GcObjects : gc.obj[o].alive =>
        gc.obj[o].count = RefsTo(o) /\ gc.obj[o].color \in {"black", "purple"}

\* What the program can reach is never freed, and nothing is freed twice
\* (cork_gc_collect_white, cork_gc_release and mark_roots each free).  Both hold
\* while gc->roots has room: a collection that starts in the middle of a release
\* counts the fields of that object a second time.
FreesGarbageOnce ==
    /\ \A o \in GcObjects : held[o] > 0 => gc.obj[o].alive
    /\ \A o \in GcObjects : gc.obj[o].alive /\ gc.obj[o].count > 0 =>
        \A i \in 1..Len(gc.obj[o].fields) : gc.obj[o].fields[i] # NULL => gc.obj[gc.obj[o].fields[i]].alive
    /\ \A o \in GcObjects : gc.frees[o] <= 1

\* After a collection nothing is left that the program cannot reach, cycles
\* included (cork_gc_possible_root notes every place a cycle can be cut off at).
CyclesCollected ==
    collected =>
        LET From[n \in 0..Len(SetToSeq(GcObjects))] ==
                IF n = 0 THEN HeldOnes
                ELSE From[n - 1] \cup (UNION {ToSet(gc.obj[o].fields) : o \in From[n - 1]} \ {NULL})
        IN \A o \in GcObjects : gc.obj[o].alive => o \in From[Len(SetToSeq(GcObjects))]

-----------------------------------------------------------------------------
(***************************************************************************)
(* The hash table of libcork (libcork/ds/hash-table.c) with what it is     *)
(* made of: doubly linked lists (dllist.h), one for each bin and one for   *)
(* the insertion order, and a pool the entries come from (mempool.c).      *)
(*                                                                         *)
(* A list is a ring through its head.  The nodes of an entry e are in(e),  *)
(* in its bin, and ord(e), in the insertion order; the bins of an array of *)
(* n are bin(n, 0) to bin(n, n - 1), since a new array is always larger.   *)
(***************************************************************************)

CONSTANTS
    CtKeys, CtValues,
    CtHash(_),                          \* the hash function of the table
    CORK_HASH_TABLE_DEFAULT_INITIAL_SIZE,   \* 8
    CORK_HASH_TABLE_MAX_DENSITY,            \* 5
    PerBlock,                           \* entries in a block of the pool
    CtSizes,                            \* what cork_hash_table_ensure_size may be called with
    CtStarts,                           \* the keys that were put before
    MaxCtSteps                          \* bound: calls

VARIABLES
    ct,         \* the table: links, entry, bins (how many), count, pool
    ctRef,      \* the calls so far: the keys and values, in insertion order
    ctIter,     \* an iterator, the keys it has returned and those it owes
    ctSteps,
    ctMapped    \* cork_hash_table_map was asked to delete: bins hold freed entries

ct_vars == <<ct, ctRef, ctIter, ctSteps, ctMapped>>

-----------------------------------------------------------------------------
(* Doubly linked lists.                                                    *)

in(e) == <<"in", e, 0>>
ord(e) == <<"ord", e, 0>>
bin(n, i) == <<"bin", n, i>>
ORDER == <<"order", 0, 0>>

\* links gives the nodes next to each node.
cork_dllist_init(links, head) == (head :> [next |-> head, prev |-> head]) @@ links

cork_dllist_start(links, head) == links[head].next

cork_dllist_add(links, head, x) ==
    LET last == links[head].prev
        placed == (x :> [next |-> head, prev |-> last]) @@ links
    IN [[placed EXCEPT ![last].next = x] EXCEPT ![head].prev = x]

\* Mutant: the next node keeps its way back.
cork_dllist_remove_half(links, x) == [links EXCEPT ![links[x].prev].next = links[x].next]

cork_dllist_remove(links, x) ==
    LET out == [links EXCEPT ![links[x].prev].next = links[x].next]
    IN [out EXCEPT ![out[x].next].prev = out[x].prev]

\* The entries of a list.
RECURSIVE Walk(_, _, _)
Walk(links, head, x) == IF x = head THEN <<>> ELSE <<x[2]>> \o Walk(links, head, links[x].next)
ListOf(links, head) == Walk(links, head, cork_dllist_start(links, head))

-----------------------------------------------------------------------------
(* The pool.  An object is its number: block b has the objects from        *)
(* (b - 1) * PerBlock + 1.  The first word of a free one links it.         *)

cork_mempool_new == [free |-> <<>>, blocks |-> 0, allocated |-> 0]

cork_mempool_new_block(pool) ==
    [pool EXCEPT !.free = [i \in 1..PerBlock |-> (pool.blocks + 1) * PerBlock + 1 - i] \o @, !.blocks = @ + 1]

\* The pool that gives out the first of its list; new_object's object is Given.
cork_mempool_new_object(pool) == IF pool.free = <<>> THEN cork_mempool_new_block(pool) ELSE pool
Given(pool) == [pool EXCEPT !.free = Tail(@), !.allocated = @ + 1]

cork_mempool_free_object(pool, e) == [pool EXCEPT !.free = <<e>> \o @, !.allocated = @ - 1]

-----------------------------------------------------------------------------
(* The table.                                                              *)

\* A power of 2 that is at least as big.
cork_hash_table_new_size(desired) ==
    LET r == CHOOSE p \in {2 ^ k : k \in 0..8} : desired < 2 * p /\ (p <= desired \/ p = 1)
    IN IF r = desired THEN r ELSE 2 * r

bin_index(t, hash) == bin(t.bins, hash % t.bins)

cork_hash_table_allocate_bins(t, desired) ==
    LET n == cork_hash_table_new_size(desired)
    IN [t EXCEPT !.bins = n,
                 !.links = FoldLeft(cork_dllist_init, @, [i \in 1..n |-> bin(n, i - 1)])]

cork_hash_table_new(initial) ==
    cork_hash_table_allocate_bins(
        [links |-> cork_dllist_init(<<>>, ORDER), entry |-> <<>>, bins |-> 0, count |-> 0, pool |-> cork_mempool_new],
        Max({initial, CORK_HASH_TABLE_DEFAULT_INITIAL_SIZE}))

\* An entry moves to its bin in the new array.
Rehashed(old, t, e) == [t EXCEPT !.links = cork_dllist_add(@, bin_index(t, t.entry[e].hash), in(e))]

cork_hash_table_ensure_size(t, desired) ==
    IF desired <= t.bins THEN t
    ELSE FoldLeft(LAMBDA k, e : Rehashed(t, k, e), cork_hash_table_allocate_bins(t, desired),
                  FlattenSeq([i \in 1..t.bins |-> ListOf(t.links, bin(t.bins, i - 1))]))

cork_hash_table_rehash(t) == cork_hash_table_ensure_size(t, t.bins + 1)

\* The entry of the key in its bin, 0 if there is none.
cork_hash_table_get_entry(t, key) ==
    LET hit == SelectSeq(ListOf(t.links, bin_index(t, CtHash(key))), LAMBDA e : t.entry[e].key = key)
    IN IF hit = <<>> THEN 0 ELSE hit[1]

cork_hash_table_get(t, key) ==
    LET e == cork_hash_table_get_entry(t, key) IN IF e = 0 THEN 0 ELSE t.entry[e].value

cork_hash_table_new_entry(t, key, value) ==
    LET pool == cork_mempool_new_object(t.pool)
        e == Head(pool.free)
    IN [t EXCEPT !.pool = Given(pool), !.links = cork_dllist_add(@, ORDER, ord(e)),
                 !.entry = (e :> [hash |-> CtHash(key), key |-> key, value |-> value]) @@ @]

cork_hash_table_free_entry(t, e) ==
    [t EXCEPT !.links = cork_dllist_remove(@, ord(e)), !.pool = cork_mempool_free_object(@, e)]

\* A key the table does not have: get_or_create, with no value, and put.
Create(t, key, value) ==
    LET room == IF (t.count \div t.bins) > CORK_HASH_TABLE_MAX_DENSITY THEN cork_hash_table_rehash(t) ELSE t
        new == cork_hash_table_new_entry(room, key, value)
        e == Head(cork_mempool_new_object(room.pool).free)
    IN [new EXCEPT !.links = cork_dllist_add(@, bin_index(new, CtHash(key)), in(e)), !.count = @ + 1]

cork_hash_table_get_or_create(t, key) ==
    IF cork_hash_table_get_entry(t, key) # 0 THEN t ELSE Create(t, key, 0)

cork_hash_table_put(t, key, value) ==
    LET e == cork_hash_table_get_entry(t, key)
    IN IF e # 0 THEN [t EXCEPT !.entry[e].value = value] ELSE Create(t, key, value)

cork_hash_table_delete_entry(t, e) ==
    cork_hash_table_free_entry([t EXCEPT !.links = cork_dllist_remove(@, in(e)), !.count = @ - 1], e)

cork_hash_table_delete(t, key) ==
    LET e == cork_hash_table_get_entry(t, key)
    IN IF e = 0 THEN t ELSE cork_hash_table_delete_entry(t, e)

cork_hash_table_clear(t) ==
    LET freed == FoldLeft(cork_hash_table_free_entry, t, ListOf(t.links, ORDER))
    IN [freed EXCEPT !.links = FoldLeft(cork_dllist_init, @,
                                        <<ORDER>> \o [i \in 1..t.bins |-> bin(t.bins, i - 1)]),
                     !.count = 0]

\* cork_hash_table_map, until the callback says to abort.  An entry it says to
\* delete leaves the insertion order, twice, and not its bin.
RECURSIVE Map(_, _, _)
Map(t, x, verdict) ==
    LET e == x[2]
        next == t.links[x].next
    IN IF x = ORDER \/ verdict[t.entry[e].key] = "abort" THEN t
       ELSE Map(IF verdict[t.entry[e].key] = "continue" THEN t
                ELSE cork_hash_table_free_entry(
                         [t EXCEPT !.links = cork_dllist_remove(@, x), !.count = @ - 1], e),
                next, verdict)
cork_hash_table_map(t, verdict) == Map(t, cork_dllist_start(t.links, ORDER), verdict)

-----------------------------------------------------------------------------
(* The calls.                                                              *)

Call(t) == ct' = t /\ ~ctMapped /\ ctSteps < MaxCtSteps /\ ctSteps' = ctSteps + 1

Has(key) == \E i \in 1..Len(ctRef) : ctRef[i].key = key
Added(key, value) == Append(ctRef, [key |-> key, value |-> value])
RefWithout(keys) == SelectSeq(ctRef, LAMBDA r : r.key \notin keys)

\* The iterator after these entries are deleted: it may be at one of them.
IterWithout(es) ==
    [ctIter EXCEPT !.lost = @ \/ \E e \in es : ctIter.at = ord(e), !.due = @ \ {ct.entry[e].key : e \in es}]

PutCall(key, value) ==
    /\ Call(cork_hash_table_put(ct, key, value))
    /\ ctRef' = IF Has(key) THEN [i \in 1..Len(ctRef) |-> IF ctRef[i].key = key THEN [key |-> key, value |-> value]
                                                         ELSE ctRef[i]]
                ELSE Added(key, value)
    /\ UNCHANGED <<ctIter, ctMapped>>

GetOrCreate(key) ==
    /\ Call(cork_hash_table_get_or_create(ct, key))
    /\ ctRef' = IF Has(key) THEN ctRef ELSE Added(key, 0)
    /\ UNCHANGED <<ctIter, ctMapped>>

Delete(key) ==
    /\ Call(cork_hash_table_delete(ct, key))
    /\ ctRef' = RefWithout({key})
    /\ ctIter' = IterWithout({cork_hash_table_get_entry(ct, key)} \ {0})
    /\ UNCHANGED ctMapped

EnsureSize(n) == Call(cork_hash_table_ensure_size(ct, n)) /\ UNCHANGED <<ctRef, ctIter, ctMapped>>

Clear ==
    /\ Call(cork_hash_table_clear(ct))
    /\ ctRef' = <<>> /\ ctIter' = IterWithout(ToSet(ListOf(ct.links, ORDER)))
    /\ UNCHANGED ctMapped

\* The callback deletes some keys and may stop at one.
MapCall(deletes, stop) ==
    LET verdict == [k \in CtKeys |-> IF k \in stop THEN "abort" ELSE IF k \in deletes THEN "delete" ELSE "continue"]
        order == [i \in 1..Len(ctRef) |-> ctRef[i].key]
        seen == {order[i] : i \in {j \in 1..Len(order) : \A h \in 1..j : order[h] \notin stop}}
    IN /\ Call(cork_hash_table_map(ct, verdict))
       /\ ctRef' = RefWithout(deletes \cap seen)
       /\ ctMapped' = (deletes \cap seen # {})
       /\ ctIter' = IterWithout({e \in ToSet(ListOf(ct.links, ORDER)) : ct.entry[e].key \in deletes \cap seen})

iterator_start(t) == cork_dllist_start(t.links, ORDER)

cork_hash_table_iterator_init ==
    /\ Call(ct)
    /\ ctIter' = [at |-> iterator_start(ct), seen |-> {}, lost |-> FALSE,
                  due |-> {ctRef[i].key : i \in 1..Len(ctRef)}]
    /\ UNCHANGED <<ctRef, ctMapped>>

\* The caller stops at the end, and when it has deleted the entry that is next.
cork_hash_table_iterator_next ==
    /\ ~ctIter.lost /\ ctIter.at # ORDER /\ Call(ct)
    /\ ctIter' = [ctIter EXCEPT !.at = ct.links[@].next, !.seen = @ \cup {ct.entry[ctIter.at[2]].key}]
    /\ UNCHANGED <<ctRef, ctMapped>>

CtStart(keys, v) ==
    /\ ct = FoldLeft(LAMBDA t, k : cork_hash_table_put(t, k, v), cork_hash_table_new(0), keys)
    /\ ctRef = [i \in 1..Len(keys) |-> [key |-> keys[i], value |-> v]]
    /\ ctSteps = 0 /\ ctMapped = FALSE
    /\ ctIter = [at |-> ORDER, seen |-> {}, lost |-> TRUE, due |-> {}]

CtInit == \E keys \in CtStarts, v \in CtValues : CtStart(keys, v)

CtNext ==
    \/ \E k \in CtKeys : GetOrCreate(k) \/ Delete(k) \/ \E v \in CtValues : PutCall(k, v)
    \/ \E n \in CtSizes : EnsureSize(n)
    \/ Clear
    \/ \E d, s \in kSubset(1, CtKeys) \cup {{}} : MapCall(d, s)
    \/ cork_hash_table_iterator_init \/ cork_hash_table_iterator_next

-----------------------------------------------------------------------------
(* What is claimed.                                                        *)

\* Whatever was put, replaced, deleted and rehashed, the table answers as the
\* map of those calls does and keeps its insertion order both ways round.  An
\* entry that cork_hash_table_map deletes is the exception: it stays in its bin,
\* and is found there after it was freed.
TableIsMap ==
    LET order == ListOf(ct.links, ORDER)
    IN /\ [i \in 1..Len(order) |-> [key |-> ct.entry[order[i]].key, value |-> ct.entry[order[i]].value]] = ctRef
       /\ ct.count = Len(ctRef)
       /\ \A x \in {ORDER} \cup {ord(e) : e \in ToSet(order)} : ct.links[ct.links[x].next].prev = x
       /\ ~ctMapped => \A k \in CtKeys :
            IF Has(k) THEN \E i \in 1..Len(ctRef) : ctRef[i] = [key |-> k, value |-> cork_hash_table_get(ct, k)]
                           /\ cork_hash_table_get_entry(ct, k) # 0
            ELSE cork_hash_table_get_entry(ct, k) = 0

\* Every object of the pool's blocks is in an entry or on the free list, once:
\* no entry is given out twice (cork_mempool_new_block, cork_mempool_free_object,
\* the assert of cork_mempool_free).
PoolSound ==
    LET all == ct.pool.free \o ListOf(ct.links, ORDER)
    IN /\ ct.pool.allocated = Len(ListOf(ct.links, ORDER))
       /\ Len(all) = ct.pool.blocks * PerBlock /\ ToSet(all) = 1..(ct.pool.blocks * PerBlock)

\* An iteration that ends has returned every key that was there when it began
\* and is still, though keys were put and deleted and the bins reallocated
\* meanwhile, unless the entry it was to return next was deleted
\* (cork_hash_table_iterator_next keeps a pointer to it).
IterationComplete == ~ctIter.lost /\ ctIter.at = ORDER => ctIter.due \subseteq ctIter.seen

-----------------------------------------------------------------------------
(***************************************************************************)
(* Slices and managed buffers of libcork (libcork/ds/slice.c,              *)
(* managed-buffer.c, and cork_buffer_to_slice of buffer.c): views of       *)
(* memory that may be static, the caller's for as long as a call lasts     *)
(* (copy-once), or counted.                                                *)
(*                                                                         *)
(* The caller's memory has Size bytes.  Which bytes a slice shows is told  *)
(* by where the first of them was in that memory, however often they were  *)
(* copied since.                                                           *)
(***************************************************************************)

CONSTANTS
    Slots,          \* variables of type struct cork_slice
    ManagedBufs,    \* addresses of managed buffers
    RegionSize,
    MaxSliceSteps   \* bound: calls

VARIABLES
    slices,     \* mem: where buf points to, NONE for a cleared slice; iface; off; size
    mbufs,      \* ref_count, the byte it starts at, size, and how often it was freed
    mrefs,      \* references the program holds itself
    shown,      \* what each slice ought to show, and whether it was copied for good
    gone,       \* the caller's memory was used for something else
    sliceSteps

slice_vars == <<slices, mbufs, mrefs, shown, gone, sliceSteps>>

CLEARED == "none"
cork_slice_clear == [iface |-> CLEARED, mem |-> 0, off |-> 0, size |-> 0]

\* off is the place in the caller's memory, or in the managed buffer mem.
Slice(iface, mem, off, size) == [iface |-> iface, mem |-> mem, off |-> off, size |-> size]

InRange(size, offset, length) == offset <= size /\ offset + length <= size

\* What a slice shows: the place of its first byte, and how many.
Shows(s) == [from |-> s.off + (IF s.iface = "managed" THEN mbufs[s.mem].base ELSE 0), size |-> s.size]

-----------------------------------------------------------------------------
(* Managed buffers, in the state m.                                        *)

Unused == {b \in ManagedBufs : mbufs[b].ref = 0}

\* cork_managed_buffer_new and _new_copy, and cork_buffer_to_managed_buffer.
cork_managed_buffer_new(m, b, base, size) ==
    [m EXCEPT ![b] = [ref |-> 1, base |-> base, size |-> size, frees |-> 0]]

cork_managed_buffer_ref(m, b) == [m EXCEPT ![b].ref = @ + 1]

cork_managed_buffer_unref(m, b) ==
    LET left == m[b].ref - 1
    IN [m EXCEPT ![b].ref = left, ![b].frees = IF left = 0 THEN @ + 1 ELSE @]

\* cork_managed_buffer_slice: the slice, and the reference it takes.
ManagedSlice(b, offset, length) == Slice("managed", b, offset, length)

-----------------------------------------------------------------------------
(* The copies an interface makes of a slice src.                           *)

\* cork_static_slice_copy.
cork_static_slice_copy(src, offset, length) == Slice("static", 0, src.off + offset, length)

\* cork_copy_once_slice__light_copy.
copy_once_light_copy(src, offset, length) == Slice("copy_once", 0, src.off + offset, length)

\* cork_managed_buffer__slice_copy counts a reference.
managed_slice_copied(m, src) == cork_managed_buffer_ref(m, src.mem)

managed_slice_copy(src, offset, length) == Slice("managed", src.mem, src.off + offset, length)

\* cork_copy_once_slice__copy makes src a slice of the copy, too.
copied_source(src, b) == ManagedSlice(b, 0, src.size)

-----------------------------------------------------------------------------
(* The calls.                                                              *)

SliceStep(next) == sliceSteps < MaxSliceSteps /\ sliceSteps' = sliceSteps + 1 /\ slices' = next

Fill(d, s) == [slices EXCEPT ![d] = s]
Show(d, from, size) == shown' = [shown EXCEPT ![d] = [from |-> from, size |-> size, own |-> FALSE]]

Init_(d, iface) ==
    /\ slices[d].iface = CLEARED /\ ~gone
    /\ SliceStep(Fill(d, Slice(iface, 0, 0, RegionSize)))
    /\ Show(d, 0, RegionSize) /\ UNCHANGED <<mbufs, mrefs, gone>>
cork_slice_init_static(d) == Init_(d, "static")
cork_slice_init_copy_once(d) == Init_(d, "copy_once")

\* The program wraps a copy of the caller's memory, or a buffer, and keeps the reference.
NewManaged(b) ==
    /\ b \in Unused /\ mrefs[b] = 0 /\ ~gone
    /\ SliceStep(slices) /\ mbufs' = cork_managed_buffer_new(mbufs, b, 0, RegionSize)
    /\ mrefs' = [mrefs EXCEPT ![b] = 1] /\ UNCHANGED <<shown, gone>>

Unref(b) ==
    /\ mrefs[b] > 0
    /\ SliceStep(slices) /\ mbufs' = cork_managed_buffer_unref(mbufs, b)
    /\ mrefs' = [mrefs EXCEPT ![b] = @ - 1] /\ UNCHANGED <<shown, gone>>

cork_managed_buffer_slice(d, b, offset, length) ==
    /\ slices[d].iface = CLEARED /\ mrefs[b] > 0
    /\ IF InRange(mbufs[b].size, offset, length)
       THEN /\ SliceStep(Fill(d, ManagedSlice(b, offset, length))) /\ mbufs' = cork_managed_buffer_ref(mbufs, b)
            /\ Show(d, mbufs[b].base + offset, length)
       ELSE SliceStep(Fill(d, cork_slice_clear)) /\ UNCHANGED <<mbufs, shown>>
    /\ UNCHANGED <<mrefs, gone>>

\* A buffer becomes a slice: the reference it was made with is dropped.
cork_buffer_to_slice(d, b) ==
    /\ slices[d].iface = CLEARED /\ b \in Unused /\ ~gone
    /\ mbufs' = cork_managed_buffer_unref(cork_managed_buffer_ref(
                    cork_managed_buffer_new(mbufs, b, 0, RegionSize), b), b)
    /\ SliceStep(Fill(d, ManagedSlice(b, 0, RegionSize))) /\ Show(d, 0, RegionSize)
    /\ UNCHANGED <<mrefs, gone>>

\* A slice of memory that is still there.
Usable(s) == s.iface # CLEARED /\ (s.iface = "copy_once" => ~gone)

\* The copy of src an interface makes, light or not.
CopyMade(d, s, offset, length, light) ==
    LET src == slices[s]
    IN CASE src.iface = "static" ->
                SliceStep(Fill(d, cork_static_slice_copy(src, offset, length))) /\ UNCHANGED mbufs
         [] src.iface = "managed" ->
                /\ SliceStep(Fill(d, managed_slice_copy(src, offset, length)))
                /\ mbufs' = managed_slice_copied(mbufs, src)
         [] src.iface = "copy_once" /\ light ->
                SliceStep(Fill(d, copy_once_light_copy(src, offset, length))) /\ UNCHANGED mbufs
         [] OTHER -> \E b \in Unused :
                /\ mbufs' = cork_managed_buffer_unref(cork_managed_buffer_ref(cork_managed_buffer_ref(
                                cork_managed_buffer_new(mbufs, b, src.off, src.size), b), b), b)
                /\ SliceStep([slices EXCEPT ![d] = ManagedSlice(b, offset, length), ![s] = copied_source(src, b)])

\* cork_slice_copy and cork_slice_light_copy, to a slice that was cleared.
CopySlice(d, s, offset, length, light) ==
    /\ d # s /\ slices[d].iface = CLEARED /\ Usable(slices[s])
    /\ IF InRange(slices[s].size, offset, length)
       THEN LET own == shown[s].own \/ (~light /\ slices[s].iface # "static")
            IN /\ CopyMade(d, s, offset, length, light)
               /\ shown' = [shown EXCEPT ![s].own = own,
                                         ![d] = [from |-> shown[s].from + offset, size |-> length, own |-> own]]
       ELSE SliceStep(Fill(d, cork_slice_clear)) /\ UNCHANGED <<mbufs, shown>>
    /\ UNCHANGED <<mrefs, gone>>
cork_slice_copy(d, s, offset, length) == CopySlice(d, s, offset, length, FALSE)
cork_slice_light_copy(d, s, offset, length) == CopySlice(d, s, offset, length, TRUE)

\* No interface has a slice of its own.
cork_slice_slice(s, offset, length) ==
    /\ Usable(slices[s])
    /\ IF InRange(slices[s].size, offset, length)
       THEN /\ SliceStep([slices EXCEPT ![s].off = @ + offset, ![s].size = length])
            /\ shown' = [shown EXCEPT ![s].from = @ + offset, ![s].size = length]
       ELSE SliceStep(slices) /\ UNCHANGED shown
    /\ UNCHANGED <<mbufs, mrefs, gone>>

cork_slice_finish(s) ==
    /\ slices[s].iface # CLEARED
    /\ mbufs' = IF slices[s].iface = "managed" THEN cork_managed_buffer_unref(mbufs, slices[s].mem) ELSE mbufs
    /\ SliceStep(Fill(s, cork_slice_clear)) /\ UNCHANGED <<mrefs, shown, gone>>

\* The call that lent its memory returns.
CallerReuses == ~gone /\ gone' = TRUE /\ SliceStep(slices) /\ UNCHANGED <<mbufs, mrefs, shown>>

SliceInit ==
    /\ slices = [d \in Slots |-> cork_slice_clear]
    /\ mbufs = [b \in ManagedBufs |-> [ref |-> 0, base |-> 0, size |-> 0, frees |-> 0]]
    /\ mrefs = [b \in ManagedBufs |-> 0]
    /\ shown = [d \in Slots |-> [from |-> 0, size |-> 0, own |-> FALSE]] /\ gone = FALSE /\ sliceSteps = 0

SliceNext ==
    \/ \E d \in Slots :
        \/ cork_slice_init_static(d) \/ cork_slice_init_copy_once(d) \/ cork_slice_finish(d)
        \/ \E b \in ManagedBufs : cork_buffer_to_slice(d, b)
        \/ \E offset, length \in 0..RegionSize :
            \/ \E b \in ManagedBufs : cork_managed_buffer_slice(d, b, offset, length)
            \/ cork_slice_slice(d, offset, length)
            \/ \E s \in Slots : cork_slice_copy(d, s, offset, length) \/ cork_slice_light_copy(d, s, offset, length)
    \/ \E b \in ManagedBufs : NewManaged(b) \/ Unref(b)
    \/ CallerReuses

-----------------------------------------------------------------------------
(* What is claimed.                                                        *)

\* A managed buffer lives exactly as long as slices or the program refer to it
\* and is freed once, however slices are copied, narrowed and finished
\* (cork_managed_buffer_ref and _unref in managed-buffer.c and slice.c).
RefsExact ==
    \A b \in ManagedBufs :
        /\ mbufs[b].ref = mrefs[b] + Cardinality({d \in Slots : slices[d].iface = "managed" /\ slices[d].mem = b})
        /\ mbufs[b].frees <= 1 /\ (mbufs[b].frees = 1 => mbufs[b].ref = 0)

\* A slice shows the bytes it was made to show and stays within the memory it
\* points to; and a copy of a copy-once slice, and the slice itself from then on,
\* show them after the caller's memory is gone (cork_copy_once_slice__copy).
ShowsItsBytes ==
    \A d \in Slots : slices[d].iface # CLEARED =>
        /\ Shows(slices[d]) = [from |-> shown[d].from, size |-> shown[d].size]
        /\ shown[d].own => slices[d].iface = "managed"
        /\ slices[d].off + slices[d].size <=
             IF slices[d].iface = "managed" THEN mbufs[slices[d].mem].size ELSE RegionSize

-----------------------------------------------------------------------------
(***************************************************************************)
(* The growing buffers, arrays of strings and rings of libcork             *)
(* (libcork/ds/buffer.c, array.c, ring-buffer.c).                          *)
(*                                                                         *)
(* A byte is its number (a char is signed); a byte nobody has written is   *)
(* GARBAGE.  A buffer is the memory it has allocated, <<>> for NULL, and   *)
(* its size.  A string of an array is its number, 0 is NULL.               *)
(***************************************************************************)

CONSTANTS
    DUMP,           \* bytes on a line of a hex dump, 16
    BufCases        \* what is used: a buffer, two arrays, a ring, a way to print bytes

GARBAGE == 1000
NUL == 0

VARIABLES
    bufCase,    \* kind: "buffer" (texts, steps), "array" (steps), "ring" (room, steps), "print" (chars)
    buf,        \* the buffer
    text,       \* what it should hold
    arrays,     \* a pair of arrays of strings
    strings,    \* the strings by number: how often each was freed
    ring, queue,    \* a ring, and the elements that should be in it
    bufSteps

buf_vars == <<bufCase, buf, text, arrays, strings, ring, queue, bufSteps>>

-----------------------------------------------------------------------------
(* Buffers.                                                                *)

cork_buffer_init == [bytes |-> <<>>, size |-> 0, over |-> FALSE]

\* xs is written behind the first at bytes.
Write(b, at, xs) ==
    [b EXCEPT !.bytes = [i \in 1..Len(b.bytes) |-> IF i \in (at + 1)..(at + Len(xs)) THEN xs[i - at] ELSE b.bytes[i]],
              !.over = @ \/ at + Len(xs) > Len(b.bytes)]

\* At least twice as much.
cork_buffer_ensure_size(b, desired) ==
    LET have == Len(b.bytes)
    IN IF have >= desired THEN b
       ELSE [b EXCEPT !.bytes = @ \o [i \in 1..(Max({2 * have, desired}) - have) |-> GARBAGE]]

cork_buffer_clear(b) ==
    [(IF b.bytes = <<>> THEN b ELSE Write(b, 0, <<NUL>>)) EXCEPT !.size = 0]

cork_buffer_truncate(b, length) ==
    IF b.size > length THEN [Write(b, length, <<NUL>>) EXCEPT !.size = length] ELSE b

cork_buffer_set(b, xs) ==
    [Write(cork_buffer_ensure_size(b, Len(xs) + 1), 0, Append(xs, NUL)) EXCEPT !.size = Len(xs)]

cork_buffer_append(b, xs) ==
    [Write(cork_buffer_ensure_size(b, b.size + Len(xs) + 1), b.size, Append(xs, NUL)) EXCEPT !.size = @ + Len(xs)]

\* vsnprintf at the end of the buffer: as much as there is room for.
vsnprintf(b, xs) ==
    LET room == Len(b.bytes) - b.size
    IN IF room = 0 THEN b ELSE Write(b, b.size, Append(SubSeq(xs, 1, Min({room - 1, Len(xs)})), NUL))

fits(b, length) == length < Len(b.bytes) - b.size

cork_buffer_append_vprintf(b, xs) ==
    LET first == vsnprintf(b, xs)
    IN [(IF fits(b, Len(xs)) THEN first
         ELSE vsnprintf(cork_buffer_ensure_size(first, Len(b.bytes) + Len(xs) + 1), xs)) EXCEPT !.size = @ + Len(xs)]

cork_buffer_vprintf(b, xs) == cork_buffer_append_vprintf(cork_buffer_clear(b), xs)

Spaces(n) == [i \in 1..n |-> 32]
cork_buffer_append_indent(b, indent) == cork_buffer_append(b, Spaces(indent))

\* cork_buffer_stream_consumer_data.
cork_buffer_stream_consumer_data(b, xs, is_first_chunk) ==
    cork_buffer_append(IF is_first_chunk THEN cork_buffer_clear(b) ELSE b, xs)

-----------------------------------------------------------------------------
(* Printing bytes.                                                         *)

is_sprint(ch) == ch \in 32..126
is_print(ch) == ch \in 33..126
is_space(ch) == ch \in {32, 12, 10, 13, 9, 11}
to_hex(nybble) == IF nybble < 10 THEN 48 + nybble ELSE 87 + nybble
Hex(ch) == LET u8 == ch % 256 IN <<to_hex(u8 \div 16), to_hex(u8 % 16)>>

\* \" \\ \f \n \r \t \v.
EscapeLetter == (34 :> 34) @@ (92 :> 92) @@ (12 :> 102) @@ (10 :> 110) @@ (13 :> 114) @@ (9 :> 116) @@ (11 :> 118)

Escaped(ch) ==
    IF ch \in DOMAIN EscapeLetter THEN <<92, EscapeLetter[ch]>>
    ELSE IF is_sprint(ch) THEN <<ch>> ELSE <<92, 120>> \o Hex(ch)

cork_buffer_append_c_string(b, chars) ==
    cork_buffer_append(
        FoldLeft(LAMBDA k, ch : cork_buffer_append(k, Escaped(ch)), cork_buffer_append(b, <<34>>), chars),
        <<34>>)

\* A line of the dump from the bytes gathered: "%-48.*s", " |", the characters, "|".
DumpRow(b, chars) ==
    LET hex == FlattenSeq([i \in 1..Len(chars) |-> Append(Hex(chars[i]), 32)])
        print == [i \in 1..Len(chars) |-> IF is_sprint(chars[i]) THEN chars[i] ELSE 46]
    IN cork_buffer_append(cork_buffer_append_vprintf(b, hex \o Spaces(3 * DUMP - Len(hex))),
                          <<32, 124>> \o print \o <<124>>)

last_column == DUMP - 1

\* The loop of cork_buffer_append_hex_dump, at the byte i.
DumpByte(k, chars, i, indent) ==
    LET row == Append(k.row, chars[i])
    IN IF k.column = 0 /\ i # 1
       THEN [b |-> cork_buffer_append_indent(cork_buffer_append(k.b, <<10>>), indent), row |-> row, column |-> 1]
       ELSE IF k.column = last_column THEN [b |-> DumpRow(k.b, row), row |-> <<>>, column |-> 0]
       ELSE [k EXCEPT !.row = row, !.column = @ + 1]

cork_buffer_append_hex_dump(b, indent, chars) ==
    LET end == FoldLeft(LAMBDA k, i : DumpByte(k, chars, i, indent), [b |-> b, row |-> <<>>, column |-> 0],
                        [i \in 1..Len(chars) |-> i])
    IN IF end.column > 0 THEN DumpRow(end.b, end.row) ELSE end.b

cork_buffer_append_multiline(b, indent, chars) ==
    FoldLeft(LAMBDA k, ch : IF ch = 10 THEN cork_buffer_append_indent(cork_buffer_append(k, <<10>>), indent)
                            ELSE cork_buffer_append(k, <<ch>>), b, chars)

\* "(hex)" and "(multiline)" are one byte each here.
HEX == <<501, 10>>
MULTILINE == <<502, 10>>

cork_buffer_append_binary(b, indent, chars) ==
    IF \E i \in 1..Len(chars) : ~is_print(chars[i]) /\ ~is_space(chars[i])
    THEN cork_buffer_append_hex_dump(cork_buffer_append_indent(cork_buffer_append(b, HEX), indent), indent, chars)
    ELSE IF 10 \in ToSet(chars)
    THEN cork_buffer_append_multiline(cork_buffer_append_indent(cork_buffer_append(b, MULTILINE), indent),
                                      indent, chars)
    ELSE cork_buffer_append(b, chars)

Text(b) == SubSeq(b.bytes, 1, b.size)

-----------------------------------------------------------------------------
(* Arrays of strings: raw arrays whose elements pointer__init sets to      *)
(* NULL, and pointer__remove and pointer__done free.                       *)

cork_raw_array_init == [items |-> <<>>, size |-> 0, initialized |-> 0]

cork_raw_array_ensure_size(a, desired) ==
    LET have == Len(a.items)
    IN IF desired <= have THEN a
       ELSE [a EXCEPT !.items = @ \o [i \in 1..(Max({2 * have, desired}) - have) |-> GARBAGE]]

\* cork_raw_array_append: init for an element that never was, no reuse.
Appended(a, s) ==
    LET index == a.size + 1
        room == cork_raw_array_ensure_size(a, index)
    IN [room EXCEPT !.size = index, !.initialized = Max({@, index}), !.items[index] = s]

\* The strings of the elements that were initialized.
Initialized(a) == {a.items[i] : i \in 1..a.initialized} \ {NUL}

\* pointer__remove of every element that was initialized.
pointer_remove(a) == [i \in 1..Len(a.items) |-> IF i <= a.initialized THEN NUL ELSE a.items[i]]

cork_raw_array_clear(a) == [a EXCEPT !.items = pointer_remove(a), !.size = 0]

\* cork_raw_array_copy with string__copy, dest cleared: the copies are new strings.
CopiedStrings(dest, strs) ==
    LET room == cork_raw_array_ensure_size(dest, Len(strs))
        inited == [i \in 1..Len(room.items) |->
                     IF i \in (room.initialized + 1)..Len(strs) THEN NUL ELSE room.items[i]]
    IN [room EXCEPT !.items = [i \in 1..Len(room.items) |-> IF i <= Len(strs) THEN strs[i] ELSE inited[i]],
                    !.initialized = Max({@, Len(strs)}), !.size = Len(strs)]

\* free of each of these, and a string more than once if it is there twice.
Freed(ss, which) == [s \in 1..Len(ss) |-> IF s \in which THEN ss[s] + 1 ELSE ss[s]]

-----------------------------------------------------------------------------
(* Rings.                                                                  *)

cork_ring_buffer_init(size) == [elements |-> [i \in 0..(size - 1) |-> 0], allocated |-> size,
                                size |-> 0, read |-> 0, write |-> 0]

Wrap(r, index) == IF index = r.allocated THEN 0 ELSE index

\* 0 for NULL.
cork_ring_buffer_peek(r) == IF r.size = 0 THEN 0 ELSE r.elements[r.read]

-----------------------------------------------------------------------------
(* What the program does.                                                  *)

Does(kind) ==
    /\ bufCase.kind = kind /\ bufSteps < bufCase.steps /\ bufSteps' = bufSteps + 1
    /\ UNCHANGED bufCase

OnBuffer(b, t) == Does("buffer") /\ buf' = b /\ text' = t /\ UNCHANGED <<arrays, strings, ring, queue>>

BufferStep ==
    /\ bufCase.kind = "buffer"
    /\ \/ \E xs \in bufCase.texts :
            \/ OnBuffer(cork_buffer_set(buf, xs), xs)
            \/ OnBuffer(cork_buffer_append(buf, xs), text \o xs)
            \/ OnBuffer(cork_buffer_append_vprintf(buf, xs), text \o xs)
            \/ OnBuffer(cork_buffer_vprintf(buf, xs), xs)
            \/ \E first \in BOOLEAN :
                OnBuffer(cork_buffer_stream_consumer_data(buf, xs, first), IF first THEN xs ELSE text \o xs)
       \/ \E n \in 0..2 :
            \/ OnBuffer(cork_buffer_truncate(buf, n), SubSeq(text, 1, Min({n, Len(text)})))
            \/ OnBuffer(cork_buffer_append_indent(buf, n), text \o Spaces(n))
            \/ OnBuffer(cork_buffer_ensure_size(buf, n), text)
       \/ OnBuffer(cork_buffer_clear(buf), <<>>)
       \/ OnBuffer(cork_buffer_init, <<>>)

OnArrays(as, ss) == Does("array") /\ arrays' = as /\ strings' = ss /\ UNCHANGED <<buf, text, ring, queue>>

\* cork_string_array_append, _clear, _copy and _done, of one of two arrays.
ArrayStep ==
    \E a \in 1..2 :
        LET new == Len(strings) + 1
            strs == SubSeq(arrays[3 - a].items, 1, arrays[3 - a].size)
            copies == [i \in 1..Len(strs) |-> Len(strings) + i]
        IN \/ OnArrays([arrays EXCEPT ![a] = Appended(@, new)], Append(strings, 0))
           \/ OnArrays([arrays EXCEPT ![a] = cork_raw_array_clear(@)], Freed(strings, Initialized(arrays[a])))
           \/ OnArrays([arrays EXCEPT ![a] = CopiedStrings(cork_raw_array_clear(@), copies)],
                       Freed(strings, Initialized(arrays[a])) \o [i \in 1..Len(strs) |-> 0])
           \/ OnArrays([arrays EXCEPT ![a] = cork_raw_array_init], Freed(strings, Initialized(arrays[a])))

OnRing(r, q) == Does("ring") /\ ring' = r /\ queue' = q /\ UNCHANGED <<buf, text, arrays, strings>>

cork_ring_buffer_add ==
    IF ring.size = ring.allocated THEN OnRing(ring, queue)
    ELSE OnRing([ring EXCEPT !.elements = (ring.write :> bufSteps + 1) @@ @, !.size = @ + 1,
                             !.write = Wrap(ring, @ + 1)], Append(queue, bufSteps + 1))

cork_ring_buffer_pop ==
    IF ring.size = 0 THEN OnRing(ring, queue)
    ELSE OnRing([ring EXCEPT !.size = @ - 1, !.read = Wrap(ring, @ + 1)], Tail(queue))

RingStep == cork_ring_buffer_add \/ cork_ring_buffer_pop

BufStart ==
    /\ buf = cork_buffer_init /\ text = <<>>
    /\ arrays = [a \in 1..2 |-> cork_raw_array_init] /\ strings = <<>>
    /\ ring = cork_ring_buffer_init(IF bufCase.kind = "ring" THEN bufCase.room ELSE 1) /\ queue = <<>>
    /\ bufSteps = 0

BufInit == bufCase \in BufCases /\ BufStart

BufNext == BufferStep \/ ArrayStep \/ RingStep

-----------------------------------------------------------------------------
(* What is claimed.                                                        *)

\* Whatever is set, appended, printed and truncated, a buffer holds just that,
\* is never written past what it has allocated, and ends in a NUL that is not
\* part of it (cork_buffer_append_vprintf's second try, cork_buffer_truncate);
\* there is none yet in a buffer that was only made large enough.
BufferHolds ==
    /\ Text(buf) = text /\ ~buf.over
    /\ buf.bytes # <<>> => buf.size < Len(buf.bytes) /\ (buf.bytes[buf.size + 1] = NUL \/ \A i \in 1..Len(buf.bytes) :
                                                                                          buf.bytes[i] = GARBAGE)

\* A string of an array is freed once, and as soon as no array has it: by clear,
\* copy or done, though clear visits elements that were removed before and done
\* those behind the end (pointer__remove, initialized_count).
StringsOwned ==
    \A s \in 1..Len(strings) :
        strings[s] = IF \E a \in 1..2 : s \in ToSet(SubSeq(arrays[a].items, 1, arrays[a].size)) THEN 0 ELSE 1

\* A ring returns its elements first in, first out, around its end, and keeps
\* its indices within it.
RingIsQueue ==
    /\ ring.size = Len(queue) /\ ring.read \in 0..(ring.allocated - 1) /\ ring.write \in 0..(ring.allocated - 1)
    /\ \A i \in 1..Len(queue) : ring.elements[(ring.read + i - 1) % ring.allocated] = queue[i]
    /\ cork_ring_buffer_peek(ring) = IF queue = <<>> THEN 0 ELSE Head(queue)

\* What a C string literal with two digits after each \x says.
RECURSIVE Unescaped(_)
Unescaped(xs) ==
    LET digit(h) == IF h >= 97 THEN h - 87 ELSE h - 48
        byte == digit(xs[3]) * 16 + digit(xs[4])
    IN IF xs = <<>> THEN <<>>
       ELSE IF xs[1] # 92 THEN <<xs[1]>> \o Unescaped(Tail(xs))
       ELSE IF xs[2] = 120 THEN <<IF byte > 127 THEN byte - 256 ELSE byte>> \o Unescaped(SubSeq(xs, 5, Len(xs)))
       ELSE <<CHOOSE ch \in DOMAIN EscapeLetter : EscapeLetter[ch] = xs[2]>> \o Unescaped(SubSeq(xs, 3, Len(xs)))

\* What cork_buffer_append_c_string writes can be read back, whatever the bytes,
\* and has no quote inside.
CStringReadsBack ==
    bufCase.kind = "print" =>
        LET b == cork_buffer_append_c_string(cork_buffer_init, bufCase.chars)
            inner == SubSeq(Text(b), 2, b.size - 1)
        IN ~b.over /\ Text(b)[1] = 34 /\ Text(b)[b.size] = 34 /\ Unescaped(inner) = bufCase.chars

\* The line a dump has for the bytes from the first to the last.
RowText(chars, first, last) == Text(DumpRow(cork_buffer_init, SubSeq(chars, first, last)))

\* A hex dump has the bytes in rows of DUMP, each once, the last row as long as
\* is left, and a line break between rows only (the column and i tests of
\* cork_buffer_append_hex_dump).
DumpsRows ==
    bufCase.kind = "print" =>
        LET chars == bufCase.chars
            rows == (Len(chars) + DUMP - 1) \div DUMP
            Row(r) == RowText(chars, (r - 1) * DUMP + 1, Min({r * DUMP, Len(chars)}))
        IN Text(cork_buffer_append_hex_dump(cork_buffer_init, 1, chars)) =
           FlattenSeq([r \in 1..rows |-> (IF r = 1 THEN <<>> ELSE <<10, 32>>) \o Row(r)])

\* cork_buffer_append_binary never passes on a byte that is neither printable nor
\* space, and puts every line of what it prints under the indent.
BinaryIsPrintable ==
    bufCase.kind = "print" =>
        LET out == Text(cork_buffer_append_binary(cork_buffer_init, 2, bufCase.chars))
        IN /\ \A i \in 1..Len(out) : is_print(out[i]) \/ is_space(out[i]) \/ out[i] > 500
           /\ \A i \in 1..Len(out) : out[i] = 10 => i + 2 <= Len(out) /\ out[i + 1] = 32 /\ out[i + 2] = 32

\* The structures hold what they stand for and release each thing once: reference
\* counts and cycles, tables and their iterators, slices, buffers, arrays, rings,
\* and the text printed of them.
CorkSound ==
    /\ CountsExact /\ FreesGarbageOnce /\ CyclesCollected
    /\ TableIsMap /\ PoolSound /\ IterationComplete
    /\ RefsExact /\ ShowsItsBytes
    /\ BufferHolds /\ StringsOwned /\ RingIsQueue /\ CStringReadsBack /\ DumpsRows /\ BinaryIsPrintable
=============================================================================
