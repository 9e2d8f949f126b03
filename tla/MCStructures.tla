---------------------------- MODULE MCStructures ----------------------------
(* The structures the programs and their libraries keep, each on its own:  *)
(* Init picks the one that moves.                                          *)
EXTENDS IvTable, Acl, EvWatchers, Cork

VARIABLE part

cork_vars == <<gc_vars, ct_vars, slice_vars, buf_vars>>
part_vars == <<part, iv_vars, tbl, ipset_vars, acl_vars, heap_vars, ew_vars, bk_vars, st_vars, cork_vars>>

Identity(key) == key

IdleHeap == [kind |-> "timers", dheap |-> 2, count |-> 0, slept |-> 0, steps |-> 0]
MCHeapWorlds ==
    {IdleHeap}
    \cup [kind : {"timers", "periodics"}, dheap : {2}, count : {5}, slept : {2}, steps : {2}]
    \cup [kind : {"timers", "periodics"}, dheap : {4}, count : {7}, slept : {2}, steps : {1}]

NoWatchers == <<>>
Watch(kind, pri, pid) == [kind |-> kind, pri |-> pri, pid |-> pid]
MCEwWorlds ==
    {NoWatchers,
     [w1 |-> Watch("signal", 0, 0), w2 |-> Watch("idle", 0, 0), w3 |-> Watch("async", 1, 0)],
     [w1 |-> Watch("child", 0, 1), w2 |-> Watch("child", 0, 0)],
     [w1 |-> Watch("fork", 0, 0), w2 |-> Watch("prepare", 1, 0), w3 |-> Watch("cleanup", 0, 0)],
     [w1 |-> Watch("async", 0, 0), w2 |-> Watch("async", 0, 0), w3 |-> Watch("async", 1, 0)],
     [w1 |-> Watch("once_io", 0, 0), w2 |-> Watch("once_to", 0, 0), w3 |-> Watch("check", 1, 0)],
     [w1 |-> Watch("idle", 0, 0), w2 |-> Watch("idle", 1, 0), w3 |-> Watch("signal", 1, 0)],
     [w1 |-> Watch("signal", 0, 0), w2 |-> Watch("signal", 1, 0)]}

GcGraphOf(a, b, c) == <<a, <<b>>, <<c>>>>
MCGcGraphs == {GcGraphOf(a, b, c) : a \in {<<0, 2>>, <<1, 3>>, <<2, 3>>}, b \in {1, 3}, c \in {0, 2}}

MCCtStarts == {<<>>, <<1, 3>>, <<1, 3, 2>>}

NoBuffer == [kind |-> "none", steps |-> 0]
BufChars == {34, 92, 10, 32, 97, 48, 1, -1, 11, 12}
MCBufCases ==
    {[kind |-> "buffer", texts |-> {<<>>, <<65>>, <<66, 67, 68>>}, steps |-> 4],
     [kind |-> "array", steps |-> 6], [kind |-> "ring", room |-> 1, steps |-> 5],
     [kind |-> "ring", room |-> 3, steps |-> 9]}
    \cup {[kind |-> "print", steps |-> 0, chars |-> s] : s \in UNION {[1..n -> BufChars] : n \in 0..2}}
    \cup {[kind |-> "print", steps |-> 0, chars |-> s] : s \in UNION {[1..n -> {10, 97, -1}] : n \in 3..6}}

AskOnce(b) == [flags |-> {b}, noenv |-> TRUE, secure |-> FALSE, env |-> {"unset"}, build |-> {b},
               system |-> "other", broken |-> {}]
Asks == [flags : {{}, {"poll"}, {"select", "kqueue"}}, noenv : BOOLEAN, secure : BOOLEAN,
         env : {{"unset"}, {}, {"select"}}, build : {{"poll", "select"}, {"kqueue", "poll", "select"}},
         system : {"Apple", "FreeBSD", "other"}, broken : {{}, {"kqueue"}}]
BkWorld(ask, faults, fork, steps) == [ask : ask, faults : faults, fork : fork, steps : steps]
IdleBk == [ask |-> AskOnce("poll"), faults |-> FALSE, fork |-> FALSE, steps |-> 0]
MCBkWorlds ==
    BkWorld({AskOnce("kqueue"), AskOnce("port")}, {TRUE}, BOOLEAN, {4})
    \cup BkWorld({AskOnce("poll"), AskOnce("select")}, {TRUE}, {FALSE}, {4})
    \cup BkWorld(Asks, {FALSE}, {FALSE}, {0})

StWorld(local, fs_2625, inotify, watches, watchers, happens, calls) ==
    [local |-> local, fs_2625 |-> fs_2625, inotify |-> inotify, watches |-> watches, watchers |-> watchers,
     changes |-> happens, calls |-> calls]
IdleSt == StWorld(TRUE, TRUE, TRUE, 2, {}, 0, 0)
MCStWorlds ==
    {StWorld(TRUE, TRUE, TRUE, 2, {1}, 3, 2), StWorld(TRUE, TRUE, TRUE, 2, {1, 2}, 1, 3),
     StWorld(FALSE, TRUE, TRUE, 2, {1}, 2, 2), StWorld(TRUE, FALSE, TRUE, 2, {1}, 2, 2),
     StWorld(TRUE, TRUE, TRUE, 0, {1}, 2, 2), StWorld(TRUE, TRUE, FALSE, 2, {1}, 2, 2)}

MCInit ==
    /\ part \in {"iv_cache", "ipset", "acl", "heap", "watchers", "backends", "stat", "gc", "table", "slices", "buffers"}
    /\ TableInit /\ IpSetInit
    /\ part # "acl" => acl_mode = BLACK_LIST
    /\ AclInit
    /\ part # "heap" => heapWorld = IdleHeap
    /\ part = "heap" => heapWorld \in MCHeapWorlds \ {IdleHeap}
    /\ HeapInit
    /\ ewWorld \in IF part = "watchers" THEN MCEwWorlds \ {NoWatchers} ELSE {NoWatchers}
    /\ EwInit
    /\ bkWorld \in IF part = "backends" THEN MCBkWorlds ELSE {IdleBk}
    /\ BkStart
    /\ stWorld \in IF part = "stat" THEN MCStWorlds ELSE {IdleSt}
    /\ StStart
    /\ part # "stat" => tree.ino = 0
    /\ \E fields \in IF part = "gc" THEN GcGraphs ELSE {GcGraphOf(<<0, 0>>, 3, 0)} : GcStart(fields)
    /\ \E keys \in IF part = "table" THEN CtStarts ELSE {<<>>}, v \in CtValues : CtStart(keys, v)
    /\ SliceInit
    /\ bufCase \in IF part = "buffers" THEN MCBufCases ELSE {NoBuffer}
    /\ BufStart

MCNext ==
    \/ /\ part = "iv_cache" /\ TableNext
       /\ UNCHANGED <<part, bk_vars, st_vars, cork_vars, ew_vars, ipset_vars, acl_vars, heap_vars>>
    \/ /\ part = "ipset" /\ IpSetNext
       /\ UNCHANGED <<part, bk_vars, st_vars, cork_vars, ew_vars, iv_vars, tbl, acl_vars, heap_vars>>
    \/ /\ part = "acl" /\ AclNext
       /\ UNCHANGED <<part, bk_vars, st_vars, cork_vars, ew_vars, iv_vars, tbl, ipset_vars, heap_vars>>
    \/ /\ part = "heap" /\ HeapNext
       /\ UNCHANGED <<part, bk_vars, st_vars, cork_vars, ew_vars, iv_vars, tbl, ipset_vars, acl_vars>>
    \/ /\ part = "watchers" /\ EwNext
       /\ UNCHANGED <<part, bk_vars, st_vars, cork_vars, iv_vars, tbl, ipset_vars, acl_vars, heap_vars>>
    \/ /\ part = "backends" /\ BkNext
       /\ UNCHANGED <<part, st_vars, cork_vars, iv_vars, tbl, ipset_vars, acl_vars, heap_vars, ew_vars>>
    \/ /\ part = "stat" /\ StNext
       /\ UNCHANGED <<part, bk_vars, cork_vars, iv_vars, tbl, ipset_vars, acl_vars, heap_vars, ew_vars>>
    \/ /\ part = "gc" /\ GcNext
       /\ UNCHANGED <<part, bk_vars, st_vars, iv_vars, tbl, ipset_vars, acl_vars, heap_vars, ew_vars, ct_vars, slice_vars, buf_vars>>
    \/ /\ part = "table" /\ CtNext
       /\ UNCHANGED <<part, bk_vars, st_vars, iv_vars, tbl, ipset_vars, acl_vars, heap_vars, ew_vars, gc_vars, slice_vars, buf_vars>>
    \/ /\ part = "slices" /\ SliceNext
       /\ UNCHANGED <<part, bk_vars, st_vars, iv_vars, tbl, ipset_vars, acl_vars, heap_vars, ew_vars, gc_vars, ct_vars, buf_vars>>
    \/ /\ part = "buffers" /\ BufNext
       /\ UNCHANGED <<part, bk_vars, st_vars, iv_vars, tbl, ipset_vars, acl_vars, heap_vars, ew_vars, gc_vars, ct_vars, slice_vars>>

MCSpec == MCInit /\ [][MCNext]_part_vars
=============================================================================
