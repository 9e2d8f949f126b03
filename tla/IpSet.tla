------------------------------- MODULE IpSet --------------------------------
(***************************************************************************)
(* libipset: sets of addresses as decision diagrams, and reading them.     *)
(***************************************************************************)
EXTENDS Integers, Sequences, FiniteSets

(***************************************************************************)
(* libipset's set of addresses, which holds the access control list: a     *)
(* binary decision diagram over the bits of an address (variable 0 tells   *)
(* IPv4 from IPv6, variable i is the i-th bit) whose nodes are shared,     *)
(* counted and reused (libipset/bdd, libipset/set).                        *)
(*                                                                         *)
(* A node cache is [nodes, free_list, node_cache]: nodes are indexed from  *)
(* 0, and node_cache is the hash table, a set of indices found by their    *)
(* contents.  A node id is 2 * index, or 2 * value + 1 for a terminal.     *)
(* Operations that change the cache return <<cache, node id>>.             *)
(***************************************************************************)

CONSTANTS
    IPV4_BIT_SIZE, IPV6_BIT_SIZE,
    MaxChanges              \* bound: changes of a set

LOCAL Ext == INSTANCE SequencesExt

Size(version) == IF version = 4 THEN IPV4_BIT_SIZE ELSE IPV6_BIT_SIZE
Addresses(version) == [version : {version}, bits : [1..Size(version) -> BOOLEAN]]
AllAddresses == Addresses(4) \cup Addresses(6)

\* assignment: the value of a variable in an address.
assignment(addr, var) == IF var = 0 THEN addr.version = 4 ELSE addr.bits[var]

VARIABLES
    set,        \* struct ip_set: [cache, set_bdd]
    result,     \* of the last add or remove: "same" is true, "changed" and "error" are false
    elements,   \* history: the addresses the set was asked to contain
    changes

ipset_vars == <<set, result, elements, changes>>

-----------------------------------------------------------------------------
(* Nodes.                                                                  *)

ipset_terminal_node_id(value) == 2 * value + 1
ipset_nonterminal_node_id(index) == 2 * index
Nonterminal(id) == id % 2 = 0
Value(id) == id \div 2
Node(cache, id) == cache.nodes[Value(id)]

ipset_node_cache_new == [nodes |-> <<>>, free_list |-> <<>>, node_cache |-> {}]

ipset_node_incref(cache, id) ==
    IF Nonterminal(id) THEN [cache EXCEPT !.nodes[Value(id)].refcount = @ + 1] ELSE cache

RECURSIVE ipset_node_decref(_, _)
ipset_node_decref(cache, id) ==
    IF ~Nonterminal(id) THEN cache
    ELSE LET i == Value(id)
             less == [cache EXCEPT !.nodes[i].refcount = @ - 1]
             node == less.nodes[i]
         IN  IF node.refcount # 0 THEN less
             ELSE LET freed == ipset_node_decref(ipset_node_decref(less, node.low), node.high)
                  IN  [freed EXCEPT !.node_cache = @ \ {i}, !.free_list = <<i>> \o @]

\* The index of a node that may be used, and the free list without it.
ipset_node_cache_alloc_node(cache) ==
    IF cache.free_list = <<>> THEN <<Cardinality(DOMAIN cache.nodes), <<>>>>
    ELSE <<Head(cache.free_list), Tail(cache.free_list)>>

\* A node with these contents is there already.
Reuse(cache, id, low, high) ==
    <<ipset_node_decref(ipset_node_decref(ipset_node_incref(cache, id), low), high), id>>

Redundant(low, high) == low = high

\* The one node with these contents; takes over the references to low and high.
ipset_node_cache_nonterminal(cache, variable, low, high) ==
    LET node == [refcount |-> 1, variable |-> variable, low |-> low, high |-> high]
        found == {i \in cache.node_cache :
                    [cache.nodes[i] EXCEPT !.refcount = 1] = node}
        alloc == ipset_node_cache_alloc_node(cache)
    IN  IF Redundant(low, high) THEN <<ipset_node_decref(cache, high), low>>
        ELSE IF found # {}
        THEN Reuse(cache, ipset_nonterminal_node_id(CHOOSE i \in found : TRUE), low, high)
        ELSE <<[nodes |-> [i \in DOMAIN cache.nodes \cup {alloc[1]} |->
                            IF i = alloc[1] THEN node ELSE cache.nodes[i]],
                free_list |-> alloc[2], node_cache |-> cache.node_cache \cup {alloc[1]}],
               ipset_nonterminal_node_id(alloc[1])>>

RECURSIVE ipset_node_evaluate(_, _, _)
ipset_node_evaluate(cache, id, addr) ==
    IF ~Nonterminal(id) THEN Value(id)
    ELSE LET node == Node(cache, id) IN
         ipset_node_evaluate(cache,
             IF assignment(addr, node.variable) THEN node.high ELSE node.low, addr)

\* Mutant: h splits at whatever variable comes next.
Splits_any(cache, h, var) == Nonterminal(h)

Splits(cache, h, var) == Nonterminal(h) /\ Node(cache, h).variable = var

\* new_element ? g : h, where the element fixes the variables below var_count of an
\* address; this call looks at variable var of it.  (h has no variable before var:
\* the branch for one is never taken.)
RECURSIVE ipset_apply_ite(_, _, _, _, _, _)
ipset_apply_ite(cache, addr, var, var_count, g, h) ==
    LET node == Node(cache, h)
        splits == Splits(cache, h, var)
        h_low == IF splits THEN node.low ELSE h
        h_high == IF splits THEN node.high ELSE h
        Ite(c, id) == ipset_apply_ite(c, addr, var + 1, var_count, g, id)
        Zero(c, id) == <<ipset_node_incref(c, id), id>>     \* with fake_terminal_0
        high == IF assignment(addr, var) THEN Ite(cache, h_high) ELSE Zero(cache, h_high)
        low == IF assignment(addr, var) THEN Zero(high[1], h_low) ELSE Ite(high[1], h_low)
    IN  IF var = var_count THEN <<cache, ipset_terminal_node_id(g)>>
        ELSE IF h = ipset_terminal_node_id(g) THEN <<cache, h>>
        ELSE ipset_node_cache_nonterminal(low[1], var, low[2], high[2])

ipset_node_insert(cache, id, addr, var_count, value) ==
    ipset_apply_ite(cache, addr, 0, var_count, value, id)

-----------------------------------------------------------------------------
(* Sets.                                                                   *)

ipset_contains(s, addr) == ipset_node_evaluate(s.cache, s.set_bdd, addr) = 1

\* The set that add_network (value 1) or remove_network (0) leaves.
Changed(s, addr, cidr_prefix, value) ==
    LET new == ipset_node_insert(s.cache, s.set_bdd, addr, cidr_prefix + 1, value)
    IN  [cache |-> ipset_node_decref(new[1], s.set_bdd), set_bdd |-> new[2]]

\* Whether they found nothing to do: the node is the one there was.
SameSet(s, addr, cidr_prefix, value) ==
    ipset_node_insert(s.cache, s.set_bdd, addr, cidr_prefix + 1, value)[2] = s.set_bdd

Network(addr, cidr_prefix) ==
    {a \in Addresses(addr.version) : \A i \in 1..cidr_prefix : a.bits[i] = addr.bits[i]}

Change(addr, cidr_prefix, value) ==
    /\ changes < MaxChanges /\ changes' = changes + 1
    /\ IF cidr_prefix > Size(addr.version)
       THEN result' = "error" /\ UNCHANGED <<set, elements>>
       ELSE /\ set' = Changed(set, addr, cidr_prefix, value)
            /\ result' = IF SameSet(set, addr, cidr_prefix, value) THEN "same" ELSE "changed"
            /\ elements' = IF value = 1 THEN elements \cup Network(addr, cidr_prefix)
                                        ELSE elements \ Network(addr, cidr_prefix)

ipset_add_network(addr, cidr_prefix) == Change(addr, cidr_prefix, 1)
ipset_remove_network(addr, cidr_prefix) == Change(addr, cidr_prefix, 0)

ipset_init == [cache |-> ipset_node_cache_new, set_bdd |-> ipset_terminal_node_id(0)]

IpSetInit == set = ipset_init /\ result = "same" /\ elements = {} /\ changes = 0

\* ipset_ip_add and ipset_ip_remove are those of the longest prefix.
IpSetNext ==
    \E addr \in AllAddresses : \E cidr_prefix \in 0..(Size(addr.version) + 1) :
        ipset_add_network(addr, cidr_prefix) \/ ipset_remove_network(addr, cidr_prefix)

-----------------------------------------------------------------------------
(* What is claimed.                                                        *)

\* The set contains what it was asked to, over any overlapping additions and
\* removals of networks (ipset_apply_ite).
ContainsElements ==
    \A addr \in AllAddresses : ipset_contains(set, addr) <=> addr \in elements

\* Equal sets are one node, so that the result of an addition or removal, a
\* comparison of node ids, says whether the set changed.
TellsChange ==
    [][result' # "error" => (result' = "same" <=> elements' = elements)]_ipset_vars

References(cache, root, i) ==
    LET id == ipset_nonterminal_node_id(i)
        From(field) == Cardinality({j \in cache.node_cache : field[j] = id})
    IN  From([j \in DOMAIN cache.nodes |-> cache.nodes[j].low])
        + From([j \in DOMAIN cache.nodes |-> cache.nodes[j].high])
        + (IF root = id THEN 1 ELSE 0)

\* Every node in use is counted once for each use of it and found by its contents,
\* every other one is on the free list: none leaks, and none is given away while a
\* set still needs it.
NodesCounted ==
    LET cache == set.cache IN
    /\ \A i \in cache.node_cache :
        /\ cache.nodes[i].refcount = References(cache, set.set_bdd, i)
        /\ cache.nodes[i].refcount > 0
    /\ Ext!ToSet(cache.free_list) = DOMAIN cache.nodes \ cache.node_cache
    /\ Len(cache.free_list) = Cardinality(Ext!ToSet(cache.free_list))

-----------------------------------------------------------------------------
(***************************************************************************)
(* Reading a set of addresses: iterating over its addresses or networks,   *)
(* writing it to a file, and loading it again (libipset/set/iterator.c,    *)
(* libipset/bdd/{assignments,bdd-iterator,expanded,reachable,read,write}.c).*)
(***************************************************************************)

LOCAL Seqs == INSTANCE SequencesExt
LOCAL Sets == INSTANCE FiniteSetsExt

IPSET_FALSE == 0
IPSET_TRUE == 1
IPSET_EITHER == 2

-----------------------------------------------------------------------------
(* Iterators.                                                              *)

ipset_assignment_new == [var \in 0..IPV6_BIT_SIZE |-> IPSET_EITHER]

\* The assignments an iterator yields below a node, low edges first, with the
\* values they lead to.
RECURSIVE ipset_node_iterate(_, _, _)
ipset_node_iterate(cache, id, asg) ==
    IF ~Nonterminal(id) THEN <<[asg |-> asg, value |-> Value(id)]>>
    ELSE LET node == Node(cache, id) IN
         ipset_node_iterate(cache, node.low, [asg EXCEPT ![node.variable] = IPSET_FALSE])
         \o ipset_node_iterate(cache, node.high, [asg EXCEPT ![node.variable] = IPSET_TRUE])

find_last_non_either_bit(asg, starting_bit) ==
    Sets!Max({i \in 1..starting_bit : asg[i] # IPSET_EITHER} \cup {0})

\* The bits an assignment leaves open, up to var_count, in all ways.
ipset_assignment_expand(asg, var_count) ==
    {bits \in [1..var_count -> BOOLEAN] :
        \A i \in 1..var_count : asg[i] # IPSET_EITHER => bits[i] = (asg[i] = IPSET_TRUE)}

\* expand_ipv4, expand_ipv6: the networks, or addresses, of an assignment.
expand(asg, version, summarize) ==
    LET last_bit == IF summarize THEN find_last_non_either_bit(asg, Size(version))
                                 ELSE Size(version)
    IN  [version : {version}, bits : ipset_assignment_expand(asg, last_bit)]

process_assignment(asg, summarize) ==
    <<expand(asg, IF asg[0] = IPSET_FALSE THEN 6 ELSE 4, summarize)>>

\* An assignment that leaves variable 0 open is expanded a second time.
advance_assignment(asg, summarize) ==
    IF asg[0] = IPSET_EITHER THEN <<expand(asg, 6, summarize)>> ELSE <<>>

\* Everything ipset_iterate, or ipset_iterate_networks, comes to, a set for each
\* assignment and family.
ipset_iterate(s, desired_value, summarize) ==
    LET all == ipset_node_iterate(s.cache, s.set_bdd, ipset_assignment_new)
        wanted == SelectSeq(all, LAMBDA it : it.value = desired_value)
    IN  Seqs!FlattenSeq([i \in DOMAIN wanted |->
            process_assignment(wanted[i].asg, summarize)
            \o advance_assignment(wanted[i].asg, summarize)])

-----------------------------------------------------------------------------
(* Files.  A file is its number of nonterminals, their variables and       *)
(* serialized children in order, and the value of a root that is a         *)
(* terminal.  A serialized id is the value of a terminal, or -n for the    *)
(* n-th nonterminal.                                                       *)

\* The nodes below a node, each once.
RECURSIVE Reachable(_, _)
Reachable(cache, id) ==
    IF ~Nonterminal(id) THEN {}
    ELSE {id} \cup Reachable(cache, Node(cache, id).low) \cup Reachable(cache, Node(cache, id).high)

ipset_node_reachable_count(cache, id) == Cardinality(Reachable(cache, id))

\* The nonterminals written so far, by their ids, after this one and those below it.
RECURSIVE save_visit_node(_, _, _)
save_visit_node(cache, written, id) ==
    IF ~Nonterminal(id) \/ Seqs!Contains(written, id) THEN written
    ELSE Append(save_visit_node(cache, save_visit_node(cache, written, Node(cache, id).low),
                                Node(cache, id).high), id)

SerializedId(written, id) ==
    IF Nonterminal(id) THEN -Seqs!SelectInSeq(written, LAMBDA w : w = id) ELSE Value(id)

save_bdd(cache, root) == save_visit_node(cache, <<>>, root)

ipset_node_cache_save(cache, root) ==
    LET written == save_bdd(cache, root) IN
    [nonterminal_count |-> ipset_node_reachable_count(cache, root),
     nodes |-> [i \in DOMAIN written |->
        LET node == Node(cache, written[i]) IN
        [variable |-> node.variable, low |-> SerializedId(written, node.low),
         high |-> SerializedId(written, node.high)]],
     terminal |-> IF Nonterminal(root) THEN <<>> ELSE <<Value(root)>>]

LoadedId(cache_ids, serialized) ==
    IF serialized >= 0 THEN ipset_terminal_node_id(serialized) ELSE cache_ids[-serialized]

\* The cache after the first n nodes of a file were read into it, and their ids.
RECURSIVE load_nodes(_, _)
load_nodes(file, n) ==
    IF n = 0 THEN <<ipset_node_cache_new, <<>>>>
    ELSE LET before == load_nodes(file, n - 1)
             node == file.nodes[n]
             new == ipset_node_cache_nonterminal(before[1], node.variable,
                        LoadedId(before[2], node.low), LoadedId(before[2], node.high))
         IN  <<new[1], Append(before[2], new[2])>>

\* load_v1, and ipset_load; verify_cap compares the lengths.
ipset_load(file) ==
    LET loaded == load_nodes(file, file.nonterminal_count) IN
    IF file.nonterminal_count = 0
    THEN [cache |-> loaded[1], set_bdd |-> ipset_terminal_node_id(file.terminal[1])]
    ELSE [cache |-> loaded[1], set_bdd |-> loaded[2][file.nonterminal_count]]

RECURSIVE ipset_node_cache_nodes_equal(_, _, _, _)
ipset_node_cache_nodes_equal(cache1, id1, cache2, id2) ==
    /\ Nonterminal(id1) = Nonterminal(id2)
    /\ IF ~Nonterminal(id1) THEN id1 = id2
       ELSE LET node1 == Node(cache1, id1)
                node2 == Node(cache2, id2)
            IN  /\ node1.variable = node2.variable
                /\ ipset_node_cache_nodes_equal(cache1, node1.low, cache2, node2.low)
                /\ ipset_node_cache_nodes_equal(cache1, node1.high, cache2, node2.high)

-----------------------------------------------------------------------------
AddressesOf(network) ==
    {a \in Addresses(network.version) : \A i \in DOMAIN network.bits : a.bits[i] = network.bits[i]}

\* What an iterator yields, be it addresses or networks, inside the set or outside,
\* is the set or its complement, every address once, although an assignment that
\* fits both families has to be expanded twice (ipset_iterate).
IteratesElements ==
    \A desired \in {0, 1} : \A summarize \in BOOLEAN :
        LET yields == ipset_iterate(set, desired, summarize)
            networks == UNION {yields[i] : i \in DOMAIN yields}
            sizes == [i \in DOMAIN yields |->
                        Sets!MapThenSumSet(LAMBDA n : Cardinality(AddressesOf(n)), yields[i])]
        IN  /\ UNION {AddressesOf(n) : n \in networks}
                 = (IF desired = 1 THEN elements ELSE AllAddresses \ elements)
            /\ Seqs!FoldLeft(+, 0, sizes)
                 = Cardinality(IF desired = 1 THEN elements ELSE AllAddresses \ elements)

\* A set that is saved and loaded again is equal to itself: children are written
\* before the nodes that name them, and as many as the header says.
LoadsWhatItSaved ==
    LET file == ipset_node_cache_save(set.cache, set.set_bdd)
        loaded == ipset_load(file)
    IN  /\ Len(file.nodes) = file.nonterminal_count
        /\ ipset_node_cache_nodes_equal(set.cache, set.set_bdd, loaded.cache, loaded.set_bdd)
        /\ \A addr \in AllAddresses : ipset_contains(loaded, addr) <=> addr \in elements
=============================================================================
