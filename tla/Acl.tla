--------------------------------- MODULE Acl ---------------------------------
(***************************************************************************)
(* The access control list (src/src/acl.c): a set of addresses for each    *)
(* family, read from a file of networks at start-up and, in ss-server,     *)
(* extended by the peers that fail authentication.                         *)
(***************************************************************************)
EXTENDS IpSet

CONSTANTS
    MaxLines,               \* bound: lines of the file
    MaxListChanges          \* bound: changes of the list after it was read

BLACK_LIST == 0
WHITE_LIST == 1

VARIABLES
    acl_mode,
    acl_ipv4_set, acl_ipv6_set,
    listed,                 \* history: the addresses that lines and calls listed
    lines, listChanges

acl_vars == <<acl_mode, acl_ipv4_set, acl_ipv6_set, listed, lines, listChanges>>

\* A line: its host may be no address, and what follows its last slash, if it has
\* one, no number.
NoAddress == [version |-> 0, bits |-> <<>>]
NoCidr == -1
NoNumber == -2
Cidrs == {NoCidr, NoNumber} \cup 0..(IPV6_BIT_SIZE + 1)

\* atoi takes what is no number for 0.
parse_addr_cidr(cidr) == IF cidr = NoNumber THEN 0 ELSE cidr

\* The prefix to list; ipset_ipv4_add and ipset_ipv6_add list one address.
Prefix(addr, cidr) == IF cidr = NoCidr THEN Size(addr.version) ELSE cidr

\* One of the sets after add_network (value 1) or remove_network (value 0).
InSet(s, addr, prefix, value) ==
    IF prefix > Size(addr.version) THEN s ELSE Changed(s, addr, prefix, value)

Update(addr, prefix, value) ==
    IF addr.version = 4
    THEN acl_ipv4_set' = InSet(acl_ipv4_set, addr, prefix, value) /\ UNCHANGED acl_ipv6_set
    ELSE acl_ipv6_set' = InSet(acl_ipv6_set, addr, prefix, value) /\ UNCHANGED acl_ipv4_set

\* init_acl reads a line.  A network that is too long lists nothing.
init_acl(host, text) ==
    /\ lines < MaxLines /\ lines' = lines + 1 /\ listChanges = 0
    /\ UNCHANGED <<acl_mode, listChanges>>
    /\ IF host = NoAddress THEN UNCHANGED <<acl_ipv4_set, acl_ipv6_set, listed>>
       ELSE LET cidr == parse_addr_cidr(text) IN
            /\ Update(host, Prefix(host, cidr), 1)
            /\ listed' = IF cidr > Size(host.version) THEN listed
                         ELSE IF cidr = NoCidr THEN listed \cup {host}
                         ELSE listed \cup Network(host, cidr)

ListChange ==
    /\ listChanges < MaxListChanges /\ listChanges' = listChanges + 1
    /\ UNCHANGED <<acl_mode, lines>>

acl_add_ip(addr) ==
    ListChange /\ Update(addr, Size(addr.version), 1) /\ listed' = listed \cup {addr}

\* No program calls it.
acl_remove_ip(addr) ==
    ListChange /\ Update(addr, Size(addr.version), 0) /\ listed' = listed \ {addr}

\* server_recv_cb: a peer fails authentication.
AutoBan(peer) == acl_mode = BLACK_LIST /\ acl_add_ip(peer)

\* Whether a peer, or a destination, is denied.
acl_match_ip(addr) ==
    LET in == ipset_contains(IF addr.version = 4 THEN acl_ipv4_set ELSE acl_ipv6_set, addr)
    IN  IF acl_mode = WHITE_LIST THEN ~in ELSE in

AclInit ==
    /\ acl_mode \in {BLACK_LIST, WHITE_LIST}
    /\ acl_ipv4_set = ipset_init /\ acl_ipv6_set = ipset_init
    /\ listed = {} /\ lines = 0 /\ listChanges = 0

AclNext ==
    \/ \E cidr \in Cidrs : init_acl(NoAddress, cidr)
    \/ \E addr \in AllAddresses :
        \/ \E cidr \in Cidrs : init_acl(addr, cidr)
        \/ AutoBan(addr)
        \/ acl_remove_ip(addr)

\* An address is denied when it is in the black list or not in the white list,
\* after any lines, malformed ones included, and any bans: every line and call
\* changes the set of its own family, by just its network (init_acl,
\* acl_add_ip, acl_match_ip).
VerdictIsListed ==
    \A addr \in AllAddresses :
        acl_match_ip(addr) <=> (addr \in listed) = (acl_mode = BLACK_LIST)

\* An address set holds what was added and not removed, its nodes are counted, it
\* is iterated, saved and loaded as it is, and the access list decides by it.
AddressSetsSound ==
    /\ [](ContainsElements /\ NodesCounted /\ IteratesElements /\ LoadsWhatItSaved /\ VerdictIsListed)
    /\ TellsChange
=============================================================================
