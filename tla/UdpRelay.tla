------------------------------- MODULE UdpRelay -------------------------------
(***************************************************************************)
(* The UDP relay (src/udprelay.c) of one server socket.  A client address  *)
(* has a remote_ctx_t, a socket of its own towards the destinations, which *)
(* conn_cache finds under (address family, client address); names are      *)
(* resolved first, with the datagram kept in a query_ctx_t meanwhile.      *)
(*                                                                         *)
(* The module "remote" is the relay of ss-server, "local" the one of       *)
(* ss-local, ss-tunnel and ss-redir, which sends everything to ss-server.  *)
(*                                                                         *)
(* A remote_ctx_t is the memory it occupies: an id is used again after it  *)
(* was released, and a pointer that was kept then means the new object.    *)
(* Timers may go off at any moment; a datagram is its destination.         *)
(***************************************************************************)
EXTENDS Cache, FiniteSets

CONSTANTS
    NULL,           \* no object
    Srcs,           \* client addresses
    Addrs, Names,   \* destinations
    FamilyOf,       \* the address family of each address
    Resolves,       \* the addresses of each name
    REMOTE_ADDR,    \* the ss-server the local programs send to
    CONFIG_AUTH,    \* the auth argument of init_udprelay
    MAX_UDP_CONN_NUM,
    Remotes,        \* memory for remote_ctx_t
    Queries,        \* bound: memory for query_ctx_t
    Worlds          \* the programs and what their clients do

AF_UNSPEC == "unspec"

Families == {FamilyOf[a] : a \in Addrs}

\* The headers of datagrams: a destination and the flag.
Headers(dests) == dests \X BOOLEAN

\* remote_ctx_t and query_ctx_t.
RemoteCtx == [src : Srcs, af : {AF_UNSPEC} \cup Families, header : Headers(Addrs \cup Names),
              dst : Addrs \cup {NULL}, sock : Families]
QueryCtx == [src : Srcs, header : Headers(Names), remote : Remotes \cup {NULL}, submitted : BOOLEAN]

ASSUME UdpAssumption ==
    /\ NULL \notin Remotes \cup Addrs \cup Names \cup RemoteCtx
    /\ Names \cap Addrs = {} /\ AF_UNSPEC \notin Families
    /\ MAX_UDP_CONN_NUM \in Nat \ {0, 1}
    /\ Cardinality(Remotes) >= MAX_UDP_CONN_NUM
    /\ CONFIG_AUTH \in BOOLEAN /\ REMOTE_ADDR \in Addrs
    /\ \A w \in Worlds :
          /\ w.module \in {"remote", "local"} /\ w.dests \subseteq Addrs \cup Names
          /\ w.otas \subseteq BOOLEAN /\ w.packets \in Nat
    /\ \A n \in Names : Resolves[n] \subseteq Addrs

VARIABLES
    world,      \* module: "remote" is ss-server, "local" the other programs;
                \* dests, otas: the destinations and the values of the one-time
                \* authentication flag clients use; packets: bound on their datagrams
    remotes,    \* the remote_ctx_t in each piece of memory
    conn_cache, \* server_ctx->conn_cache
    watching,   \* remotes whose socket and timer are watched
    queries,    \* the query_ctx_t in each piece of memory
    auth,       \* server_ctx->auth
    last,       \* the last datagram relayed: its label, and the address it went to or came from
    proc,       \* the process
    packets     \* history: datagrams from clients

vars == <<world, remotes, conn_cache, watching, queries, auth, last, proc, packets>>

\* The family a header is parsed to.
Family(d) == IF d \in Addrs THEN FamilyOf[d] ELSE AF_UNSPEC

Init ==
    /\ world \in Worlds
    /\ remotes = [id \in Remotes |-> NULL]
    /\ conn_cache = <<>>
    /\ watching = {}
    /\ queries = [q \in Queries |-> NULL]
    /\ auth = CONFIG_AUTH
    /\ last = NULL
    /\ proc = "up"
    /\ packets = 0

-----------------------------------------------------------------------------
(***************************************************************************)
(* remote_ctx_t and the cache.                                             *)
(***************************************************************************)

Live(id) == remotes[id] # NULL

\* Mutant: the family is left out of the key.
hash_key_unspec(r) == <<AF_UNSPEC, r.src>>

\* The key a remote is cached under.
hash_key(r) == <<r.af, r.src>>

\* Mutant: the watchers are not stopped.
close_and_free_remote_keeps_watchers(w, out) == w

\* What is watched after the remotes in out were closed.
close_and_free_remote(w, out) == w \ out

\* A remote that has been set up is cached and watched; free_cb closes and
\* releases the one that is evicted for it.
Store(id, r) ==
    LET key == <<r.af, r.src>>
        out == Evicted(MAX_UDP_CONN_NUM, conn_cache, key, id)
    IN  /\ ~Live(id)
        /\ conn_cache' = cache_insert(MAX_UDP_CONN_NUM, conn_cache, key, id)
        /\ remotes' = [i \in Remotes |->
                          IF i \in out THEN NULL ELSE IF i = id THEN r ELSE remotes[i]]
        /\ watching' = close_and_free_remote(watching \cup {id}, out)

new_remote(src, af, header, dst, sock) ==
    [src |-> src, af |-> af, header |-> header, dst |-> dst, sock |-> sock]

\* A datagram labelled d went to (or came from) address a.
Relayed(d, a) == last' = [label |-> d, addr |-> a]

\* sendto on the socket of remote r: it may fail, and must for the other family.
Sendto(r, d, a) ==
    \/ r.sock = FamilyOf[a] /\ Relayed(d, a)
    \/ UNCHANGED last

-----------------------------------------------------------------------------
(***************************************************************************)
(* server_recv_cb of ss-server: a datagram for d, flagged ota or not.      *)
(***************************************************************************)

Received ==
    /\ proc = "up" /\ packets < world.packets
    /\ packets' = packets + 1

\* ss_decrypt_all fails, on a datagram without authentication if auth is set;
\* the buffer it has released is released again.
RecvUndecryptable ==
    /\ world.module = "remote" /\ Received
    /\ proc' \in {"up", "aborted"}
    /\ UNCHANGED <<remotes, conn_cache, watching, queries, auth, last>>

\* parse_udprealy_header has set auth before it finds the header invalid.
RecvBadHeader(ota) ==
    /\ world.module = "remote" /\ Received /\ (auth => ota)
    /\ auth' = (auth \/ ota)
    /\ UNCHANGED <<remotes, conn_cache, watching, queries, last, proc>>

Recv(ota) ==
    /\ world.module = "remote" /\ Received /\ (auth => ota)
    /\ auth' = (auth \/ ota)
    /\ UNCHANGED proc

\* Mutant: a destination mismatch is not noticed.
Destination_cached(r, d, header) == r.dst

\* Where a datagram goes that finds r in the cache.
Destination(r, d, header) == IF r.header = header THEN r.dst ELSE d

\* A hit that needs no lookup.
RecvHit(src, d, ota) ==
    /\ Recv(ota)
    /\ \E id \in cache_lookup(conn_cache, <<Family(d), src>>) :
        /\ d \in Addrs \/ remotes[id].header = <<d, ota>>
        /\ Sendto(remotes[id], d, Destination(remotes[id], d, <<d, ota>>))
    /\ conn_cache' = touch(conn_cache, <<Family(d), src>>)
    /\ UNCHANGED <<remotes, watching, queries>>

\* A miss for an address.  Without a socket, or if sendto fails, nothing stays.
RecvMiss(src, d, ota) ==
    /\ Recv(ota)
    /\ d \in Addrs /\ cache_lookup(conn_cache, <<Family(d), src>>) = {}
    /\ \/ UNCHANGED <<remotes, conn_cache, watching, last>>
       \/ /\ \E id \in Remotes :
               Store(id, new_remote(src, Family(d), <<d, ota>>, d, FamilyOf[d]))
          /\ Relayed(d, d)
    /\ UNCHANGED queries

\* resolv_query: whether or not a lookup could be submitted, q is given a handle.
Lookup(src, d, ota, id) ==
    \E q \in Queries, submitted \in BOOLEAN :
        /\ queries[q] = NULL
        /\ queries' = [queries EXCEPT ![q] =
               [src |-> src, header |-> <<d, ota>>, remote |-> id, submitted |-> submitted]]

\* A datagram for a name: there is no remote, or it has another header.
RecvName(src, d, ota) ==
    LET hit == cache_lookup(conn_cache, <<AF_UNSPEC, src>>)
    IN  /\ Recv(ota) /\ d \in Names
        /\ \/ hit = {} /\ Lookup(src, d, ota, NULL)
           \/ \E id \in hit : remotes[id].header # <<d, ota>> /\ Lookup(src, d, ota, id)
        /\ conn_cache' = touch(conn_cache, <<AF_UNSPEC, src>>)
        /\ UNCHANGED <<remotes, watching, last>>

-----------------------------------------------------------------------------
(***************************************************************************)
(* query_resolve_cb: the lookup of q ends.                                 *)
(***************************************************************************)

Answer(q) ==
    /\ proc = "up" /\ queries[q] # NULL /\ queries[q].submitted
    /\ queries' = [queries EXCEPT ![q] = NULL]
    /\ UNCHANGED <<auth, packets>>

ResolveNothing(q) ==
    /\ Answer(q)
    /\ UNCHANGED <<remotes, conn_cache, watching, last, proc>>

\* The remote of q, or the one that is cached by now.
Found(q) ==
    IF queries[q].remote = NULL
    THEN cache_lookup(conn_cache, <<AF_UNSPEC, queries[q].src>>)
    ELSE {queries[q].remote}

Looked(q) ==
    IF queries[q].remote = NULL
    THEN touch(conn_cache, <<AF_UNSPEC, queries[q].src>>)
    ELSE conn_cache

\* There is a remote: it is pointed at a.
ResolveHit(q, a) ==
    /\ Answer(q)
    /\ \E id \in Found(q) :
        /\ Live(id)
        /\ remotes' = [remotes EXCEPT ![id].dst = a]
        /\ Sendto(remotes[id], queries[q].header[1], a)
    /\ conn_cache' = Looked(q)
    /\ UNCHANGED <<watching, proc>>

\* The remote of q was released during the lookup, and its memory not used since.
ResolveStale(q) ==
    /\ Answer(q)
    /\ \E id \in Found(q) : ~Live(id)
    /\ proc' \in {"up", "aborted"}
    /\ UNCHANGED <<remotes, conn_cache, watching, last>>

ResolveMiss(q, a) ==
    /\ Answer(q)
    /\ Found(q) = {}
    /\ \/ UNCHANGED <<remotes, conn_cache, watching, last>>
       \/ /\ \E id \in Remotes :
               Store(id, new_remote(queries[q].src, AF_UNSPEC, queries[q].header, a, FamilyOf[a]))
          /\ Relayed(queries[q].header[1], a)
    /\ UNCHANGED proc

query_resolve_cb(q) ==
    \/ ResolveNothing(q)
    \/ ResolveStale(q)
    \/ \E a \in IF queries[q] = NULL THEN {} ELSE Resolves[queries[q].header[1]] :
         ResolveHit(q, a) \/ ResolveMiss(q, a)

-----------------------------------------------------------------------------
(***************************************************************************)
(* server_recv_cb of the local relays: every datagram goes to ss-server.   *)
(***************************************************************************)

\* ss-local parses the header as ss-server does, and keeps its flag.
Recv_local(ota) ==
    /\ world.module = "local" /\ Received
    /\ auth' = (auth \/ ota)
    /\ UNCHANGED <<queries, last>>

\* ss_encrypt_all fails, and the buffer is released twice; or sendto, or neither.
Encrypted == proc' \in {"up", "aborted"}

\* A hit; also a datagram in fragments, which is dropped after the lookup.
LocalHit(src, ota) ==
    /\ Recv_local(ota) /\ Encrypted
    /\ cache_lookup(conn_cache, <<FamilyOf[REMOTE_ADDR], src>>) # {}
    /\ conn_cache' = touch(conn_cache, <<FamilyOf[REMOTE_ADDR], src>>)
    /\ UNCHANGED <<remotes, watching>>

\* A miss: no socket or a fragment; or a new remote, whatever becomes of the datagram.
LocalMiss(src, ota) ==
    /\ Recv_local(ota)
    /\ cache_lookup(conn_cache, <<FamilyOf[REMOTE_ADDR], src>>) = {}
    /\ \/ UNCHANGED <<remotes, conn_cache, watching, proc>>
       \/ /\ \E id \in Remotes :
               LET af == FamilyOf[REMOTE_ADDR]
               IN  Store(id, new_remote(src, af, <<REMOTE_ADDR, ota>>, NULL, af))
          /\ Encrypted

-----------------------------------------------------------------------------
(***************************************************************************)
(* The remote's own callbacks, and the end.                                *)
(***************************************************************************)

\* A reply to ss-server from destination a, for names the latest one: it is
\* labelled with a, or for names with the header the remote was made for.
RemoteRecv(id, a) ==
    /\ world.module = "remote" /\ id \in watching /\ remotes[id].sock = FamilyOf[a]
    /\ remotes[id].af # AF_UNSPEC \/ remotes[id].dst = a
    /\ Relayed(IF remotes[id].af = AF_UNSPEC THEN remotes[id].header[1] ELSE a, a)
    /\ UNCHANGED proc

\* A reply that is dropped, or passed on by a local relay.  A buffer that
\* ss_encrypt_all or ss_decrypt_all has released is released again.
RemoteRecvOther(id) ==
    /\ id \in watching
    /\ proc' \in {"up", "aborted"}
    /\ UNCHANGED last

remote_recv_cb(id) ==
    /\ proc = "up"
    /\ RemoteRecvOther(id) \/ \E a \in Addrs : RemoteRecv(id, a)
    /\ UNCHANGED <<remotes, conn_cache, watching, queries, auth, packets>>

\* The cache releases whatever it finds under the key of the idle remote.
remote_timeout_cb(id) ==
    LET key == hash_key(remotes[id])
        out == cache_lookup(conn_cache, key)
    IN  /\ proc = "up" /\ id \in watching
        /\ conn_cache' = cache_remove(conn_cache, key)
        /\ remotes' = [i \in Remotes |-> IF i \in out THEN NULL ELSE remotes[i]]
        /\ watching' = close_and_free_remote(watching, out)
        /\ UNCHANGED <<queries, auth, last, proc, packets>>

\* cache_delete hands every entry to free_cb; lookups are not cancelled.
free_udprelay ==
    LET out == {conn_cache[i].data : i \in DOMAIN conn_cache}
    IN  /\ proc = "up"
        /\ proc' = "down"
        /\ conn_cache' = <<>>
        /\ remotes' = [i \in Remotes |-> IF i \in out THEN NULL ELSE remotes[i]]
        /\ watching' = close_and_free_remote(watching, out)
        /\ UNCHANGED <<queries, auth, last, packets>>

Step ==
    \/ RecvUndecryptable
    \/ \E ota \in world.otas : RecvBadHeader(ota)
    \/ \E src \in Srcs, d \in world.dests, ota \in world.otas :
         RecvHit(src, d, ota) \/ RecvMiss(src, d, ota) \/ RecvName(src, d, ota)
    \/ \E q \in Queries : query_resolve_cb(q)
    \/ \E src \in Srcs, ota \in world.otas : LocalHit(src, ota) \/ LocalMiss(src, ota)
    \/ \E id \in Remotes : remote_recv_cb(id) \/ remote_timeout_cb(id)
    \/ free_udprelay

Next == Step /\ UNCHANGED world

Spec == Init /\ [][Next]_vars

\* libev runs the timer of every remote that stays idle, and clients fall silent
\* at last (world.packets).
FairSpec == Spec /\ \A id \in Remotes : WF_vars(remote_timeout_cb(id) /\ UNCHANGED world)

-----------------------------------------------------------------------------

\* Every variable has its type.
TypeOK ==
    /\ world \in Worlds /\ packets \in 0..world.packets
    /\ remotes \in [Remotes -> RemoteCtx \cup {NULL}]
    /\ conn_cache \in Entries(({AF_UNSPEC} \cup Families) \X Srcs, Remotes)
    /\ watching \subseteq Remotes
    /\ queries \in [Queries -> QueryCtx \cup {NULL}]
    /\ auth \in BOOLEAN
    /\ proc \in {"up", "down", "aborted"}

\* conn_cache holds exactly the remotes that exist, fewer than its capacity, each
\* once and under its own key, and exactly these are watched: a callback never
\* meets a released remote_ctx_t, none is leaked, remote_timeout_cb releases the
\* remote whose timer went off, and a remote cached for a family has a socket of it.
CacheMatches ==
    /\ {id \in Remotes : Live(id)} = {conn_cache[i].data : i \in DOMAIN conn_cache}
    /\ watching = {id \in Remotes : Live(id)}
    /\ Len(conn_cache) < MAX_UDP_CONN_NUM
    /\ \A i \in DOMAIN conn_cache :
          LET r == remotes[conn_cache[i].data]
          IN  conn_cache[i].key = <<r.af, r.src>> /\ r.af \in {AF_UNSPEC, r.sock}
    /\ \A i, j \in DOMAIN conn_cache : conn_cache[i].key = conn_cache[j].key => i = j

\* A datagram goes to the destination its header names, and a reply is labelled
\* with the destination it comes from: what "detect destination mismatch" in
\* server_recv_cb is for.
Routed ==
    last # NULL => last.addr \in (IF last.label \in Names THEN Resolves[last.label] ELSE {last.label})

\* The same, of a relay whose clients use no names.
RoutedToAddresses == world.dests \subseteq Addrs => Routed

\* An idle remote does not stay.
RemotesEnd == \A id \in Remotes : Live(id) ~> (~Live(id) \/ proc = "aborted")
===============================================================================
