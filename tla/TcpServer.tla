------------------------------ MODULE TcpServer ------------------------------
(***************************************************************************)
(* One TCP connection of ss-server (src/server.c): the server_t facing the *)
(* client, the remote_t facing the destination, the libev watchers armed   *)
(* on both, the two buffers, the idle timer and the pending DNS query.     *)
(* The slot is reused: after a connection is freed the same peer may be    *)
(* accepted again.                                                         *)
(*                                                                         *)
(* Bytes are abstracted to their position in the stream they come from     *)
(* (see SendBuffer).  The client's stream is IvLen bytes of IV, the        *)
(* request header, and at most UpLen bytes of payload (framed in chunks    *)
(* when one-time authentication is on).                                    *)
(***************************************************************************)
EXTENDS Integers, FiniteSets, SendBuffer

CONSTANTS
    BUF_SIZE,           \* capacity of a receive
    IvLen,              \* enc_get_iv_len()
    HdrLen,             \* bytes of ATYP, DST.ADDR and DST.PORT
    ONETIMEAUTH_BYTES,  \* bytes of the header's HMAC
    UpLen,              \* bound: bytes a client sends after the header
    DownLen,            \* bound: bytes a destination sends
    Released,           \* payload bytes ss_check_hash has released, as a
                        \* function of the framed bytes it has consumed
    Kinds,              \* requests clients make: "ip", "domain", "invalid"
    FastOpenKinds,      \* the same, of a server that uses TCP Fast Open
    Otas,               \* values of the header's ONETIMEAUTH_FLAG
    FAST_OPEN,          \* whether --fast-open is given: a set of Booleans
    AUTH,               \* -A: one-time authentication required
    ACL,                \* "off", "black" or "white"
    IDLE_TICKS,         \* bound: clock ticks until the idle timer fires
    MaxSpurious         \* bound: wake-ups of a receive that find no data

ASSUME SizesAssumption ==
    /\ BUF_SIZE \in Nat /\ IvLen \in Nat /\ HdrLen \in Nat \ {0}
    /\ ONETIMEAUTH_BYTES \in Nat
    /\ UpLen \in Nat /\ DownLen \in Nat
    /\ IvLen < BUF_SIZE
    /\ IDLE_TICKS \in Nat \ {0} /\ MaxSpurious \in Nat

ASSUME OptionsAssumption ==
    /\ Kinds \subseteq {"ip", "domain", "invalid"} /\ FastOpenKinds \subseteq Kinds
    /\ Otas \subseteq BOOLEAN
    /\ FAST_OPEN \subseteq BOOLEAN /\ AUTH \in BOOLEAN
    /\ ACL \in {"off", "black", "white"}

\* Releasing is monotone and never ahead of what was consumed.
ASSUME ReleasedAssumption ==
    /\ Released \in [0..UpLen -> 0..UpLen]
    /\ Released[0] = 0
    /\ \A p, q \in 0..UpLen : p <= q => Released[p] <= Released[q]

VARIABLES
    proc,       \* "running", "stopped" (signal), "fatal" (FATAL was called) or
                \* "aborted" (by the allocator)
    listed,     \* the peer's address is in the ACL's address set
    fast_open,  \* the global fast_open flag
    life,       \* which objects exist, and the pointers between them
    io,         \* the watchers that are active
    stage,      \* server->stage
    req,        \* what the client asks for
    connected,  \* remote->send_ctx->connected
    sbuf, rbuf, \* server->buf, remote->buf
    got,        \* bytes received from the client
    dgot,       \* bytes received from the destination
    einit,      \* server->e_ctx->init
    up, down,   \* what was written to the destination, to the client
    idle,       \* ticks since the idle timer was last restarted
    spurious    \* wake-ups that found no data

vars == <<proc, listed, fast_open, life, io, stage, req, connected, sbuf, rbuf,
          got, dgot, einit, up, down, idle, spurious>>

-----------------------------------------------------------------------------
(* Objects, pointers and watchers.                                         *)

ServerWatchers == {"srvRecv", "srvSend", "timer"}
RemoteWatchers == {"remRecv", "remSend"}
Watchers == ServerWatchers \cup RemoteWatchers

\* server, remote: the two objects; toRemote: server->remote # NULL; toServer:
\* remote->server # NULL; query: server->query, "dead" when resolv_query could
\* submit nothing; uaf records that a freed object was used.
Lives ==
    [server : {"none", "live", "freed"}, remote : {"none", "live", "freed"},
     toRemote : BOOLEAN, toServer : BOOLEAN,
     query : {"null", "live", "dead"}, uaf : BOOLEAN]

NoLife ==
    [server |-> "none", remote |-> "none", toRemote |-> FALSE, toServer |-> FALSE,
     query |-> "null", uaf |-> FALSE]

new_server(l) == [NoLife EXCEPT !.server = "live", !.uaf = l.uaf]

\* new_remote, and the two links made by its callers.
link_remote(l) ==
    [l EXCEPT !.remote = "live", !.toRemote = TRUE, !.toServer = TRUE]

\* Mutant: free_remote leaves server->remote alone.
close_and_free_remote_keeps_link(l) ==
    [l EXCEPT !.remote = "freed", !.toServer = FALSE, !.uaf = @ \/ l.remote # "live"]

close_and_free_remote(l) ==
    [l EXCEPT !.remote = "freed", !.toServer = FALSE,
              !.toRemote = IF l.toServer THEN FALSE ELSE @,
              !.uaf = @ \/ l.remote # "live" \/ (l.toServer /\ l.server # "live")]

close_and_free_server(l) ==
    [l EXCEPT !.server = "freed", !.toRemote = FALSE, !.query = "null",
              !.toServer = IF l.toRemote THEN FALSE ELSE @,
              !.uaf = @ \/ l.server # "live" \/ (l.toRemote /\ l.remote # "live")]

\* The next value of proc, p unless the step released an allocation that was
\* released before: the allocator notices, or it does not.
Surviving(p, again) == IF again THEN {p, "aborted"} ELSE {p}

\* The answer of the resolver ends the query.
answered(l) == [l EXCEPT !.query = "null"]

\* A callback of one object dereferences the other one.
use_remote(l) == [l EXCEPT !.uaf = @ \/ l.remote # "live"]
use_server(l) == [l EXCEPT !.uaf = @ \/ l.server # "live"]

\* server_recv_cb receives into server->buf in stage 0, then into remote->buf.
use_buf(l) == IF stage = 0 THEN l ELSE use_remote(l)

\* close_and_free_remote(server->remote), which does nothing to NULL.
close_remote_of(l) == IF l.toRemote THEN close_and_free_remote(l) ELSE l

\* Stop reading the client until remote->buf is written to the destination.
AwaitWrite(w) == (w \ {"srvRecv"}) \cup {"remSend"}

\* Mutant: the destination is never read.
ResumeRead_forgets_remote(w) == (w \ {"remSend"}) \cup {"srvRecv"}

\* remote->buf is written: read on.  The first time also read the destination.
ResumeRead(w) ==
    (w \ {"remSend"}) \cup {"srvRecv"} \cup (IF stage = 4 THEN {"remRecv"} ELSE {})

\* Stop reading the destination until server->buf is written to the client.
AwaitClient(w) == (w \ {"remRecv"}) \cup {"srvSend"}

Armed(l) ==
    (IF l.remote = "live" THEN RemoteWatchers ELSE {})
        \cup (IF l.server = "live" THEN ServerWatchers ELSE {})

-----------------------------------------------------------------------------
(* The client's stream.                                                    *)

Requests == [kind : Kinds, ota : Otas]
Asked == [kind : IF fast_open THEN FastOpenKinds ELSE Kinds, ota : Otas]
Auth(r) == AUTH \/ r.ota
Header(r) == HdrLen + (IF Auth(r) THEN ONETIMEAUTH_BYTES ELSE 0)
Preamble(r) == IvLen + Header(r)

\* Payload bytes in the first n bytes that follow the header.
Payload(r, n) == IF Auth(r) THEN Released[n] ELSE n

-----------------------------------------------------------------------------
(* Endings shared by the callbacks.                                        *)

streams == <<got, dgot, einit, up, down>>
bufs == <<sbuf, rbuf>>

\* close_and_free_remote(server->remote); close_and_free_server(server)
CloseBoth(l) ==
    LET closed == close_and_free_server(close_remote_of(l)) IN
    /\ life' = closed
    /\ io' = io \cap Armed(closed)

\* close_and_free_server(server); close_and_free_remote(remote)
CloseServerFirst(l) ==
    LET first == close_and_free_server(l)
        closed == IF l.toRemote THEN close_and_free_remote(first) ELSE first IN
    /\ life' = closed
    /\ io' = io \cap Armed(closed)

\* close_and_free_server(server)
CloseServer(l) ==
    /\ life' = close_and_free_server(l)
    /\ io' = io \ ServerWatchers

\* close_and_free_remote(remote), for a remote_t whose server is gone.
CloseRemote(l) ==
    /\ life' = close_and_free_remote(l)
    /\ io' = io \ RemoteWatchers

-----------------------------------------------------------------------------
(* Accepting, and the request header.                                      *)

\* Mutant: the idle timer is not started.
AcceptWatchers_no_timer == {"srvRecv"}

\* What accept_cb starts.
AcceptWatchers == {"srvRecv", "timer"}

Init ==
    /\ proc = "running"
    /\ listed \in BOOLEAN
    /\ fast_open \in FAST_OPEN
    /\ life = NoLife
    /\ io = {}
    /\ stage = 0
    /\ req \in Asked
    /\ connected = FALSE
    /\ sbuf = Empty /\ rbuf = Empty
    /\ got = 0 /\ dgot = 0 /\ einit = FALSE
    /\ up = NoBytes /\ down = NoBytes
    /\ idle = 0 /\ spurious = 0

acl_match_ip == IF ACL = "white" THEN ~listed ELSE listed

\* named: get_peer_name found the peer's address.
accept_cb ==
    /\ proc = "running"
    /\ life.server # "live"
    /\ \E named \in BOOLEAN : ~(ACL # "off" /\ named /\ acl_match_ip)
    /\ life' = new_server(life)
    /\ io' = io \cup AcceptWatchers
    /\ req' \in Asked
    /\ stage' = 0 /\ connected' = FALSE
    /\ sbuf' = Empty /\ rbuf' = Empty
    /\ got' = 0 /\ dgot' = 0 /\ einit' = FALSE
    /\ up' = NoBytes /\ down' = NoBytes
    /\ idle' = 0 /\ spurious' = 0
    /\ UNCHANGED <<proc, listed, fast_open>>

\* What connect_to_remote may do with the first len bytes: s of them travel
\* in the SYN; fo is the new value of fast_open.
ConnectResults(len) ==
    IF fast_open
    THEN [s : 0..len, fo : {TRUE}] \cup {[s |-> 0, fo |-> FALSE]}
    ELSE {[s |-> 0, fo |-> FALSE]}

\* The caller's half after connect_to_remote: link the objects and move what
\* is left of b to remote->buf, whose array[0] becomes byte `from'.
Connected(l, b, from, c) ==
    LET left == b.len - c.s IN
    /\ life' = link_remote(l)
    /\ fast_open' = c.fo
    /\ up' = Write(up, b.base + b.idx, c.s)
    /\ rbuf' = IF left > 0 THEN [base |-> from, idx |-> 0, len |-> left] ELSE Empty
    /\ sbuf' = IF left > 0 THEN [b EXCEPT !.idx = 0, !.len = 0] ELSE Consume(b, c.s)
    /\ connected' = FALSE
    /\ io' = AwaitWrite(io)

\* server_recv_cb in stage 0, before the IV is complete.
ServerRecvIV ==
    /\ "srvRecv" \in io /\ stage = 0
    /\ \E n \in 1..(BUF_SIZE - sbuf.len) :
        /\ sbuf.len + n <= IvLen
        /\ got' = got + n
        /\ sbuf' = [sbuf EXCEPT !.len = @ + n]
    /\ idle' = 0
    /\ UNCHANGED <<proc, listed, fast_open, life, io, stage, req, connected, rbuf,
                   dgot, einit, up, down, spurious>>

\* n more bytes complete the IV: what precedes the parsing of the header.
FirstBytes(n) ==
    /\ "srvRecv" \in io /\ stage = 0
    /\ n \in 1..(BUF_SIZE - sbuf.len)
    /\ got + n <= Preamble(req) + UpLen
    /\ sbuf.len + n > IvLen
    /\ got' = got + n
    /\ idle' = 0

\* ss_decrypt fails, and has freed the array of server->buf, as free_server will.
ServerRecvBadCipher ==
    /\ \E n \in 1..BUF_SIZE : FirstBytes(n)
    /\ CloseServer(life)
    /\ proc' \in Surviving(proc, TRUE)
    /\ UNCHANGED <<listed, fast_open, stage, req, connected, bufs,
                   dgot, einit, up, down, spurious>>

\* The header is cut short, has an unknown address type, or the first chunk
\* has a wrong hash.
ServerRecvBadHeader ==
    /\ \E n \in 1..BUF_SIZE :
        /\ FirstBytes(n)
        /\ got' < Preamble(req) \/ req.kind = "invalid" \/ Auth(req)
    /\ CloseServer(life)
    /\ UNCHANGED <<proc, listed, fast_open, stage, req, connected, bufs,
                   dgot, einit, up, down, spurious>>

\* The header's HMAC is wrong: the peer is banned in black list mode.
ServerRecvBadAuth ==
    /\ Auth(req)
    /\ \E n \in 1..BUF_SIZE : FirstBytes(n) /\ got' >= Preamble(req)
    /\ \E named \in BOOLEAN : listed' = (listed \/ (named /\ ACL = "black"))
    /\ CloseServer(life)
    /\ UNCHANGED <<proc, fast_open, stage, req, connected, bufs,
                   dgot, einit, up, down, spurious>>

\* server->buf after the header was removed and ss_check_hash was applied.
FirstPayload == [base |-> 0, idx |-> 0, len |-> Payload(req, got' - Preamble(req))]

Handshake(n) ==
    /\ FirstBytes(n)
    /\ got' >= Preamble(req)

\* The destination is an address: connect to it.
ServerRecvConnect ==
    /\ req.kind = "ip"
    /\ \E n \in 1..BUF_SIZE : Handshake(n)
    /\ \/ /\ \E c \in ConnectResults(FirstPayload.len) :
              Connected(life, FirstPayload, FirstPayload.base, c)
          /\ stage' = 4
       \/ /\ CloseServer(life)   \* socket() failed
          /\ UNCHANGED <<fast_open, stage, connected, bufs, up>>
    /\ UNCHANGED <<proc, listed, req, dgot, einit, down, spurious>>

\* The destination is a name: ask the resolver.
ServerRecvResolve ==
    /\ req.kind = "domain"
    /\ \E n \in 1..BUF_SIZE : Handshake(n)
    /\ sbuf' = FirstPayload
    /\ stage' = 4
    /\ \E q \in {"live", "dead"} : life' = [life EXCEPT !.query = q]
    /\ io' = io \ {"srvRecv"}
    /\ UNCHANGED <<proc, listed, fast_open, req, connected, rbuf,
                   dgot, einit, up, down, spurious>>

\* The resolver answers with an address; the rest of server->buf is moved
\* from where connect_to_remote stopped.
server_resolve_cb ==
    /\ life.query = "live"
    /\ \/ \E c \in ConnectResults(sbuf.len) :
              Connected(answered(life), sbuf, sbuf.base + sbuf.idx + c.s, c)
       \/ /\ CloseServer(answered(life))   \* no address, or socket() failed
          /\ UNCHANGED <<fast_open, connected, bufs, up>>
    /\ UNCHANGED <<proc, listed, stage, req, got, dgot, einit, down, idle, spurious>>

-----------------------------------------------------------------------------
(* Client to destination.                                                  *)

\* server_recv_cb: end of stream or an error of recv().
ServerRecvEnd ==
    /\ "srvRecv" \in io
    /\ CloseBoth(use_buf(life))
    /\ idle' = 0
    /\ UNCHANGED <<proc, listed, fast_open, stage, req, connected, bufs, streams, spurious>>

\* server_recv_cb: EAGAIN.  Only the idle timer is restarted.
ServerRecvAgain ==
    /\ "srvRecv" \in io
    /\ spurious < MaxSpurious
    /\ spurious' = spurious + 1
    /\ idle' = 0
    /\ life' = use_buf(life)
    /\ UNCHANGED <<proc, listed, fast_open, io, stage, req, connected, bufs, streams>>

\* server_recv_cb after the handshake: n more bytes arrive.
RelayedBytes(n) ==
    /\ "srvRecv" \in io /\ stage # 0
    /\ got + n <= Preamble(req) + UpLen
    /\ got' = got + n
    /\ idle' = 0

\* remote->buf after they were decrypted and ss_check_hash was applied.
NextPayload ==
    LET before == Payload(req, got - Preamble(req)) IN
    [base |-> before, idx |-> rbuf.idx,
     len |-> Payload(req, got' - Preamble(req)) - before]

\* ss_decrypt fails, and has freed the array of remote->buf, as free_remote will.
ServerRecvRelayBadCipher ==
    /\ \E n \in 1..BUF_SIZE : RelayedBytes(n)
    /\ CloseBoth(use_remote(life))
    /\ proc' \in Surviving(proc, TRUE)
    /\ UNCHANGED <<listed, fast_open, stage, req, connected, bufs,
                   dgot, einit, up, down, spurious>>

\* A chunk has a wrong hash: the server_t is freed first.
ServerRecvRelayBadHash ==
    /\ Auth(req)
    /\ \E n \in 1..BUF_SIZE : RelayedBytes(n)
    /\ CloseServerFirst(use_remote(life))
    /\ UNCHANGED <<proc, listed, fast_open, stage, req, connected, bufs,
                   dgot, einit, up, down, spurious>>

\* send() to the destination; what it does not accept waits in remote->buf.
\* In any stage but 5 the callback ends in FATAL.
ServerRecvRelay ==
    /\ \E n \in 1..BUF_SIZE : RelayedBytes(n)
    /\ life' = use_remote(life)
    /\ IF stage = 5
       THEN LET b == NextPayload IN
            \E s \in SendResults(b.len) :
                /\ up' = Write(up, b.base, Sent(s))
                /\ IF s = b.len
                   THEN rbuf' = b /\ UNCHANGED io
                   ELSE /\ rbuf' = Unsent(b, Sent(s))
                        /\ io' = AwaitWrite(io)
                /\ UNCHANGED proc
       ELSE proc' = "fatal" /\ UNCHANGED <<up, rbuf, io>>
    /\ UNCHANGED <<listed, fast_open, stage, req, connected, sbuf,
                   dgot, einit, down, spurious>>

\* send() to the destination fails.
ServerRecvRelayError ==
    /\ \E n \in 1..BUF_SIZE : RelayedBytes(n)
    /\ CloseBoth(use_remote(life))
    /\ UNCHANGED <<proc, listed, fast_open, stage, req, connected, bufs,
                   dgot, einit, up, down, spurious>>

\* remote_send_cb: the connection attempt failed, or send() did.
RemoteSendError ==
    /\ "remSend" \in io
    /\ IF life.toServer THEN CloseBoth(use_server(life)) ELSE CloseRemote(life)
    /\ UNCHANGED <<proc, listed, fast_open, stage, req, connected, bufs, streams,
                   idle, spurious>>

\* remote_send_cb: connected, and nothing to send yet.
RemoteConnectedIdle ==
    /\ "remSend" \in io
    /\ life.toServer /\ ~connected /\ rbuf.len = 0
    /\ life' = use_server(life)
    /\ connected' = TRUE
    /\ stage' = 5
    /\ io' = (io \ {"remSend"}) \cup {"srvRecv", "remRecv"}
    /\ UNCHANGED <<proc, listed, fast_open, req, bufs, streams, idle, spurious>>

\* remote_send_cb: send what is pending.  The empty buffer of a connected
\* remote_t means "close".
RemoteSend ==
    /\ "remSend" \in io
    /\ life.toServer /\ (connected \/ rbuf.len > 0)
    /\ connected' = TRUE
    /\ IF rbuf.len = 0
       THEN /\ CloseBoth(use_server(life))
            /\ UNCHANGED <<stage, rbuf, up>>
       ELSE \E s \in SendResults(rbuf.len) :
            /\ life' = use_server(life)
            /\ up' = Write(up, rbuf.base + rbuf.idx, Sent(s))
            /\ IF s = rbuf.len
               THEN /\ rbuf' = [rbuf EXCEPT !.idx = 0, !.len = 0]
                    /\ stage' = IF stage = 4 THEN 5 ELSE stage
                    /\ io' = ResumeRead(io)
               ELSE /\ rbuf' = Consume(rbuf, Sent(s))
                    /\ UNCHANGED <<stage, io>>
    /\ UNCHANGED <<proc, listed, fast_open, req, sbuf, got, dgot, einit, down,
                   idle, spurious>>

-----------------------------------------------------------------------------
(* Destination to client.                                                  *)

\* remote_recv_cb: end of stream, an error of recv(), of ss_encrypt or of
\* send(); or the server_t is gone.
RemoteRecvEnd ==
    /\ "remRecv" \in io
    /\ IF life.toServer
       THEN CloseBoth(use_server(life)) /\ idle' = 0
       ELSE CloseRemote(life) /\ UNCHANGED idle
    /\ UNCHANGED <<proc, listed, fast_open, stage, req, connected, bufs, streams, spurious>>

\* remote_recv_cb: EAGAIN.
RemoteRecvAgain ==
    /\ "remRecv" \in io /\ life.toServer
    /\ spurious < MaxSpurious
    /\ spurious' = spurious + 1
    /\ life' = use_server(life)
    /\ idle' = 0
    /\ UNCHANGED <<proc, listed, fast_open, io, stage, req, connected, bufs, streams>>

\* Mutant: ss_encrypt never puts the IV in front.
Encrypted_without_IV(r) == [base |-> IvLen + dgot, idx |-> sbuf.idx, len |-> r]

\* server->buf after r bytes were received and encrypted: the first call of
\* ss_encrypt puts the IV in front of them.
Encrypted(r) ==
    IF einit THEN [base |-> IvLen + dgot, idx |-> sbuf.idx, len |-> r]
             ELSE [base |-> 0, idx |-> sbuf.idx, len |-> IvLen + r]

\* remote_recv_cb: send() to the client; the rest waits in server->buf.
RemoteRecv ==
    /\ "remRecv" \in io /\ life.toServer
    /\ life' = use_server(life)
    /\ idle' = 0
    /\ einit' = TRUE
    /\ \E r \in 1..BUF_SIZE :
        /\ dgot + r <= DownLen
        /\ dgot' = dgot + r
        /\ LET b == Encrypted(r) IN
           \E s \in SendResults(b.len) :
                /\ down' = Write(down, b.base, Sent(s))
                /\ IF s = b.len
                   THEN sbuf' = b /\ UNCHANGED io
                   ELSE /\ sbuf' = Unsent(b, Sent(s))
                        /\ io' = AwaitClient(io)
    /\ UNCHANGED <<proc, listed, fast_open, stage, req, connected, rbuf, got, up, spurious>>

\* server_send_cb: send() failed, or the remote_t is gone.
ServerSendError ==
    /\ "srvSend" \in io
    /\ CloseBoth(life)
    /\ UNCHANGED <<proc, listed, fast_open, stage, req, connected, bufs, streams,
                   idle, spurious>>

\* server_send_cb: send what is pending.
ServerSend ==
    /\ "srvSend" \in io /\ life.toRemote
    /\ IF sbuf.len = 0
       THEN CloseBoth(use_remote(life)) /\ UNCHANGED <<sbuf, down>>
       ELSE \E s \in SendResults(sbuf.len) :
            /\ down' = Write(down, sbuf.base + sbuf.idx, Sent(s))
            /\ IF s = sbuf.len
               THEN /\ sbuf' = [sbuf EXCEPT !.idx = 0, !.len = 0]
                    /\ io' = (io \ {"srvSend"}) \cup {"remRecv"}
                    /\ life' = use_remote(life)
               ELSE /\ sbuf' = Consume(sbuf, Sent(s))
                    /\ UNCHANGED <<io, life>>
    /\ UNCHANGED <<proc, listed, fast_open, stage, req, connected, rbuf, got, dgot,
                   einit, up, idle, spurious>>

-----------------------------------------------------------------------------
(* The idle timer, other connections, and the end of the process.          *)

Tick ==
    /\ "timer" \in io
    /\ idle < IDLE_TICKS
    /\ idle' = idle + 1
    /\ UNCHANGED <<proc, listed, fast_open, life, io, stage, req, connected, bufs,
                   streams, spurious>>

server_timeout_cb ==
    /\ "timer" \in io
    /\ idle = IDLE_TICKS
    /\ CloseBoth(life)
    /\ proc' \in Surviving(proc, life.query = "dead")
    /\ UNCHANGED <<listed, fast_open, stage, req, connected, bufs, streams,
                   idle, spurious>>

\* Another connection's connect_to_remote finds fast open unsupported.
FastOpenUnsupported ==
    /\ fast_open
    /\ fast_open' = FALSE
    /\ UNCHANGED <<proc, listed, life, io, stage, req, connected, bufs, streams,
                   idle, spurious>>

\* SIGINT or SIGTERM ends the loop; main() then calls free_connections.
Shutdown ==
    /\ proc = "running"
    /\ proc' \in Surviving("stopped", life.query = "dead")
    /\ IF life.server = "live" THEN CloseServerFirst(life) ELSE UNCHANGED <<life, io>>
    /\ UNCHANGED <<listed, fast_open, stage, req, connected, bufs, streams,
                   idle, spurious>>

server_recv_cb ==
    \/ ServerRecvIV \/ ServerRecvBadCipher \/ ServerRecvBadHeader
    \/ ServerRecvBadAuth \/ ServerRecvConnect \/ ServerRecvResolve
    \/ ServerRecvEnd \/ ServerRecvAgain \/ ServerRecvRelayBadCipher
    \/ ServerRecvRelayBadHash \/ ServerRecvRelay \/ ServerRecvRelayError

remote_send_cb == RemoteSendError \/ RemoteConnectedIdle \/ RemoteSend
remote_recv_cb == RemoteRecvEnd \/ RemoteRecvAgain \/ RemoteRecv
server_send_cb == ServerSendError \/ ServerSend

\* A callback of the event loop.
Callback ==
    \/ accept_cb \/ server_recv_cb \/ server_resolve_cb
    \/ remote_send_cb \/ remote_recv_cb \/ server_send_cb
    \/ server_timeout_cb

Next ==
    \/ proc = "running" /\ (Callback \/ Tick \/ FastOpenUnsupported)
    \/ Shutdown

Spec == Init /\ [][Next]_vars

\* Time passes, and libev runs the callback of a timer that expired.
Fairness == WF_vars(proc = "running" /\ Tick) /\ WF_vars(proc = "running" /\ server_timeout_cb)

FairSpec == Spec /\ Fairness

-----------------------------------------------------------------------------
(* Properties.                                                             *)

\* Every variable keeps its type.
TypeOK ==
    /\ proc \in {"running", "stopped", "fatal", "aborted"}
    /\ listed \in BOOLEAN /\ fast_open \in BOOLEAN
    /\ life \in Lives
    /\ io \subseteq Watchers
    /\ stage \in {0, 4, 5}
    /\ req \in Requests
    /\ connected \in BOOLEAN
    /\ sbuf \in Buffers /\ rbuf \in Buffers
    /\ got \in Nat /\ dgot \in Nat /\ einit \in BOOLEAN
    /\ up \in Sinks /\ down \in Sinks
    /\ idle \in 0..IDLE_TICKS /\ spurious \in 0..MaxSpurious

\* No callback touches an object that another callback, or an earlier call of
\* the same one, has freed; the two objects point to each other exactly as
\* long as both exist, and neither outlives the other (free_server and
\* free_remote clear the other's pointer, whatever the order of the calls).
Lifetimes ==
    /\ ~life.uaf
    /\ life.remote = "live" => life.server = "live"
    /\ life.toRemote <=> life.remote = "live"
    /\ life.toServer <=> life.remote = "live"
    /\ life.query # "null" => life.server = "live"

\* A freed object has no active watcher, and a live server_t always has its
\* idle timer: no callback runs on freed memory and no connection is forgotten.
WatchersLive ==
    /\ io \subseteq Armed(life)
    /\ life.server = "live" => "timer" \in io

\* server_recv_cb never ends in FATAL("server context error"): the receive
\* watcher is only active while the handshake or the relay wants bytes.
NoFatal == proc # "fatal"

\* While a connection relays, each direction waits for exactly one thing, the
\* next receive or the rest of the last one; and a send callback never finds an
\* empty buffer, which it would take for a request to close.
NoStall ==
    /\ life.server = "live" /\ stage = 5 =>
        /\ "srvRecv" \in io <=> "remSend" \notin io
        /\ "remRecv" \in io <=> "srvSend" \notin io
    /\ "remSend" \in io /\ connected => rbuf.len > 0
    /\ "srvSend" \in io => sbuf.len > 0
    /\ life.server = "live" /\ stage = 4 =>
        \/ "remSend" \in io
        \/ life.remote = "none" /\ life.query # "null"

Waiting(watcher, b) == IF watcher \in io THEN b.len ELSE 0

\* The destination gets the client's payload in order, without loss and without
\* repetition: what was written to it and what waits in a buffer is exactly the
\* payload received so far.
UpstreamExact ==
    /\ up.good
    /\ life.server = "live" /\ stage # 0 =>
        Payload(req, got - Preamble(req)) =
            up.n + (IF life.remote = "none" THEN sbuf.len ELSE Waiting("remSend", rbuf))

\* The client gets one IV followed by the destination's bytes, in order,
\* without loss and without repetition.
DownstreamExact ==
    /\ down.good
    /\ life.server = "live" =>
        (IF einit THEN IvLen ELSE 0) + dgot = down.n + Waiting("srvSend", sbuf)

\* server_resolve_cb stores its new remote_t in server->remote without a look at
\* the old value: it only runs while the server_t waits for it in stage 4 and
\* has no remote_t.  At most one remote_t is made for a connection.
AnswerExpected ==
    life.query # "null" => stage = 4 /\ "srvRecv" \notin io /\ life.remote = "none"

\* Once its peers fall silent an accepted connection is released, whatever state
\* it is in and whether or not the resolver ever answers (server_timeout_cb).
ConnectionsEnd == life.server = "live" ~> life.server # "live"

\* The objects of a connection are sound through every callback and error path:
\* they link each other just while both exist, libev holds no watcher of one that
\* is gone, no callback uses one or reaches a FATAL, and a name answer only comes
\* while its connection waits for it.
ObjectsSound == Lifetimes /\ WatchersLive /\ NoFatal /\ AnswerExpected
=============================================================================
