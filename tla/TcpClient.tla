------------------------------ MODULE TcpClient ------------------------------
(***************************************************************************)
(* One TCP connection of a client-side program: ss-local, ss-tunnel or     *)
(* ss-redir.  The three programs share their relaying half (the server_t   *)
(* facing the application, the remote_t facing ss-server, the two buffers  *)
(* and the watchers on both); this module holds that half and what is      *)
(* claimed of it, and SsLocal, SsTunnel and SsRedir extend it with the     *)
(* callbacks in which they differ.                                         *)
(*                                                                         *)
(* Bytes are abstracted to their position in the stream they travel in, as *)
(* in TcpServer.  Upstream that stream is the output of ss_encrypt: IvLen  *)
(* bytes of IV, HdrLen bytes of address header, then the application's     *)
(* payload, each piece behind AUTH_BYTES when one-time authentication is   *)
(* on.  A direct remote_t (ss-local's ACL) carries the payload alone.      *)
(***************************************************************************)
EXTENDS Integers, FiniteSets, SendBuffer

CONSTANTS
    BUF_SIZE,       \* bytes of one receive
    IvLen, HdrLen,  \* bytes of the IV and of the address header
    AUTH_BYTES,     \* bytes ss_gen_hash puts in front of a chunk
    UpLen,          \* bound: payload bytes the application sends
    DownLen,        \* bound: bytes that arrive from ss-server
    IDLE_TICKS,     \* bound: clock ticks until a timer fires
    MaxSpurious,    \* bound: receives that find no data
    Options         \* the configurations to explore: records of
                    \*   prog: "local", "tunnel" or "redir"
                    \*   auth: -A, one-time authentication
                    \*   fast_open: --fast-open
                    \*   acl: the destinations may be in the ACL
                    \*   pipelined: applications do not wait for the reply
                    \*     before they send payload
                    \*   whole: the first write on a new connection is
                    \*     accepted completely

ASSUME SizesAssumption ==
    /\ BUF_SIZE \in Nat \ {0} /\ IvLen \in Nat \ {0} /\ HdrLen \in Nat \ {0}
    /\ AUTH_BYTES \in Nat /\ UpLen \in Nat /\ DownLen \in Nat
    /\ IDLE_TICKS \in Nat \ {0} /\ MaxSpurious \in Nat

ASSUME OptionsAssumption ==
    Options \subseteq
        [prog : {"local", "tunnel", "redir"}, auth : BOOLEAN, fast_open : BOOLEAN,
         acl : BOOLEAN, pipelined : BOOLEAN, whole : BOOLEAN]

VARIABLES
    opt,        \* the configuration, a member of Options
    proc,       \* "running", "stopped" (signal) or "aborted" (the allocator or
                \* an invalid address ended the process)
    life,       \* which objects exist, and the pointers between them
    io,         \* the watchers that are active
    direct,     \* remote->direct
    connected,  \* remote->send_ctx->connected
    sbuf, rbuf, \* server->buf, remote->buf
    got,        \* payload bytes received from the application
    counter,    \* remote->counter: chunks made
    made,       \* bytes ss_encrypt has produced for ss-server
    header,     \* where in them the address header is, None when it is not
    dgot,       \* bytes received from ss-server
    dinit,      \* server->d_ctx->init
    up, down,   \* what was written to ss-server, to the application
    idle,       \* ticks since a timer was started or restarted
    spurious    \* receives that found no data

conf == <<opt, direct>>
upstream == <<got, counter, made, header, up>>
downstream == <<dgot, dinit, down>>
vars == <<conf, proc, life, io, connected, sbuf, rbuf, upstream, downstream,
          idle, spurious>>

-----------------------------------------------------------------------------
(* Objects, pointers and watchers.                                         *)

ServerWatchers == {"srvRecv", "srvSend"}
RemoteWatchers == {"remRecv", "remSend", "connTimer", "recvTimer"}
Timers == {"connTimer", "recvTimer"}

\* toRemote: server->remote # NULL; toServer: remote->server # NULL; uaf: a
\* freed object was used.
Lives ==
    [server : {"none", "live", "freed"}, remote : {"none", "live", "freed"},
     toRemote : BOOLEAN, toServer : BOOLEAN, uaf : BOOLEAN]

NoLife ==
    [server |-> "none", remote |-> "none", toRemote |-> FALSE, toServer |-> FALSE,
     uaf |-> FALSE]

new_server(l) == [NoLife EXCEPT !.server = "live", !.uaf = l.uaf]

\* new_remote, and the two links its callers make.
link_remote(l) ==
    [l EXCEPT !.remote = "live", !.toRemote = TRUE, !.toServer = TRUE]

\* Mutant: free_remote leaves server->remote alone.
close_and_free_remote_keeps_link(l) ==
    [l EXCEPT !.remote = "freed", !.toServer = FALSE, !.uaf = @ \/ l.remote # "live"]

close_and_free_remote(l) ==
    [l EXCEPT !.remote = "freed", !.toServer = FALSE,
              !.toRemote = IF l.toServer THEN FALSE ELSE @,
              !.uaf = @ \/ l.remote # "live" \/ (l.toServer /\ l.server # "live")]

close_and_free_server(l) ==
    [l EXCEPT !.server = "freed", !.toRemote = FALSE,
              !.toServer = IF l.toRemote THEN FALSE ELSE @,
              !.uaf = @ \/ l.server # "live" \/ (l.toRemote /\ l.remote # "live")]

use_remote(l) == [l EXCEPT !.uaf = @ \/ l.remote # "live"]
use_server(l) == [l EXCEPT !.uaf = @ \/ l.server # "live"]

Armed(l) ==
    (IF l.remote = "live" THEN RemoteWatchers ELSE {})
        \cup (IF l.server = "live" THEN ServerWatchers ELSE {})

\* close_and_free_remote(remote); close_and_free_server(server), where remote is
\* server->remote and may be NULL.
CloseBoth(l) ==
    LET first == IF l.toRemote THEN close_and_free_remote(l) ELSE l IN
    /\ life' = close_and_free_server(first)
    /\ io' = io \cap Armed(life')

\* Mutant: the application is still read while remote->buf is in use.
AwaitWrite_keeps_reading(w) == w \cup {"remSend"}

\* Stop reading the application until remote->buf is written to ss-server.
AwaitWrite(w) == (w \ {"srvRecv"}) \cup {"remSend"}

\* Mutant: ss-server is still read while server->buf is in use.
AwaitClient_keeps_reading(w) == w \cup {"srvSend"}

\* Stop reading ss-server until server->buf is written to the application.
AwaitClient(w) == (w \ {"remRecv"}) \cup {"srvSend"}

\* server->buf is written: read ss-server again.
ReadBack(w) == (w \ {"srvSend"}) \cup {"remRecv"}

\* ss_decrypt frees the array of the buffer it fails on, as free_server will:
\* the allocator notices, or it does not.
Surviving == {"running", "aborted"}

-----------------------------------------------------------------------------
(* Application to ss-server.                                               *)

None == -1

\* What the first send() on a connection may accept.
FirstSends(len) == IF opt.whole THEN {len} ELSE SendResults(len)

\* recv() in server_recv_cb yields n bytes of payload.
Read(n) ==
    /\ "srvRecv" \in io
    /\ n \in 1..BUF_SIZE
    /\ got + n <= UpLen
    /\ got' = got + n

\* n bytes after ss_gen_hash, if it is called, and the counter it advances.
Chunk(n) == IF opt.auth THEN AUTH_BYTES + n ELSE n
NextCounter == IF opt.auth THEN counter + 1 ELSE counter

\* remote->buf after ss_encrypt of n bytes: the first call puts the IV in front.
Encrypted(n) ==
    [base |-> made, idx |-> rbuf.idx, len |-> IF made = 0 THEN IvLen + n ELSE n]

\* send() b to ss-server; what it does not accept waits in remote->buf.
Pass(b) ==
    /\ made' = made + b.len
    /\ \E s \in SendResults(b.len) :
        /\ up' = Write(up, b.base, Sent(s))
        /\ IF s = b.len
           THEN rbuf' = b /\ UNCHANGED io
           ELSE /\ rbuf' = Unsent(b, Sent(s))
                /\ io' = AwaitWrite(io)

\* server_recv_cb of a connected, proxied connection: frame, encrypt and send.
Relay ==
    /\ \E n \in 1..UpLen :
        /\ Read(n)
        /\ Pass(Encrypted(Chunk(n)))
    /\ counter' = NextCounter
    /\ life' = use_remote(life)
    /\ UNCHANGED <<conf, proc, connected, sbuf, header, downstream, idle, spurious>>

\* server_recv_cb: ss_encrypt or send() fails on what was received.
RelayError ==
    /\ \E n \in 1..UpLen : Read(n)
    /\ CloseBoth(use_remote(life))
    /\ UNCHANGED <<conf, proc, connected, sbuf, rbuf, counter, made, header, up,
                   downstream, idle, spurious>>

\* server_recv_cb: end of stream, or an error of recv().
ReadEnd ==
    /\ "srvRecv" \in io
    /\ CloseBoth(life)
    /\ UNCHANGED <<conf, proc, connected, sbuf, rbuf, upstream, downstream, idle,
                   spurious>>

\* A receive finds no data.
ReadAgain ==
    /\ "srvRecv" \in io
    /\ spurious < MaxSpurious
    /\ spurious' = spurious + 1
    /\ UNCHANGED <<conf, proc, life, io, connected, sbuf, rbuf, upstream, downstream,
                   idle>>

\* The tail of remote_send_cb, entered with watchers w: send b, of which results
\* says what may be accepted, and read on once all of it is.
FlushTo(w, b, results) ==
    \E s \in results :
        /\ life' = use_server(life)
        /\ up' = Write(up, b.base + b.idx, Sent(s))
        /\ IF s = b.len
           THEN /\ rbuf' = [b EXCEPT !.idx = 0, !.len = 0]
                /\ io' = (w \ {"remSend"}) \cup {"srvRecv"}
           ELSE /\ rbuf' = Consume(b, Sent(s))
                /\ io' = w

\* remote_send_cb of a connected remote_t, whose empty buffer means "close".
Flush ==
    /\ "remSend" \in io /\ connected
    /\ IF rbuf.len = 0
       THEN CloseBoth(use_server(life)) /\ UNCHANGED <<rbuf, up>>
       ELSE FlushTo(io, rbuf, SendResults(rbuf.len))
    /\ UNCHANGED <<conf, proc, connected, sbuf, got, counter, made, header,
                   downstream, idle, spurious>>

\* remote_send_cb: the connection attempt, ss_encrypt or send() failed.
FlushError ==
    /\ "remSend" \in io
    /\ CloseBoth(use_server(life))
    /\ UNCHANGED <<conf, proc, connected, sbuf, rbuf, upstream, downstream, idle,
                   spurious>>

-----------------------------------------------------------------------------
(* ss-server to application.                                               *)

\* server->buf after r bytes were received and, unless the remote_t is direct,
\* decrypted: the first ss_decrypt takes the IV off.
Decrypted(r) ==
    IF direct THEN [base |-> dgot, idx |-> sbuf.idx, len |-> r]
    ELSE IF dinit THEN [base |-> dgot - IvLen, idx |-> sbuf.idx, len |-> r]
    ELSE [base |-> 0, idx |-> sbuf.idx, len |-> r - IvLen]

\* The first bytes from ss-server do not hold the IV: their length wraps.
CutIV(r) == ~direct /\ ~dinit /\ r < IvLen

\* remote_recv_cb, with watchers w: send() to the application; the rest waits in
\* server->buf.  (Here and below, only ss-local's remote_recv_cb touches idle.)
RelayBack(w) ==
    /\ "remRecv" \in io
    /\ life' = use_server(life)
    /\ dinit' = (dinit \/ ~direct)
    /\ \E r \in 1..BUF_SIZE :
        /\ dgot + r <= DownLen
        /\ ~CutIV(r)
        /\ dgot' = dgot + r
        /\ LET b == Decrypted(r) IN
           \E s \in SendResults(b.len) :
                /\ down' = Write(down, b.base, Sent(s))
                /\ IF s = b.len
                   THEN sbuf' = b /\ io' = w
                   ELSE /\ sbuf' = Unsent(b, Sent(s))
                        /\ io' = AwaitClient(w)
    /\ UNCHANGED <<conf, proc, connected, rbuf, upstream, spurious>>

\* remote_recv_cb: end of stream, or an error of recv() or send().
RelayBackEnd ==
    /\ "remRecv" \in io
    /\ CloseBoth(use_server(life))
    /\ UNCHANGED <<conf, proc, connected, sbuf, rbuf, upstream, downstream, spurious>>

\* remote_recv_cb: ss_decrypt fails, or is given a part of the IV.
RelayBackBadCipher ==
    /\ "remRecv" \in io /\ ~direct
    /\ \E r \in 1..BUF_SIZE : dgot + r <= DownLen /\ dgot' = dgot + r
    /\ CloseBoth(use_server(life))
    /\ proc' \in Surviving
    /\ UNCHANGED <<conf, connected, sbuf, rbuf, upstream, dinit, down, spurious>>

\* remote_recv_cb: no data.
RelayBackAgain(w) ==
    /\ "remRecv" \in io
    /\ spurious < MaxSpurious
    /\ spurious' = spurious + 1
    /\ life' = use_server(life)
    /\ io' = w
    /\ UNCHANGED <<conf, proc, connected, sbuf, rbuf, upstream, downstream>>

\* server_send_cb: send what is pending.
FlushBack ==
    /\ "srvSend" \in io
    /\ IF sbuf.len = 0
       THEN CloseBoth(life) /\ UNCHANGED <<sbuf, down>>
       ELSE \E s \in SendResults(sbuf.len) :
            /\ down' = Write(down, sbuf.base + sbuf.idx, Sent(s))
            /\ IF s = sbuf.len
               THEN /\ sbuf' = [sbuf EXCEPT !.idx = 0, !.len = 0]
                    /\ io' = ReadBack(io)
                    /\ life' = use_remote(life)
               ELSE /\ sbuf' = Consume(sbuf, Sent(s))
                    /\ UNCHANGED <<io, life>>
    /\ UNCHANGED <<conf, proc, connected, rbuf, upstream, dgot, dinit, idle, spurious>>

\* server_send_cb: send() failed.
FlushBackError ==
    /\ "srvSend" \in io
    /\ CloseBoth(life)
    /\ UNCHANGED <<conf, proc, connected, sbuf, rbuf, upstream, downstream, idle,
                   spurious>>

-----------------------------------------------------------------------------
(* The timers, and the end of the process.                                 *)

Tick ==
    /\ io \cap Timers # {}
    /\ idle < IDLE_TICKS
    /\ idle' = idle + 1
    /\ UNCHANGED <<conf, proc, life, io, connected, sbuf, rbuf, upstream, downstream,
                   spurious>>

\* remote_timeout_cb of either timer.
Timeout ==
    /\ io \cap Timers # {}
    /\ idle = IDLE_TICKS
    /\ CloseBoth(use_server(life))
    /\ UNCHANGED <<conf, proc, connected, sbuf, rbuf, upstream, downstream, idle,
                   spurious>>

\* A connection slot nobody uses.
Fresh ==
    /\ proc = "running" /\ life = NoLife /\ io = {}
    /\ direct = FALSE /\ connected = FALSE
    /\ sbuf = Empty /\ rbuf = Empty
    /\ got = 0 /\ counter = 0 /\ made = 0 /\ header = None /\ up = NoBytes
    /\ dgot = 0 /\ dinit = FALSE /\ down = NoBytes
    /\ idle = 0 /\ spurious = 0

\* accept_cb: a new connection, with objects l and watchers w.
Accept(l, w) ==
    /\ life.server # "live"
    /\ life' = l
    /\ io' = w
    /\ direct' = FALSE /\ connected' = FALSE
    /\ sbuf' = Empty /\ rbuf' = Empty
    /\ got' = 0 /\ counter' = 0 /\ made' = 0 /\ header' = None /\ up' = NoBytes
    /\ dgot' = 0 /\ dinit' = FALSE /\ down' = NoBytes
    /\ idle' = 0 /\ spurious' = 0
    /\ UNCHANGED <<opt, proc>>

-----------------------------------------------------------------------------
(* What is claimed of every connection.                                    *)

TypeOK ==
    /\ opt \in Options
    /\ proc \in {"running", "stopped", "aborted"}
    /\ life \in Lives
    /\ io \subseteq ServerWatchers \cup RemoteWatchers
    /\ direct \in BOOLEAN /\ connected \in BOOLEAN /\ dinit \in BOOLEAN
    /\ sbuf \in Buffers /\ rbuf \in Buffers
    /\ {got, counter, made, dgot, idle, spurious} \subseteq Nat
    /\ header \in Nat \cup {None}
    /\ up \in Sinks /\ down \in Sinks

\* No callback uses or frees an object twice whatever order the two sockets and
\* the timers fire in: the pair of objects is freed as a pair, its links agree,
\* and no watcher of a freed object stays registered with the loop
\* (free_remote, free_server, close_and_free_*).
Lifetimes ==
    /\ ~life.uaf
    /\ life.toRemote = (life.remote = "live")
    /\ life.toServer = (life.remote = "live")
    /\ life.remote = "live" => life.server = "live"
    /\ io \subseteq Armed(life)

Relaying == proc = "running" /\ life.remote = "live" /\ connected

\* A connection never waits for nothing: in each direction exactly one of "read
\* more" and "write the rest" is awaited, and a write is only awaited for bytes
\* that exist (the callbacks take an empty buffer for the end and close).  While
\* ss-server is being connected, that is awaited under a timer, except on the
\* fast-open path.
NoStall ==
    /\ Relaying =>
        /\ ("srvRecv" \in io) # ("remSend" \in io)
        /\ ("remRecv" \in io) # ("srvSend" \in io)
        /\ "remSend" \in io => rbuf.len > 0
        /\ "srvSend" \in io => sbuf.len > 0
    /\ proc = "running" /\ life.remote = "live" /\ ~connected =>
        /\ "remSend" \in io
        /\ "connTimer" \in io \/ opt.fast_open
        /\ "srvRecv" \in io => opt.prog = "redir" /\ rbuf.len = 0

Waiting(w, b) == IF w \in io THEN b.len ELSE 0

\* ss-server receives the IV once and first, the address header right behind it,
\* then every payload byte the application sent, in order, each chunk with its
\* authentication bytes, short of what waits in remote->buf.
UpstreamExact ==
    life.remote = "live" /\ connected =>
        /\ up.good
        /\ made = up.n + Waiting("remSend", rbuf)
        /\ header = IF direct THEN None ELSE IvLen
        /\ made = got + (IF direct THEN 0 ELSE IvLen + HdrLen + counter * AUTH_BYTES)

\* Payload bytes received from ss-server, once decrypted.
Plain == IF direct THEN dgot ELSE IF dinit THEN dgot - IvLen ELSE 0

\* The application receives what ss-server sent, decrypted, in order and without
\* the IV, short of what waits in server->buf.
DownstreamExact ==
    life.remote = "live" =>
        /\ down.good
        /\ Plain = down.n + Waiting("srvSend", sbuf)

\* Each direction is a ByteRelay.
Upstream ==
    INSTANCE ByteRelay WITH open <- life.remote = "live", taken <- made,
                            given <- IF up.good THEN up.n ELSE None

Downstream ==
    INSTANCE ByteRelay WITH open <- life.remote = "live", taken <- Plain,
                            given <- IF down.good THEN down.n ELSE None

\* The upstream direction implements the pipe ByteRelay specifies: remote->buf is
\* never refilled before it is written out, nothing is given that was not made,
\* and nothing after the connection is torn down.
UpstreamRelay == Upstream!Spec

\* The downstream direction implements the same pipe.
DownstreamRelay == Downstream!Spec

\* An attempt to connect ss-server ends: with a connection, or by its timer.
ConnectEnds ==
    (proc = "running" /\ life.remote = "live" /\ ~connected /\ ~opt.fast_open)
        ~> (proc # "running" \/ connected \/ life.remote # "live")

\* ss-local closes a connection whose peer has become silent, however far the two
\* directions have got (remote_timeout_cb, restarted by remote_recv_cb).
SilentPeerClosed ==
    (Relaying /\ opt.prog = "local" /\ ~opt.fast_open)
        ~> (proc # "running" \/ life.remote # "live")

\* No connection stays for ever: attempts to connect end, and ss-local closes
\* those whose peer has become silent.
ConnectionsEnd == ConnectEnds /\ SilentPeerClosed
=============================================================================
