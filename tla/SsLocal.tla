------------------------------- MODULE SsLocal -------------------------------
(***************************************************************************)
(* ss-local's TCP relay (src/local.c): a SOCKS5 server.  server_recv_cb is *)
(* a stage machine: 0 expects the method selection, 1 the request, 5       *)
(* relays.  It goes through several stages in one call when their bytes    *)
(* arrive together, and the call that reads a CONNECT request also makes   *)
(* the remote_t, answers the application and starts to connect.            *)
(*                                                                         *)
(* Applications speak SOCKS5, and their method selection arrives whole; a  *)
(* request may be cut.  server->buf also receives the handshake; that use  *)
(* is left out, since remote_recv_cb overwrites its length before anything *)
(* else reads it.                                                          *)
(***************************************************************************)
EXTENDS TcpClient

CONSTANTS
    GreetLen,   \* bytes of the method selection
    ReqLen      \* bytes of the request

ASSUME HandshakeAssumption == GreetLen \in Nat \ {0} /\ ReqLen \in Nat \ {0}

VARIABLES
    stage,      \* server->stage
    req,        \* what the application asks for
    fast_open   \* the global fast_open flag

lvars == <<stage, req, fast_open>>

\* cmd "other" is anything but CONNECT; UDP ASSOCIATE, when it is enabled, is
\* answered first and then closes the connection like the others.
Requests == [cmd : {"connect", "other"}, atyp : {"ip", "name", "bad"}]

local_accept_cb ==
    /\ Accept(new_server(life), {"srvRecv"})
    /\ stage' = 0
    /\ req' \in Requests
    /\ UNCHANGED fast_open

-----------------------------------------------------------------------------
(* The handshake.                                                          *)

\* Stage 0: the method selection alone.
Greeting ==
    /\ "srvRecv" \in io /\ stage = 0
    /\ stage' = 1
    /\ UNCHANGED <<vars, req, fast_open>>

\* A receive leaves server_recv_cb in stage 1 with len bytes: the request was
\* waited for, or arrived with the method selection.
RequestBytes(len) ==
    /\ "srvRecv" \in io
    /\ \/ stage = 1 /\ len <= BUF_SIZE
       \/ stage = 0 /\ opt.pipelined /\ GreetLen + len <= BUF_SIZE
    /\ len <= ReqLen + (IF opt.pipelined THEN UpLen ELSE 0)

\* The request is cut, and the length of what follows it wraps: memmove leaves
\* the buffer, or stale bytes make the request one that is refused.
RequestCut ==
    /\ \E len \in 1..(ReqLen - 1) : RequestBytes(len)
    /\ CloseBoth(life)
    /\ proc' \in Surviving
    /\ UNCHANGED <<conf, connected, sbuf, rbuf, upstream, downstream, idle, spurious,
                   lvars>>

\* The request is not a CONNECT, has an unknown address type, or its remote_t
\* cannot be made.
RequestRefused ==
    /\ RequestBytes(ReqLen)
    /\ CloseBoth(life)
    /\ UNCHANGED <<conf, proc, connected, sbuf, rbuf, upstream, downstream, idle,
                   spurious, lvars>>

\* create_remote fails for a destination in the ACL, and its result is used.
RequestDirectFails ==
    /\ RequestBytes(ReqLen)
    /\ req = [cmd |-> "connect", atyp |-> "ip"] /\ opt.acl
    /\ proc' = "aborted"
    /\ UNCHANGED <<conf, life, io, connected, sbuf, rbuf, upstream, downstream, idle,
                   spurious, lvars>>

\* A CONNECT with p bytes of payload behind it is granted: the remote_t is made,
\* direct if the address is in the ACL.
Granted(p) ==
    /\ p \in 0..UpLen
    /\ RequestBytes(ReqLen + p)
    /\ req.cmd = "connect" /\ req.atyp # "bad"
    /\ direct' \in IF opt.acl /\ req.atyp = "ip" THEN BOOLEAN ELSE {FALSE}
    /\ got' = p

\* Granted, but the reply, ss_encrypt or sendto() fails; sendto() may show that
\* fast open is not supported.
GrantedFails ==
    /\ \E p \in 0..UpLen : Granted(p)
    /\ CloseBoth(link_remote(life))
    /\ fast_open' \in IF direct' THEN {fast_open} ELSE {fast_open, FALSE}
    /\ UNCHANGED <<opt, proc, connected, sbuf, rbuf, counter, made, header, up,
                   downstream, idle, spurious, stage, req>>

\* remote->buf when stage 5 is entered.  Its length is computed before ss_gen_hash
\* has put AUTH_BYTES in front of the payload.
FirstBytes(p) == IF direct' THEN [Empty EXCEPT !.len = p] ELSE Encrypted(HdrLen + p)

\* Granted: the call goes on in stage 5, which encrypts and connects.
Dial(p) ==
    /\ Granted(p)
    /\ stage' = 5
    /\ life' = link_remote(life)
    /\ counter' = IF opt.auth /\ ~direct' /\ p > 0 THEN counter + 1 ELSE counter
    /\ made' = FirstBytes(p).len
    /\ header' = IF direct' THEN None ELSE FirstBytes(p).len - HdrLen - p
    /\ UNCHANGED <<opt, proc, sbuf, downstream, spurious, req, fast_open>>

\* Mutant: no timer limits the attempt to connect.
DialWatchers_untimed == AwaitWrite(io)

DialWatchers == AwaitWrite(io) \cup {"connTimer"}

\* connect(), and wait for its outcome.
DialConnect ==
    /\ \E p \in 0..UpLen : Dial(p) /\ rbuf' = FirstBytes(p)
    /\ ~fast_open \/ direct'
    /\ io' = DialWatchers
    /\ idle' = 0
    /\ UNCHANGED <<connected, up>>

\* sendto() with MSG_FASTOPEN is in progress: wait, with no timer.
DialFastOpenPending ==
    /\ \E p \in 0..UpLen : Dial(p) /\ rbuf' = FirstBytes(p)
    /\ fast_open /\ ~direct'
    /\ io' = AwaitWrite(io)
    /\ UNCHANGED <<connected, up, idle>>

\* sendto() with MSG_FASTOPEN has taken some of the bytes: relay on.
DialFastOpen ==
    /\ fast_open
    /\ \E p \in 0..UpLen :
        /\ Dial(p) /\ ~direct'
        /\ LET b == FirstBytes(p) IN
           \E s \in IF opt.whole THEN {b.len} ELSE 0..b.len :
                /\ rbuf' = Unsent(b, s)
                /\ up' = Write(up, b.base, s)
    /\ connected' = TRUE
    /\ io' = io \cup {"remRecv"}
    /\ UNCHANGED idle

-----------------------------------------------------------------------------
(* Relaying.                                                               *)

\* Stage 5 of a direct remote_t: the payload goes as it is.
RelayDirect ==
    /\ \E n \in 1..UpLen :
        /\ Read(n)
        /\ Pass([base |-> made, idx |-> rbuf.idx, len |-> n])
    /\ life' = use_remote(life)
    /\ UNCHANGED <<conf, proc, connected, sbuf, counter, header, downstream, idle,
                   spurious>>

local_server_recv_cb ==
    \/ Greeting \/ RequestCut \/ RequestRefused \/ RequestDirectFails \/ GrantedFails
    \/ DialConnect \/ DialFastOpenPending \/ DialFastOpen
    \/ /\ \/ stage = 5 /\ connected /\ ~direct /\ Relay
          \/ stage = 5 /\ connected /\ direct /\ RelayDirect
          \/ stage = 5 /\ RelayError
          \/ ReadEnd \/ ReadAgain
       /\ UNCHANGED lvars

ConnectedWatchers == (io \ {"connTimer"}) \cup {"recvTimer", "remRecv"}

\* remote_send_cb: connected; send what waits, if anything does.
LocalConnected ==
    /\ "remSend" \in io /\ ~connected
    /\ connected' = TRUE
    /\ idle' = 0
    /\ IF rbuf.len = 0
       THEN /\ io' = (ConnectedWatchers \ {"remSend"}) \cup {"srvRecv"}
            /\ life' = use_server(life)
            /\ UNCHANGED <<rbuf, up>>
       ELSE FlushTo(ConnectedWatchers, rbuf, SendResults(rbuf.len))
    /\ UNCHANGED <<conf, proc, sbuf, got, counter, made, header, downstream, spurious>>

local_remote_send_cb == (LocalConnected \/ Flush \/ FlushError) /\ UNCHANGED lvars

\* Its first call restarts the timer, or starts it.
local_remote_recv_cb ==
    /\ \/ RelayBack(io \cup {"recvTimer"})
       \/ RelayBackEnd \/ RelayBackBadCipher
       \/ RelayBackAgain(io \cup {"recvTimer"})
    /\ idle' = 0
    /\ UNCHANGED lvars

local_server_send_cb == (FlushBack \/ FlushBackError) /\ UNCHANGED lvars

local_remote_timeout_cb == Timeout /\ UNCHANGED lvars

\* SIGINT or SIGTERM ends the loop; free_connections frees the server_t first.
Shutdown ==
    /\ proc' = "stopped"
    /\ LET first == close_and_free_server(life) IN
       life' = IF life.server # "live" THEN life
               ELSE IF life.toRemote THEN close_and_free_remote(first) ELSE first
    /\ io' = io \cap Armed(life')
    /\ UNCHANGED <<conf, connected, sbuf, rbuf, upstream, downstream, idle, spurious,
                   lvars>>

LocalNext ==
    /\ proc = "running"
    /\ \/ local_accept_cb \/ local_server_recv_cb \/ local_server_send_cb \/ local_remote_recv_cb
       \/ local_remote_send_cb \/ local_remote_timeout_cb \/ Shutdown
       \/ (Tick /\ UNCHANGED lvars)
=============================================================================
