--------------------------- MODULE TcpServer_proofs ---------------------------
(***************************************************************************)
(* Proofs about TcpServer for every size of the buffers and the streams,   *)
(* every set of requests and every option.                                 *)
(***************************************************************************)
EXTENDS TcpServer, TLAPS

\* The leaves are for the SMT solver, unless they cite another prover.
USE SMTT(60)

-----------------------------------------------------------------------------
(* The inductive invariant.                                                *)

Live == life.server = "live"

\* Objects, pointers, watchers and the stage of the connection.
Control ==
    /\ Lifetimes
    /\ WatchersLive
    /\ NoFatal
    /\ AnswerExpected
    /\ Live /\ stage = 0 => life.remote = "none" /\ "srvSend" \notin io
    /\ Live /\ stage = 4 => /\ io \cap {"srvRecv", "remRecv", "srvSend"} = {}
                            /\ life.query = "null" => "remSend" \in io
    /\ Live /\ stage = 5 => /\ life.remote = "live" /\ connected
                            /\ "srvRecv" \in io <=> "remSend" \notin io
                            /\ "remRecv" \in io <=> "srvSend" \notin io
    /\ "remSend" \in io /\ connected => rbuf.len > 0
    /\ "srvSend" \in io => sbuf.len > 0

\* How far the client's stream was read.
Received ==
    /\ Live /\ stage = 0 => got = sbuf.len /\ got <= IvLen
    /\ Live /\ stage # 0 => got - Preamble(req) \in 0..UpLen

Inv == TypeOK /\ Control /\ Received

\* What was sent to the destination, and where the rest of the payload is.
Upstream ==
    /\ fast_open => req.kind \in FastOpenKinds
    /\ up.good
    /\ Live /\ stage = 0 => up.n = 0
    /\ Live /\ life.query # "null" =>
        /\ up.n = 0 /\ sbuf.base + sbuf.idx = 0
        /\ sbuf.len = Payload(req, got - Preamble(req))
    /\ life.remote = "live" =>
        up.n + Waiting("remSend", rbuf) = Payload(req, got - Preamble(req))
    /\ "remSend" \in io /\ rbuf.len > 0 => rbuf.base + rbuf.idx = up.n

\* What was sent to the client, and where the rest of the answer is.
Downstream ==
    /\ down.good
    /\ Live /\ stage # 5 => ~einit /\ down.n = 0
    /\ Live /\ ~einit => dgot = 0
    /\ Live => (IF einit THEN IvLen ELSE 0) + dgot = down.n + Waiting("srvSend", sbuf)
    /\ "srvSend" \in io => sbuf.base + sbuf.idx = down.n

\* The connection is gone, and so are its watchers.
Closed ==
    /\ life \in Lives
    /\ life.server = "freed" /\ life.remote # "live"
    /\ ~life.toRemote /\ ~life.toServer /\ life.query = "null" /\ ~life.uaf
    /\ io = {}

-----------------------------------------------------------------------------
(* Releasing the objects.                                                  *)

\* Using an object that exists changes nothing.
LEMMA UseLive ==
    ASSUME TypeOK, Control, life.remote = "live"
    PROVE  use_remote(life) = life /\ use_server(life) = life
BY DEF TypeOK, Control, Lives, Lifetimes, use_remote, use_server

\* close_and_free_remote, then close_and_free_server, release everything.
LEMMA CloseBothCloses ==
    ASSUME TypeOK, Control, Live, CloseBoth(life)
    PROVE  Closed'
BY ZenonT(30) DEF TypeOK, Control, Lives, Lifetimes, WatchersLive, Live, CloseBoth, Closed, Armed,
       close_remote_of, close_and_free_remote, close_and_free_server

\* So do they in the other order.
LEMMA CloseServerFirstCloses ==
    ASSUME TypeOK, Control, Live, CloseServerFirst(life)
    PROVE  Closed'
BY ZenonT(30) DEF TypeOK, Control, Lives, Lifetimes, WatchersLive, Live, CloseServerFirst, Closed, Armed,
       close_and_free_remote, close_and_free_server

\* close_and_free_server is enough while there is no remote_t.
LEMMA CloseServerCloses ==
    ASSUME TypeOK, Control, Live, life.remote = "none",
           NEW l, l \in {life, answered(life)}, CloseServer(l)
    PROVE  Closed'
BY ZenonT(30) DEF TypeOK, Control, Lives, Lifetimes, WatchersLive, Live, CloseServer, Closed, Armed,
       close_and_free_server, answered, ServerWatchers, Watchers, RemoteWatchers

\* A released connection satisfies the invariant, whatever the streams hold.
LEMMA ClosedControl ==
    ASSUME Closed', proc' # "fatal"
    PROVE  Control' /\ Received'
BY DEF Closed, Control, Received, Lives, Lifetimes, WatchersLive, NoFatal, AnswerExpected,
       Live, Armed

-----------------------------------------------------------------------------
(* Types.                                                                  *)

\* The sizes, their types and what ss_check_hash releases.
LEMMA PayloadType ==
    ASSUME NEW r \in Requests, NEW n \in 0..UpLen
    PROVE  /\ Payload(r, n) \in 0..UpLen
           /\ \A k \in 0..UpLen : n <= k => Payload(r, n) <= Payload(r, k)
BY SizesAssumption, ReleasedAssumption DEF Payload

LEMMA PreambleType ==
    ASSUME NEW r \in Requests
    PROVE  Preamble(r) \in Nat /\ Preamble(r) > IvLen
BY SizesAssumption DEF Preamble, Header

\* The objects keep their type, however a callback uses or releases them.
LEMMA LivesType ==
    ASSUME NEW l \in Lives
    PROVE  /\ close_and_free_remote(l) \in Lives
           /\ close_and_free_server(l) \in Lives
           /\ close_remote_of(l) \in Lives
           /\ use_remote(l) \in Lives /\ use_server(l) \in Lives
           /\ use_buf(l) \in Lives
           /\ link_remote(l) \in Lives
           /\ answered(l) \in Lives
           /\ new_server(l) \in Lives
<1>1. close_and_free_remote(l) \in Lives
  BY Zenon DEF Lives, close_and_free_remote
<1>2. close_and_free_server(l) \in Lives
  BY ZenonT(30) DEF Lives, close_and_free_server
<1>3. close_remote_of(l) \in Lives
  BY <1>1, Zenon DEF close_remote_of
<1>4. use_remote(l) \in Lives
  BY Zenon DEF Lives, use_remote
<1>5. use_server(l) \in Lives
  BY Zenon DEF Lives, use_server
<1>6. use_buf(l) \in Lives
  BY <1>4, Zenon DEF use_buf
<1>7. link_remote(l) \in Lives
  BY Zenon DEF Lives, link_remote
<1>8. answered(l) \in Lives
  BY Zenon DEF Lives, answered
<1>9. new_server(l) \in Lives
  BY Zenon DEF Lives, new_server, NoLife
<1>. QED  BY <1>1, <1>2, <1>3, <1>4, <1>5, <1>6, <1>7, <1>8, <1>9

LEMMA CloseType ==
    ASSUME TypeOK, NEW l \in Lives,
           CloseBoth(l) \/ CloseServerFirst(l) \/ CloseServer(l) \/ CloseRemote(l)
    PROVE  life' \in Lives /\ io' \subseteq Watchers
BY LivesType DEF TypeOK, CloseBoth, CloseServerFirst, CloseServer, CloseRemote

\* A send of n bytes moves the live part of a buffer.
LEMMA ConsumeType ==
    ASSUME NEW b \in Buffers, NEW n \in 0..b.len
    PROVE  /\ Consume(b, n) \in Buffers
           /\ Consume(b, n).len = b.len - n
           /\ Consume(b, n).base + Consume(b, n).idx = b.base + b.idx + n
BY DEF Buffers, Consume

\* So does the first send.
LEMMA UnsentType ==
    ASSUME NEW b \in Buffers, NEW n \in 0..b.len
    PROVE  /\ Unsent(b, n) \in Buffers
           /\ Unsent(b, n).len = b.len - n
           /\ Unsent(b, n).base + Unsent(b, n).idx = b.base + n
BY DEF Buffers, Unsent

\* How much a send may accept.
LEMMA SendType ==
    ASSUME NEW len \in Nat, NEW s \in SendResults(len)
    PROVE  /\ Sent(s) \in 0..len /\ Sent(s) \in Nat
           /\ s # len => Sent(s) < len
           /\ s = len => Sent(s) = len
BY DEF SendResults, Sent, Again

LEMMA EmptyType == Empty \in Buffers /\ Empty.len = 0 /\ NoBytes \in Sinks
BY DEF Empty, Buffers, NoBytes, Sinks

LEMMA WriteType ==
    ASSUME NEW sink \in Sinks, NEW from \in Nat, NEW s \in Nat
    PROVE  /\ Write(sink, from, s) \in Sinks /\ Write(sink, from, s).n = sink.n + s
           /\ sink.good /\ (s = 0 \/ from = sink.n) => Write(sink, from, s).good
BY DEF Sinks, Write

\* Writing on from where the stream was left.
LEMMA WriteOn ==
    ASSUME NEW sink \in Sinks, sink.good, NEW s \in Nat
    PROVE  Write(sink, sink.n, s).n = sink.n + s /\ Write(sink, sink.n, s).good
BY DEF Sinks, Write

\* What one more receive from the client adds to its payload.
LEMMA NextPayloadType ==
    ASSUME Inv, NEW n \in 1..BUF_SIZE, RelayedBytes(n)
    PROVE  /\ got' \in Nat /\ got' - Preamble(req) \in 0..UpLen
           /\ got - Preamble(req) \in 0..UpLen
           /\ NextPayload \in Buffers /\ NextPayload.len \in Nat /\ NextPayload.base \in Nat
           /\ NextPayload.base = Payload(req, got - Preamble(req))
           /\ NextPayload.base + NextPayload.len = Payload(req, got' - Preamble(req))
<1>1. Live /\ stage # 0
  BY DEF Inv, Control, WatchersLive, Armed, RelayedBytes, Live, RemoteWatchers
<1>2. got - Preamble(req) \in 0..UpLen /\ got \in Nat /\ Preamble(req) \in Nat
  BY <1>1, PreambleType DEF Inv, Received, TypeOK
<1>3. got' = got + n /\ got' - Preamble(req) \in 0..UpLen
  BY <1>2, SizesAssumption DEF RelayedBytes
<1>4. /\ Payload(req, got - Preamble(req)) \in 0..UpLen
      /\ Payload(req, got' - Preamble(req)) \in 0..UpLen
      /\ Payload(req, got - Preamble(req)) <= Payload(req, got' - Preamble(req))
  <2>1. got - Preamble(req) <= got' - Preamble(req)
    BY <1>2, <1>3
  <2>. QED  BY <1>2, <1>3, <2>1, PayloadType DEF Inv, TypeOK
<1>5. rbuf.idx \in Nat
  BY DEF Inv, TypeOK, Buffers
<1>. QED  BY <1>2, <1>3, <1>4, <1>5, SizesAssumption DEF NextPayload, Buffers

\* ... and one from the destination to what the client must get.
LEMMA EncryptedType ==
    ASSUME TypeOK, NEW r \in 1..BUF_SIZE
    PROVE  /\ Encrypted(r) \in Buffers /\ Encrypted(r).len \in Nat /\ Encrypted(r).base \in Nat
           /\ Encrypted(r).len > 0
           /\ Encrypted(r).base + Encrypted(r).len =
                IF einit THEN IvLen + dgot + r ELSE IvLen + r
           /\ Encrypted(r).base = IF einit THEN IvLen + dgot ELSE 0
           /\ dgot + r \in Nat
BY SizesAssumption DEF TypeOK, Encrypted, Buffers

\* What connect_to_remote can have sent.
LEMMA ConnectResultsType ==
    ASSUME NEW len \in Nat, NEW c \in ConnectResults(len)
    PROVE  /\ c.s \in 0..len /\ c.s \in Nat /\ c.fo \in BOOLEAN
           /\ fast_open \/ (c.s = 0 /\ c.fo = FALSE)
<1>1. CASE c \in [s : 0..len, fo : {TRUE}] /\ fast_open
  <2>1. c.s \in 0..len /\ c.fo = TRUE
    BY <1>1, Zenon
  <2>2. c.s \in Nat
    BY <2>1
  <2>. QED  BY <1>1, <2>1, <2>2, Zenon
<1>2. CASE c = [s |-> 0, fo |-> FALSE]
  BY <1>2
<1>. QED  BY <1>1, <1>2, Zenon DEF ConnectResults

\* connect_to_remote and what its callers do with its result.
LEMMA ConnectedType ==
    ASSUME TypeOK, NEW l \in Lives, NEW b \in Buffers, NEW from \in Nat,
           NEW c \in ConnectResults(b.len), Connected(l, b, from, c)
    PROVE  /\ life' \in Lives /\ io' \subseteq Watchers /\ fast_open' \in BOOLEAN
           /\ up' \in Sinks /\ rbuf' \in Buffers /\ sbuf' \in Buffers
           /\ connected' \in BOOLEAN
<1>1. b.len \in Nat /\ b.base + b.idx \in Nat
  BY DEF Buffers
<1>2. c.s \in 0..b.len /\ c.fo \in BOOLEAN
  BY <1>1, ConnectResultsType, Zenon
<1>3. life' \in Lives /\ connected' \in BOOLEAN /\ fast_open' \in BOOLEAN
  BY <1>2, LivesType, Zenon DEF Connected
<1>4. io' \subseteq Watchers
  BY DEF Connected, AwaitWrite, TypeOK, Watchers, RemoteWatchers
<1>5. up' \in Sinks
  <2>1. up \in Sinks /\ c.s \in Nat /\ up' = Write(up, b.base + b.idx, c.s)
    BY <1>1, <1>2 DEF Connected, TypeOK
  <2>. QED  BY <1>1, <2>1, WriteType, Zenon
<1>6. rbuf' \in Buffers
  <2>1. b.len - c.s > 0 => [base |-> from, idx |-> 0, len |-> b.len - c.s] \in Buffers
    BY <1>1, <1>2 DEF Buffers
  <2>. QED  BY <2>1, EmptyType DEF Connected
<1>7. sbuf' \in Buffers
  <2>1. [b EXCEPT !.idx = 0, !.len = 0] \in Buffers
    BY Zenon DEF Buffers
  <2>. QED  BY <1>2, <2>1, ConsumeType DEF Connected
<1>. QED  BY <1>3, <1>4, <1>5, <1>6, <1>7

LEMMA TypeStep ==
    ASSUME Inv, Next
    PROVE  TypeOK'
<1> USE SizesAssumption, OptionsAssumption
<1>. TypeOK
  BY DEF Inv
<1>1. CASE accept_cb
  <2>1. io' \subseteq Watchers
    BY <1>1 DEF TypeOK, accept_cb, AcceptWatchers, Watchers, ServerWatchers
  <2>2. idle' \in 0..IDLE_TICKS /\ spurious' \in 0..MaxSpurious
    BY <1>1 DEF accept_cb
  <2>3. req' \in Requests
    BY <1>1, Zenon DEF accept_cb, Asked, Requests
  <2>. QED  BY <1>1, <2>1, <2>2, <2>3, LivesType, EmptyType, Zenon DEF TypeOK, accept_cb
<1>2. CASE ServerRecvIV
  BY <1>2 DEF TypeOK, ServerRecvIV, Buffers
<1>3. CASE ServerRecvBadCipher
  BY <1>3, CloseType DEF TypeOK, ServerRecvBadCipher, FirstBytes, bufs, Surviving
<1>4. CASE ServerRecvBadHeader
  BY <1>4, CloseType DEF TypeOK, ServerRecvBadHeader, FirstBytes, bufs
<1>5. CASE ServerRecvBadAuth
  BY <1>5, CloseType DEF TypeOK, ServerRecvBadAuth, FirstBytes, bufs
<1>8. CASE ServerRecvEnd
  BY <1>8, CloseType, LivesType DEF TypeOK, ServerRecvEnd, bufs, streams
<1>9. CASE ServerRecvAgain
  BY <1>9, LivesType DEF TypeOK, ServerRecvAgain, bufs, streams
<1>10. CASE ServerRecvRelayBadCipher
  BY <1>10, CloseType, LivesType DEF TypeOK, ServerRecvRelayBadCipher, RelayedBytes, bufs, Surviving
<1>11. CASE ServerRecvRelayBadHash
  BY <1>11, CloseType, LivesType DEF TypeOK, ServerRecvRelayBadHash, RelayedBytes, bufs
<1>13. CASE ServerRecvRelayError
  BY <1>13, CloseType, LivesType DEF TypeOK, ServerRecvRelayError, RelayedBytes, bufs
<1>14. CASE RemoteSendError
  BY <1>14, CloseType, LivesType, ZenonT(30) DEF TypeOK, RemoteSendError, bufs, streams
<1>15. CASE RemoteConnectedIdle
  BY <1>15, LivesType, Zenon DEF TypeOK, RemoteConnectedIdle, bufs, streams, Watchers, ServerWatchers,
     RemoteWatchers
<1>17. CASE RemoteRecvEnd
  BY <1>17, CloseType, LivesType DEF TypeOK, RemoteRecvEnd, bufs, streams
<1>18. CASE RemoteRecvAgain
  BY <1>18, LivesType DEF TypeOK, RemoteRecvAgain, bufs, streams
<1>20. CASE ServerSendError
  BY <1>20, CloseType, ZenonT(30) DEF TypeOK, ServerSendError, bufs, streams
<1>22. CASE Tick
  BY <1>22 DEF TypeOK, Tick, bufs, streams
<1>23. CASE server_timeout_cb
  BY <1>23, CloseType, Zenon DEF TypeOK, server_timeout_cb, bufs, streams, Surviving
<1>24. CASE FastOpenUnsupported
  BY <1>24, Zenon DEF TypeOK, FastOpenUnsupported, bufs, streams
<1>25. CASE Shutdown
  BY <1>25, CloseType, Zenon DEF TypeOK, Shutdown, bufs, streams, Surviving
<1>6. CASE ServerRecvConnect
  <2>1. got' \in Nat /\ got' - Preamble(req) \in 0..UpLen
    BY <1>6, PreambleType DEF TypeOK, ServerRecvConnect, Handshake, FirstBytes
  <2>2. FirstPayload \in Buffers
    BY <2>1, PayloadType DEF FirstPayload, Buffers, TypeOK
  <2>3. CASE \E c \in ConnectResults(FirstPayload.len) :
              Connected(life, FirstPayload, FirstPayload.base, c)
    BY <1>6, <2>1, <2>2, <2>3, ConnectedType DEF TypeOK, ServerRecvConnect, Handshake, FirstBytes,
       FirstPayload
  <2>4. CASE CloseServer(life) /\ UNCHANGED <<fast_open, stage, connected, bufs, up>>
    BY <1>6, <2>1, <2>4, CloseType DEF TypeOK, ServerRecvConnect, Handshake, FirstBytes, bufs
  <2>. QED  BY <1>6, <2>3, <2>4 DEF ServerRecvConnect
<1>7. CASE ServerRecvResolve
  <2>1. got' \in Nat /\ got' - Preamble(req) \in 0..UpLen
    BY <1>7, PreambleType DEF TypeOK, ServerRecvResolve, Handshake, FirstBytes
  <2>2. sbuf' \in Buffers
    BY <1>7, <2>1, PayloadType DEF FirstPayload, Buffers, TypeOK, ServerRecvResolve
  <2>3. life' \in Lives
    BY <1>7 DEF ServerRecvResolve, TypeOK, Lives
  <2>. QED  BY <1>7, <2>1, <2>2, <2>3 DEF TypeOK, ServerRecvResolve, Handshake, FirstBytes
<1>7a. CASE server_resolve_cb
  <2>1. answered(life) \in Lives /\ sbuf \in Buffers
    BY LivesType, Zenon DEF TypeOK
  <2>2. ASSUME NEW c \in ConnectResults(sbuf.len),
               Connected(answered(life), sbuf, sbuf.base + sbuf.idx + c.s, c)
        PROVE  TypeOK'
    <3>0. sbuf.len \in Nat /\ sbuf.base \in Nat /\ sbuf.idx \in Nat
      BY <2>1 DEF Buffers
    <3>a. c.s \in Nat
      BY <3>0, ConnectResultsType, Zenon
    <3>1. sbuf.base + sbuf.idx + c.s \in Nat
      BY <3>0, <3>a
    <3>. QED  BY <1>7a, <2>1, <2>2, <3>1, ConnectedType, Zenon DEF TypeOK, server_resolve_cb
  <2>3. CASE CloseServer(answered(life)) /\ UNCHANGED <<fast_open, connected, bufs, up>>
    BY <1>7a, <2>1, <2>3, CloseType, ZenonT(30) DEF TypeOK, server_resolve_cb, bufs
  <2>. QED  BY <1>7a, <2>2, <2>3, Zenon DEF server_resolve_cb
<1>12. CASE ServerRecvRelay
  <2>1. got' \in Nat /\ NextPayload \in Buffers /\ NextPayload.len \in Nat /\ NextPayload.base \in Nat
    BY <1>12, NextPayloadType, Zenon DEF ServerRecvRelay, Inv
  <2>2. life' \in Lives
    BY <1>12, LivesType, Zenon DEF ServerRecvRelay, TypeOK
  <2>3. CASE stage = 5
    <3>1. PICK s \in SendResults(NextPayload.len) :
                /\ up' = Write(up, NextPayload.base, Sent(s))
                /\ IF s = NextPayload.len
                   THEN rbuf' = NextPayload /\ UNCHANGED io
                   ELSE /\ rbuf' = Unsent(NextPayload, Sent(s))
                        /\ io' = AwaitWrite(io)
      BY <1>12, <2>3, Zenon DEF ServerRecvRelay
    <3>2. Sent(s) \in 0..NextPayload.len /\ Sent(s) \in Nat
      BY <2>1, SendType
    <3>3. up' \in Sinks
      BY <2>1, <3>1, <3>2, WriteType, Zenon DEF TypeOK
    <3>4. rbuf' \in Buffers
      BY <2>1, <3>1, <3>2, UnsentType, ZenonT(30)
    <3>5. io' \subseteq Watchers
      BY <3>1 DEF TypeOK, AwaitWrite, Watchers, RemoteWatchers
    <3>. QED  BY <1>12, <2>1, <2>2, <2>3, <3>3, <3>4, <3>5 DEF TypeOK, ServerRecvRelay, RelayedBytes
  <2>4. CASE stage # 5
    BY <1>12, <2>1, <2>2, <2>4 DEF TypeOK, ServerRecvRelay, RelayedBytes
  <2>. QED  BY <2>3, <2>4
<1>16. CASE RemoteSend
  <2>1. CASE rbuf.len = 0
    BY <1>16, <2>1, CloseType, LivesType DEF TypeOK, RemoteSend
  <2>2. CASE rbuf.len # 0
    <3>1. PICK s \in SendResults(rbuf.len) :
            /\ life' = use_server(life)
            /\ up' = Write(up, rbuf.base + rbuf.idx, Sent(s))
            /\ IF s = rbuf.len
               THEN /\ rbuf' = [rbuf EXCEPT !.idx = 0, !.len = 0]
                    /\ stage' = IF stage = 4 THEN 5 ELSE stage
                    /\ io' = ResumeRead(io)
               ELSE /\ rbuf' = Consume(rbuf, Sent(s))
                    /\ UNCHANGED <<stage, io>>
      BY <1>16, <2>2 DEF RemoteSend
    <3>2. rbuf \in Buffers /\ rbuf.len \in Nat /\ rbuf.base + rbuf.idx \in Nat
      BY DEF TypeOK, Buffers
    <3>3. Sent(s) \in 0..rbuf.len /\ Sent(s) \in Nat
      BY <3>2, SendType
    <3>4. rbuf' \in Buffers
      <4>1. [rbuf EXCEPT !.idx = 0, !.len = 0] \in Buffers
        BY <3>2, Zenon DEF Buffers
      <4>. QED  BY <3>1, <3>2, <3>3, <4>1, ConsumeType
    <3>5. up' \in Sinks
      BY <3>1, <3>2, <3>3, WriteType DEF TypeOK
    <3>6. stage' \in {0, 4, 5} /\ io' \subseteq Watchers
      BY <3>1 DEF TypeOK, ResumeRead, Watchers, ServerWatchers, RemoteWatchers
    <3>7. life' \in Lives
      BY <3>1, LivesType DEF TypeOK
    <3>. QED  BY <1>16, <3>4, <3>5, <3>6, <3>7 DEF TypeOK, RemoteSend
  <2>. QED  BY <2>1, <2>2
<1>19. CASE RemoteRecv
  <2>0. PICK r \in 1..BUF_SIZE :
            /\ dgot' = dgot + r
            /\ \E s \in SendResults(Encrypted(r).len) :
                /\ down' = Write(down, Encrypted(r).base, Sent(s))
                /\ IF s = Encrypted(r).len
                   THEN sbuf' = Encrypted(r) /\ UNCHANGED io
                   ELSE /\ sbuf' = Unsent(Encrypted(r), Sent(s))
                        /\ io' = AwaitClient(io)
    BY <1>19, Zenon DEF RemoteRecv
  <2>1. PICK s \in SendResults(Encrypted(r).len) :
            /\ down' = Write(down, Encrypted(r).base, Sent(s))
            /\ IF s = Encrypted(r).len
               THEN sbuf' = Encrypted(r) /\ UNCHANGED io
               ELSE /\ sbuf' = Unsent(Encrypted(r), Sent(s))
                    /\ io' = AwaitClient(io)
    BY <2>0, Zenon
  <2>2. /\ Encrypted(r) \in Buffers /\ Encrypted(r).len \in Nat /\ Encrypted(r).base \in Nat
        /\ dgot' \in Nat
    BY <2>0, EncryptedType, Zenon DEF TypeOK
  <2>3. Sent(s) \in 0..Encrypted(r).len /\ Sent(s) \in Nat
    BY <2>2, SendType, Zenon
  <2>4. down' \in Sinks
    BY <2>1, <2>2, <2>3, WriteType, Zenon DEF TypeOK
  <2>5. sbuf' \in Buffers
    BY <2>1, <2>2, <2>3, UnsentType, ZenonT(30)
  <2>6. io' \subseteq Watchers /\ life' \in Lives
    BY <1>19, <2>1, LivesType, Zenon DEF TypeOK, RemoteRecv, AwaitClient, Watchers, ServerWatchers
  <2>. QED  BY <1>19, <2>2, <2>4, <2>5, <2>6 DEF TypeOK, RemoteRecv
<1>21. CASE ServerSend
  <2>1. CASE sbuf.len = 0
    BY <1>21, <2>1, CloseType, LivesType, ZenonT(30) DEF TypeOK, ServerSend
  <2>2. CASE sbuf.len # 0
    <3>1. PICK s \in SendResults(sbuf.len) :
            /\ down' = Write(down, sbuf.base + sbuf.idx, Sent(s))
            /\ IF s = sbuf.len
               THEN /\ sbuf' = [sbuf EXCEPT !.idx = 0, !.len = 0]
                    /\ io' = (io \ {"srvSend"}) \cup {"remRecv"}
                    /\ life' = use_remote(life)
               ELSE /\ sbuf' = Consume(sbuf, Sent(s))
                    /\ UNCHANGED <<io, life>>
      BY <1>21, <2>2 DEF ServerSend
    <3>2. sbuf \in Buffers /\ sbuf.len \in Nat /\ sbuf.base + sbuf.idx \in Nat
      BY DEF TypeOK, Buffers
    <3>3. Sent(s) \in 0..sbuf.len /\ Sent(s) \in Nat
      BY <3>2, SendType
    <3>4. sbuf' \in Buffers
      <4>1. [sbuf EXCEPT !.idx = 0, !.len = 0] \in Buffers
        BY <3>2, Zenon DEF Buffers
      <4>. QED  BY <3>1, <3>2, <3>3, <4>1, ConsumeType
    <3>5. down' \in Sinks
      BY <3>1, <3>2, <3>3, WriteType DEF TypeOK
    <3>6. io' \subseteq Watchers /\ life' \in Lives
      BY <3>1, LivesType DEF TypeOK, Watchers, RemoteWatchers
    <3>. QED  BY <1>21, <3>4, <3>5, <3>6, Zenon DEF TypeOK, ServerSend
  <2>. QED  BY <2>1, <2>2
<1>. QED
  BY <1>1, <1>2, <1>3, <1>4, <1>5, <1>6, <1>7, <1>7a, <1>8, <1>9, <1>10, <1>11, <1>12, <1>13, Zenon,
     <1>14, <1>15, <1>16, <1>17, <1>18, <1>19, <1>20, <1>21, <1>22, <1>23, <1>24, <1>25
     DEF Next, Callback, server_recv_cb, remote_send_cb, remote_recv_cb, server_send_cb

-----------------------------------------------------------------------------
(* Control.                                                                *)

\* The objects behind an active watcher exist.
LEMMA WatcherObjects ==
    ASSUME Inv
    PROVE  /\ io # {} => Live
           /\ "remSend" \in io \/ "remRecv" \in io => life.remote = "live"
           /\ "srvSend" \in io => life.remote = "live" /\ stage = 5
           /\ "remRecv" \in io => stage = 5
           /\ "srvRecv" \in io /\ stage # 0 => life.remote = "live" /\ stage = 5
           /\ life.toRemote <=> life.remote = "live"
           /\ life.toServer <=> life.remote = "live"
           /\ life.remote = "live" => Live /\ life.query = "null"
BY Zenon DEF Inv, TypeOK, Control, WatchersLive, Lifetimes, AnswerExpected, Armed, Live,
       ServerWatchers, RemoteWatchers

\* A connection whose remote_t was just made waits for it to be writable.
LEMMA ConnectedControl ==
    ASSUME Inv, NEW l, l = life \/ l = answered(life), Live, life.remote = "none",
           l.query = "null", "srvSend" \notin io, proc' = proc, stage' = 4,
           NEW b, NEW from, NEW c, Connected(l, b, from, c)
    PROVE  Control' /\ life'.remote = "live" /\ life'.server = "live"
<1>1. l \in Lives /\ l.server = "live" /\ ~l.uaf
  BY DEF Inv, TypeOK, Control, Lifetimes, Live, Lives, answered
<1>2. /\ life'.server = "live" /\ life'.remote = "live" /\ life'.toRemote /\ life'.toServer
      /\ ~life'.uaf /\ life'.query = "null"
  BY <1>1 DEF Connected, link_remote, Lives
<1>3. io \subseteq ServerWatchers /\ "timer" \in io
  BY Zenon DEF Inv, Control, WatchersLive, Armed, Live
<1>4. io' = {"timer", "remSend"} /\ ~connected'
  BY <1>3 DEF Connected, AwaitWrite, ServerWatchers
<1>. QED
  BY <1>2, <1>4 DEF Inv, Control, Lifetimes, WatchersLive, NoFatal, AnswerExpected, Armed, Live,
     ServerWatchers, RemoteWatchers

\* The step releases the connection and writes to neither peer.
Closes == Closed' /\ proc' # "fatal" /\ UNCHANGED <<up, down, fast_open, req>>

\* server_recv_cb, server_resolve_cb: a remote_t is made.
ConnectAddress ==
    /\ ServerRecvConnect
    /\ \E c \in ConnectResults(FirstPayload.len) :
          Connected(life, FirstPayload, FirstPayload.base, c)
    /\ stage' = 4
ConnectName ==
    /\ server_resolve_cb
    /\ \E c \in ConnectResults(sbuf.len) :
          Connected(answered(life), sbuf, sbuf.base + sbuf.idx + c.s, c)

\* The steps that keep the connection, or find none.
Keeps ==
    \/ accept_cb \/ ServerRecvIV \/ ConnectAddress \/ ServerRecvResolve \/ ConnectName
    \/ ServerRecvAgain \/ ServerRecvRelay \/ RemoteConnectedIdle
    \/ RemoteSend /\ rbuf.len > 0
    \/ RemoteRecvAgain \/ RemoteRecv
    \/ ServerSend /\ sbuf.len > 0
    \/ Tick \/ FastOpenUnsupported
    \/ Shutdown /\ ~Live

\* Every other step releases it.
LEMMA StepKinds ==
    ASSUME Inv, Next
    PROVE  Closes \/ Keeps
<1>. TypeOK /\ Control /\ Received /\ proc # "fatal"
  BY Zenon DEF Inv, Control, NoFatal
<1>1. CASE ServerRecvBadCipher
  <2>1. Live /\ life.remote = "none" /\ proc' # "fatal"
    BY <1>1, WatcherObjects, Zenon DEF ServerRecvBadCipher, FirstBytes, Surviving, Control
  <2>. QED  BY <1>1, <2>1, CloseServerCloses, Zenon DEF ServerRecvBadCipher, Closes
<1>2. CASE ServerRecvBadHeader
  <2>1. Live /\ life.remote = "none" /\ proc' # "fatal"
    BY <1>2, WatcherObjects, Zenon DEF ServerRecvBadHeader, FirstBytes, Control
  <2>. QED  BY <1>2, <2>1, CloseServerCloses, Zenon DEF ServerRecvBadHeader, Closes
<1>3. CASE ServerRecvBadAuth
  <2>1. Live /\ life.remote = "none" /\ proc' # "fatal"
    BY <1>3, WatcherObjects, Zenon DEF ServerRecvBadAuth, FirstBytes, Control
  <2>. QED  BY <1>3, <2>1, CloseServerCloses DEF ServerRecvBadAuth, Closes
<1>4. CASE ServerRecvEnd
  <2>1. Live /\ use_buf(life) = life /\ proc' # "fatal"
    BY <1>4, WatcherObjects, UseLive DEF ServerRecvEnd, use_buf
  <2>. QED  BY <1>4, <2>1, CloseBothCloses, Zenon DEF ServerRecvEnd, Closes, streams
<1>5. CASE ServerRecvRelayBadCipher
  <2>1. Live /\ use_remote(life) = life /\ proc' # "fatal"
    BY <1>5, WatcherObjects, UseLive DEF ServerRecvRelayBadCipher, RelayedBytes, Surviving
  <2>. QED  BY <1>5, <2>1, CloseBothCloses, Zenon DEF ServerRecvRelayBadCipher, Closes
<1>6. CASE ServerRecvRelayBadHash
  <2>1. Live /\ use_remote(life) = life /\ proc' # "fatal"
    BY <1>6, WatcherObjects, UseLive, Zenon DEF ServerRecvRelayBadHash, RelayedBytes
  <2>. QED  BY <1>6, <2>1, CloseServerFirstCloses DEF ServerRecvRelayBadHash, Closes
<1>7. CASE ServerRecvRelayError
  <2>1. Live /\ use_remote(life) = life /\ proc' # "fatal"
    BY <1>7, WatcherObjects, UseLive, Zenon DEF ServerRecvRelayError, RelayedBytes
  <2>. QED  BY <1>7, <2>1, CloseBothCloses DEF ServerRecvRelayError, Closes
<1>8. CASE RemoteSendError
  <2>1. Live /\ life.toServer /\ use_server(life) = life /\ proc' # "fatal"
    BY <1>8, WatcherObjects, UseLive DEF RemoteSendError
  <2>. QED  BY <1>8, <2>1, CloseBothCloses, Zenon DEF RemoteSendError, Closes, streams
<1>9. CASE RemoteRecvEnd
  <2>1. Live /\ life.toServer /\ use_server(life) = life /\ proc' # "fatal"
    BY <1>9, WatcherObjects, UseLive DEF RemoteRecvEnd
  <2>. QED  BY <1>9, <2>1, CloseBothCloses, Zenon DEF RemoteRecvEnd, Closes, streams
<1>10. CASE ServerSendError
  <2>1. Live /\ proc' # "fatal"
    BY <1>10, WatcherObjects, Zenon DEF ServerSendError
  <2>. QED  BY <1>10, <2>1, CloseBothCloses DEF ServerSendError, Closes, streams
<1>11. CASE server_timeout_cb
  <2>1. Live /\ proc' # "fatal"
    BY <1>11, WatcherObjects DEF server_timeout_cb, Surviving
  <2>. QED  BY <1>11, <2>1, CloseBothCloses, Zenon DEF server_timeout_cb, Closes, streams
<1>12. CASE ServerRecvConnect
  <2>1. Live /\ life.remote = "none" /\ proc' # "fatal"
    BY <1>12, WatcherObjects, Zenon DEF ServerRecvConnect, Handshake, FirstBytes, Control
  <2>2. CASE CloseServer(life) /\ UNCHANGED <<fast_open, stage, connected, bufs, up>>
    BY <1>12, <2>1, <2>2, CloseServerCloses DEF ServerRecvConnect, Closes
  <2>. QED  BY <1>12, <2>2, Zenon DEF ServerRecvConnect, ConnectAddress, Keeps
<1>13. CASE server_resolve_cb
  <2>1. Live /\ life.remote = "none" /\ proc' # "fatal"
    BY <1>13, Zenon DEF server_resolve_cb, Control, AnswerExpected, Lifetimes, Live
  <2>2. CASE CloseServer(answered(life)) /\ UNCHANGED <<fast_open, connected, bufs, up>>
    BY <1>13, <2>1, <2>2, CloseServerCloses DEF server_resolve_cb, Closes
  <2>. QED  BY <1>13, <2>2, Zenon DEF server_resolve_cb, ConnectName, Keeps
<1>14. CASE RemoteSend
  BY <1>14, Zenon DEF RemoteSend, Control, Keeps
<1>15. CASE ServerSend
  BY <1>15, Zenon DEF ServerSend, Control, Keeps
<1>16. CASE Shutdown
  <2>1. CASE Live
    BY <1>16, <2>1, CloseServerFirstCloses, Zenon DEF Shutdown, Surviving, Live, Closes, streams
  <2>. QED  BY <1>16, <2>1 DEF Keeps
<1>. QED
  BY <1>1, <1>2, <1>3, <1>4, <1>5, <1>6, <1>7, <1>8, Zenon,
     <1>9, <1>10, <1>11, <1>12, <1>13, <1>14, <1>15, <1>16
     DEF Next, Callback, server_recv_cb, remote_send_cb, remote_recv_cb, server_send_cb, Keeps

LEMMA ControlStep ==
    ASSUME Inv, Closes \/ Keeps
    PROVE  Control' /\ Received'
<1>. TypeOK /\ Control /\ Received /\ proc # "fatal"
  BY Zenon DEF Inv, Control, NoFatal
<1>0. CASE Closes
  BY <1>0, ClosedControl DEF Closes
<1>1. CASE accept_cb
  <2>1. io = {}
    BY <1>1, Zenon DEF accept_cb, Control, WatchersLive, Lifetimes, Armed
  <2>2. io' = {"srvRecv", "timer"}
    BY <1>1, <2>1, Zenon DEF accept_cb, AcceptWatchers
  <2>3. /\ life'.server = "live" /\ life'.remote = "none" /\ ~life'.toRemote /\ ~life'.toServer
        /\ life'.query = "null" /\ ~life'.uaf
    BY <1>1 DEF accept_cb, new_server, NoLife, Control, Lifetimes, TypeOK, Lives
  <2>4. got' = sbuf'.len /\ got' <= IvLen
    BY <1>1, SizesAssumption DEF accept_cb, Empty
  <2>. QED
    BY <1>1, <2>2, <2>3, <2>4 DEF accept_cb, Control, Received, Lifetimes, WatchersLive, NoFatal,
       AnswerExpected, Armed, Live, ServerWatchers
<1>2. CASE ServerRecvIV
  <2>1. PICK n \in 1..(BUF_SIZE - sbuf.len) :
            sbuf.len + n <= IvLen /\ got' = got + n /\ sbuf' = [sbuf EXCEPT !.len = @ + n]
    BY <1>2 DEF ServerRecvIV
  <2>2. sbuf'.len = sbuf.len + n /\ sbuf.len \in Nat
    BY <2>1 DEF TypeOK, Buffers
  <2>3. Live /\ "srvSend" \notin io
    BY <1>2, WatcherObjects DEF ServerRecvIV
  <2>4. Received'
    BY <1>2, <2>1, <2>2, <2>3 DEF ServerRecvIV, Received, Live
  <2>. QED
    BY <1>2, <2>3, <2>4 DEF ServerRecvIV, Control, Lifetimes, WatchersLive, NoFatal, AnswerExpected,
       Armed, Live
<1>6. CASE ConnectAddress
  <2>1. /\ Live /\ life.remote = "none" /\ life.query = "null" /\ "srvSend" \notin io
        /\ proc' = proc /\ req' = req
    BY <1>6, WatcherObjects, Zenon DEF ConnectAddress, ServerRecvConnect, Handshake, FirstBytes, Control, AnswerExpected
  <2>2. got' - Preamble(req) \in 0..UpLen
    BY <1>6, PreambleType, SizesAssumption DEF TypeOK, ConnectAddress, ServerRecvConnect, Handshake, FirstBytes
  <2>3. Control'
    BY <1>6, <2>1, ConnectedControl, Zenon DEF ConnectAddress
  <2>4. Received'
    BY <1>6, <2>1, <2>2 DEF ConnectAddress, Received, Preamble, Header, Auth
  <2>. QED  BY <2>3, <2>4
<1>7. CASE ServerRecvResolve
  <2>1. /\ Live /\ life.remote = "none" /\ "srvSend" \notin io /\ proc' = proc /\ req' = req
        /\ io' = io \ {"srvRecv"} /\ stage' = 4
    BY <1>7, WatcherObjects DEF ServerRecvResolve, Handshake, FirstBytes, Control
  <2>2. got' - Preamble(req) \in 0..UpLen
    BY <1>7, PreambleType, SizesAssumption DEF TypeOK, ServerRecvResolve, Handshake, FirstBytes
  <2>3. io \subseteq ServerWatchers /\ "timer" \in io
    BY <2>1, Zenon DEF Control, WatchersLive, Armed, Live
  <2>4. io' = {"timer"}
    BY <2>1, <2>3, Zenon DEF ServerWatchers
  <2>5. /\ life'.server = "live" /\ life'.remote = "none" /\ ~life'.toRemote /\ ~life'.toServer
        /\ life'.query # "null" /\ ~life'.uaf
    BY <1>7, <2>1 DEF ServerRecvResolve, Control, Lifetimes, TypeOK, Lives, Live
  <2>6. Received'
    BY <2>1, <2>2 DEF Received, Preamble, Header, Auth
  <2>. QED
    BY <2>1, <2>4, <2>5, <2>6 DEF Control, Lifetimes, WatchersLive, NoFatal, AnswerExpected, Armed,
       Live, ServerWatchers
<1>7a. CASE ConnectName
  <2>1. /\ Live /\ life.remote = "none" /\ "srvSend" \notin io /\ stage = 4
        /\ proc' = proc /\ stage' = stage /\ req' = req /\ got' = got
    BY <1>7a, Zenon DEF ConnectName, server_resolve_cb, Control, AnswerExpected, Lifetimes, Live
  <2>2. answered(life).query = "null"
    BY DEF TypeOK, Lives, answered
  <2>3. Control'
    BY <1>7a, <2>1, <2>2, ConnectedControl, Zenon DEF ConnectName
  <2>4. Received'
    BY <2>1 DEF Received, Preamble, Header, Auth, Live
  <2>. QED  BY <2>3, <2>4
<1>9. CASE ServerRecvAgain
  <2>1. use_buf(life) = life
    BY <1>9, WatcherObjects, UseLive DEF ServerRecvAgain, use_buf
  <2>. QED  BY <1>9, <2>1, Zenon DEF ServerRecvAgain, Live, Control, Received, Lifetimes, WatchersLive,
       NoFatal, AnswerExpected, Armed, bufs, streams
<1>12. CASE ServerRecvRelay
  <2>1. stage = 5 /\ use_remote(life) = life /\ "remSend" \notin io
    BY <1>12, WatcherObjects, UseLive, Zenon DEF ServerRecvRelay, RelayedBytes, Control
  <2>2. PICK s \in SendResults(NextPayload.len) :
            IF s = NextPayload.len
            THEN rbuf' = NextPayload /\ UNCHANGED io
            ELSE rbuf' = Unsent(NextPayload, Sent(s)) /\ io' = AwaitWrite(io)
    BY <1>12, <2>1, Zenon DEF ServerRecvRelay
  <2>3. got' - Preamble(req) \in 0..UpLen /\ NextPayload \in Buffers /\ NextPayload.len \in Nat
    BY <1>12, NextPayloadType, Zenon DEF ServerRecvRelay
  <2>4. s # NextPayload.len => rbuf'.len > 0
    <3>1. s # NextPayload.len => Sent(s) < NextPayload.len /\ Sent(s) \in 0..NextPayload.len
      BY <2>3, SendType
    <3>. QED  BY <2>2, <2>3, <3>1, UnsentType
  <2>5. /\ life' = life /\ proc' = proc /\ stage' = stage /\ connected' = connected
        /\ sbuf' = sbuf /\ req' = req
    BY <1>12, <2>1, Zenon DEF ServerRecvRelay
  <2>6. Received'
    BY <2>1, <2>3, <2>5 DEF Received, Preamble, Header, Auth
  <2>7. Live /\ life.remote = "live" /\ "srvRecv" \in io
    BY <1>12, <2>1, WatcherObjects, Zenon DEF ServerRecvRelay, RelayedBytes
  <2>8. CASE s = NextPayload.len
    BY <2>1, <2>2, <2>5, <2>6, <2>7, <2>8, Zenon DEF Control, Lifetimes, WatchersLive, NoFatal,
       AnswerExpected, Armed, Live
  <2>9. CASE s # NextPayload.len
    <3>1. io' = (io \ {"srvRecv"}) \cup {"remSend"} /\ rbuf'.len > 0
      BY <2>2, <2>4, <2>9, Zenon DEF AwaitWrite
    <3>. QED
      BY <2>1, <2>5, <2>6, <2>7, <3>1, Zenon DEF Control, Lifetimes, WatchersLive, NoFatal,
         AnswerExpected, Armed, Live, ServerWatchers, RemoteWatchers
  <2>. QED  BY <2>8, <2>9
<1>15. CASE RemoteConnectedIdle
  <2>1. Live /\ life.remote = "live" /\ life.query = "null" /\ life' = life
    BY <1>15, WatcherObjects, UseLive, Zenon DEF RemoteConnectedIdle
  <2>2. stage = 4 /\ io \cap {"srvRecv", "remRecv", "srvSend"} = {}
    BY <1>15, <2>1, Zenon DEF RemoteConnectedIdle, Control, TypeOK
  <2>3. Received'
    BY <1>15, <2>1, <2>2 DEF RemoteConnectedIdle, Received, Live, Preamble, Header, Auth, streams
  <2>. QED
    BY <1>15, <2>1, <2>2, <2>3 DEF RemoteConnectedIdle, Control, Lifetimes, WatchersLive, NoFatal,
       AnswerExpected, Armed, Live, ServerWatchers, RemoteWatchers, bufs
<1>16. CASE RemoteSend /\ rbuf.len > 0
  <2>1. /\ Live /\ life.remote = "live" /\ life.query = "null" /\ use_server(life) = life
        /\ "remSend" \in io /\ connected' /\ proc' = proc /\ req' = req /\ got' = got /\ sbuf' = sbuf
    BY <1>16, WatcherObjects, UseLive DEF RemoteSend
  <2>2. stage \in {4, 5} /\ "srvRecv" \notin io
    BY <2>1, Zenon DEF Control, TypeOK
  <2>3. PICK s \in SendResults(rbuf.len) :
          /\ life' = life
          /\ IF s = rbuf.len
             THEN /\ stage' = IF stage = 4 THEN 5 ELSE stage
                  /\ io' = ResumeRead(io)
             ELSE /\ rbuf' = Consume(rbuf, Sent(s))
                  /\ UNCHANGED <<stage, io>>
    BY <1>16, <2>1 DEF RemoteSend
  <2>4. stage' # 0 /\ Received'
    BY <2>1, <2>2, <2>3 DEF Received, Live, Preamble, Header, Auth
  <2>5. CASE s = rbuf.len
    <3>1. stage' = 5 /\ "remSend" \notin io' /\ "srvRecv" \in io'
      BY <2>2, <2>3, <2>5 DEF ResumeRead
    <3>2. "remRecv" \in io' <=> "srvSend" \notin io'
      BY <2>1, <2>2, <2>3, <2>5 DEF ResumeRead, Control
    <3>3. io' \subseteq Armed(life') /\ "timer" \in io' /\ ("srvSend" \in io' => "srvSend" \in io)
      BY <2>1, <2>2, <2>3, <2>5, ZenonT(30) DEF ResumeRead, Control, WatchersLive, Armed, Live,
         ServerWatchers, RemoteWatchers
    <3>. QED
      BY <2>1, <2>3, <2>4, <3>1, <3>2, <3>3, Zenon DEF Control, Lifetimes, WatchersLive, NoFatal,
         AnswerExpected, Live
  <2>6. CASE s # rbuf.len
    <3>1. rbuf \in Buffers /\ rbuf.len \in Nat
      BY Zenon DEF TypeOK, Buffers
    <3>2. Sent(s) \in 0..rbuf.len /\ Sent(s) < rbuf.len
      BY <2>6, <3>1, SendType, Zenon
    <3>3. rbuf'.len > 0
      BY <2>3, <2>6, <3>1, <3>2, ConsumeType
    <3>. QED
      BY <2>1, <2>3, <2>4, <2>6, <3>3, Zenon DEF Control, Lifetimes, WatchersLive, NoFatal,
         AnswerExpected, Live, Armed
  <2>. QED  BY <2>5, <2>6
<1>18. CASE RemoteRecvAgain
  <2>1. use_server(life) = life
    BY <1>18, WatcherObjects, UseLive, Zenon DEF RemoteRecvAgain
  <2>. QED  BY <1>18, <2>1, Zenon DEF RemoteRecvAgain, Live, Control, Received, Lifetimes, WatchersLive,
       NoFatal, AnswerExpected, Armed, bufs, streams
<1>19. CASE RemoteRecv
  <2>1. /\ Live /\ life.remote = "live" /\ stage = 5 /\ life' = life /\ "remRecv" \in io
        /\ proc' = proc /\ stage' = stage /\ connected' = connected /\ rbuf' = rbuf
        /\ req' = req /\ got' = got
    BY <1>19, WatcherObjects, UseLive, Zenon DEF RemoteRecv
  <2>2. PICK r \in 1..BUF_SIZE :
            \E s \in SendResults(Encrypted(r).len) :
                IF s = Encrypted(r).len
                THEN sbuf' = Encrypted(r) /\ UNCHANGED io
                ELSE sbuf' = Unsent(Encrypted(r), Sent(s)) /\ io' = AwaitClient(io)
    BY <1>19, Zenon DEF RemoteRecv
  <2>3. PICK s \in SendResults(Encrypted(r).len) :
            IF s = Encrypted(r).len
            THEN sbuf' = Encrypted(r) /\ UNCHANGED io
            ELSE sbuf' = Unsent(Encrypted(r), Sent(s)) /\ io' = AwaitClient(io)
    BY <2>2, Zenon
  <2>4. Encrypted(r) \in Buffers /\ Encrypted(r).len \in Nat
    BY EncryptedType, Zenon
  <2>5. Received'
    BY <2>1 DEF Received, Live, Preamble, Header, Auth
  <2>6. CASE s = Encrypted(r).len
    BY <2>1, <2>3, <2>5, <2>6, Zenon DEF Control, Lifetimes, WatchersLive, NoFatal, AnswerExpected, Live,
       Armed
  <2>7. CASE s # Encrypted(r).len
    <3>1. Sent(s) \in 0..Encrypted(r).len /\ Sent(s) < Encrypted(r).len
      BY <2>4, <2>7, SendType, Zenon
    <3>2. sbuf'.len > 0
      BY <2>3, <2>4, <2>7, <3>1, UnsentType
    <3>3. io' = (io \ {"remRecv"}) \cup {"srvSend"}
      BY <2>3, <2>7, Zenon DEF AwaitClient
    <3>. QED
      BY <2>1, <2>5, <3>2, <3>3, Zenon DEF Control, Lifetimes, WatchersLive, NoFatal, AnswerExpected,
         Live, Armed, ServerWatchers, RemoteWatchers
  <2>. QED  BY <2>6, <2>7
<1>21. CASE ServerSend /\ sbuf.len > 0
  <2>1. /\ Live /\ life.remote = "live" /\ stage = 5 /\ use_remote(life) = life /\ "srvSend" \in io
        /\ proc' = proc /\ stage' = stage /\ connected' = connected /\ rbuf' = rbuf
        /\ req' = req /\ got' = got /\ sbuf.len > 0
    BY <1>21, WatcherObjects, UseLive DEF ServerSend, Control
  <2>2. sbuf \in Buffers /\ sbuf.len \in Nat
    BY Zenon DEF TypeOK, Buffers
  <2>3. PICK s \in SendResults(sbuf.len) :
            IF s = sbuf.len
            THEN io' = (io \ {"srvSend"}) \cup {"remRecv"} /\ life' = life
            ELSE sbuf' = Consume(sbuf, Sent(s)) /\ UNCHANGED <<io, life>>
    BY <1>21, <2>1, <2>2 DEF ServerSend
  <2>4. s # sbuf.len => sbuf'.len > 0
    <3>1. s # sbuf.len => Sent(s) \in 0..sbuf.len /\ Sent(s) < sbuf.len
      BY <2>2, SendType
    <3>. QED  BY <2>2, <2>3, <3>1, ConsumeType
  <2>5. life' = life
    BY <2>3, Zenon
  <2>6. Received'
    BY <2>1, <2>5 DEF Received, Live, Preamble, Header, Auth
  <2>. QED
    BY <2>1, <2>3, <2>4, <2>5, <2>6, ZenonT(30) DEF Control, Lifetimes, WatchersLive, NoFatal, AnswerExpected,
       Live, Armed, ServerWatchers, RemoteWatchers
<1>22. CASE Tick
  BY <1>22, Zenon DEF Tick, Live, Control, Received, Lifetimes, WatchersLive,
       NoFatal, AnswerExpected, Armed, bufs, streams
<1>24. CASE FastOpenUnsupported
  BY <1>24, Zenon DEF FastOpenUnsupported, Live, Control, Received, Lifetimes, WatchersLive,
       NoFatal, AnswerExpected, Armed, bufs, streams
<1>25. CASE Shutdown /\ ~Live
  BY <1>25, Zenon DEF Shutdown, Surviving, Live, Control, Received, Lifetimes, WatchersLive, NoFatal,
     AnswerExpected, Armed, bufs, streams
<1>. QED
  BY <1>0, <1>1, <1>2, <1>6, <1>7, <1>7a, <1>9, <1>12, <1>15, <1>16, <1>18, <1>19, <1>21, <1>22, Zenon,
     <1>24, <1>25 DEF Keeps

-----------------------------------------------------------------------------
(* The theorems.                                                           *)

LEMMA InitInv == Init => Inv
<1>1. ASSUME Init PROVE TypeOK
  <2>1. NoLife \in Lives
    BY Zenon DEF NoLife, Lives
  <2>2. 0 \in 0..IDLE_TICKS /\ 0 \in 0..MaxSpurious
    BY SizesAssumption
  <2>3. /\ listed \in BOOLEAN /\ fast_open \in BOOLEAN /\ connected \in BOOLEAN
        /\ einit \in BOOLEAN
    BY <1>1, OptionsAssumption, Zenon DEF Init
  <2>4. /\ got \in Nat /\ dgot \in Nat /\ stage \in {0, 4, 5} /\ io \subseteq Watchers
        /\ proc \in {"running", "stopped", "fatal", "aborted"}
    BY <1>1, Zenon DEF Init
  <2>5. req \in Requests
    BY <1>1, OptionsAssumption, Zenon DEF Init, Asked, Requests
  <2>. QED  BY <1>1, <2>1, <2>2, <2>3, <2>4, <2>5, EmptyType, Zenon DEF Init, TypeOK
<1>2. ASSUME Init
      PROVE  /\ life.server = "none" /\ life.remote = "none" /\ life.query = "null"
             /\ ~life.toRemote /\ ~life.toServer /\ ~life.uaf /\ io = {} /\ proc = "running"
  BY <1>2, Zenon DEF Init, NoLife
<1>3. ASSUME Init PROVE Control /\ Received
  BY <1>2, <1>3, Zenon DEF Control, Received, Lifetimes, WatchersLive, NoFatal, AnswerExpected, Armed, Live
<1>. QED  BY <1>1, <1>3 DEF Inv

LEMMA StepInv == Inv /\ [Next]_vars => Inv'
<1>1. ASSUME Inv, Next PROVE Inv'
  BY <1>1, TypeStep, StepKinds, ControlStep DEF Inv
<1>2. ASSUME Inv, UNCHANGED vars PROVE Inv'
  BY <1>2 DEF Inv, TypeOK, Control, Received, Lifetimes, WatchersLive, NoFatal, AnswerExpected,
     Armed, Live, vars, Preamble, Header, Auth
<1>. QED  BY <1>1, <1>2

THEOREM Invariance == Spec => []Inv
BY InitInv, StepInv, PTL DEF Spec

\* For every configuration, TcpServer keeps its types ...
THEOREM TypeCorrect == Spec => []TypeOK
BY Invariance, PTL DEF Inv

\* ... never uses a freed object and never leaves one behind the other, never has
\* an active watcher on a freed object nor a live connection without its idle
\* timer, never reaches FATAL("server context error"), makes at most one remote_t
\* for a connection (close_and_free_remote, close_and_free_server,
\* server_resolve_cb) ...
THEOREM ObjectsSoundHolds == Spec => []ObjectsSound
<1>1. Inv => ObjectsSound
  BY DEF Inv, Control, ObjectsSound
<1>. QED  BY <1>1, Invariance, PTL

\* ... and never stops waiting for one thing in each direction.
THEOREM NoStallHolds == Spec => []NoStall
<1>1. Inv => NoStall
  BY Zenon DEF Inv, TypeOK, Control, AnswerExpected, Live, NoStall
<1>. QED  BY <1>1, Invariance, PTL

-----------------------------------------------------------------------------
(* Client to destination.  server_recv_cb handles the rest of a payload    *)
(* that was sent only in part with the SYN less carefully than             *)
(* server_resolve_cb, so the two must not meet.                            *)

CarefulCopy == "ip" \notin FastOpenKinds

\* Steps that neither read the client nor write to the destination.
LEMMA UpstreamSame ==
    ASSUME Upstream, fast_open' => fast_open,
           up' = up, life' = life, req' = req, got' = got, rbuf' = rbuf, stage' = stage,
           "remSend" \in io' <=> "remSend" \in io,
           life.query # "null" => sbuf' = sbuf
    PROVE  Upstream'
BY Zenon DEF Upstream, Live, Waiting, Payload, Preamble, Header, Auth

\* A remote_t is made, and the rest of b is moved from where the SYN stopped.
LEMMA UpstreamConnected ==
    ASSUME Upstream, up \in Sinks, up.n = 0, stage' = 4,
           NEW l \in Lives, l.query = "null",
           NEW b \in Buffers, b.base + b.idx = 0,
           NEW c \in ConnectResults(b.len), Connected(l, b, c.s, c),
           req' = req, b.len = Payload(req, got' - Preamble(req))
    PROVE  Upstream'
<1>1. b.len \in Nat
  BY Zenon DEF Buffers
<1>2. c.s \in 0..b.len /\ c.s \in Nat /\ (fast_open \/ c.fo = FALSE)
  BY <1>1, ConnectResultsType, Zenon
<1>3. up'.n = c.s /\ up'.good
  <2>1. up' = Write(up, 0, c.s) /\ up.good
    BY DEF Connected, Upstream
  <2>. QED  BY <1>2, <2>1, WriteType DEF Sinks
<1>4. /\ rbuf'.len = b.len - c.s
      /\ rbuf'.len > 0 => rbuf'.base + rbuf'.idx = c.s
  BY <1>1, <1>2 DEF Connected, Empty
<1>5. "remSend" \in io'
  BY DEF Connected, AwaitWrite
<1>6. life'.query = "null"
  BY DEF Connected, link_remote, Lives
<1>7. fast_open' => req'.kind \in FastOpenKinds
  BY <1>2 DEF Connected, Upstream
<1>8. Payload(req, got - Preamble(req))' = b.len
  BY Zenon DEF Payload, Preamble, Header, Auth
<1>9. up'.n + Waiting("remSend", rbuf)' = b.len
  BY <1>1, <1>2, <1>3, <1>4, <1>5 DEF Waiting
<1>. QED  BY <1>3, <1>4, <1>5, <1>6, <1>7, <1>8, <1>9 DEF Upstream

LEMMA UpstreamStep ==
    ASSUME CarefulCopy, Inv, Upstream, Closes \/ Keeps
    PROVE  Upstream'
<1>. TypeOK /\ Control /\ Received
  BY DEF Inv
<1>a. up \in Sinks /\ up.n \in Nat /\ rbuf \in Buffers /\ rbuf.len \in Nat /\ sbuf \in Buffers
      /\ sbuf.len \in Nat /\ sbuf.base \in Nat /\ sbuf.idx \in Nat /\ rbuf.base \in Nat /\ rbuf.idx \in Nat
  BY Zenon DEF TypeOK, Sinks, Buffers
<1>0. CASE Closes
  BY <1>0, Zenon DEF Closes, Closed, Upstream, Live
<1>1. CASE accept_cb
  <2>1. io' = {"srvRecv", "timer"}
    <3>1. io = {}
      BY <1>1, Zenon DEF accept_cb, Control, WatchersLive, Lifetimes, Armed
    <3>. QED  BY <1>1, <3>1, Zenon DEF accept_cb, AcceptWatchers
  <2>2. life'.remote = "none" /\ life'.query = "null"
    BY <1>1 DEF accept_cb, new_server, NoLife
  <2>3. up'.good /\ up'.n = 0
    BY <1>1, Zenon DEF accept_cb, NoBytes
  <2>4. fast_open' => req'.kind \in FastOpenKinds
    BY <1>1 DEF accept_cb, Asked
  <2>. QED  BY <1>1, <2>1, <2>2, <2>3, <2>4, Zenon DEF accept_cb, Upstream
<1>2. CASE ServerRecvIV
  <2>1. life.remote = "none" /\ "remSend" \notin io /\ life.query = "null"
    BY <1>2, WatcherObjects DEF ServerRecvIV, Control, AnswerExpected
  <2>. QED  BY <1>2, <2>1 DEF ServerRecvIV, Upstream, Live
<1>6. CASE ConnectAddress
  <2>1. PICK c \in ConnectResults(FirstPayload.len) :
            Connected(life, FirstPayload, FirstPayload.base, c)
    BY <1>6, Zenon DEF ConnectAddress
  <2>2. /\ Live /\ stage = 0 /\ up.n = 0 /\ life.query = "null" /\ life \in Lives
        /\ stage' = 4 /\ req' = req
    BY <1>6, WatcherObjects, Zenon DEF ConnectAddress, ServerRecvConnect, Handshake, FirstBytes, Control,
       AnswerExpected, Upstream, TypeOK
  <2>3. got' - Preamble(req) \in 0..UpLen
    BY <1>6, PreambleType, SizesAssumption DEF TypeOK, ConnectAddress, ServerRecvConnect, Handshake,
       FirstBytes
  <2>4. /\ FirstPayload \in Buffers /\ FirstPayload.len \in Nat /\ FirstPayload.base = 0
        /\ FirstPayload.base + FirstPayload.idx = 0
        /\ FirstPayload.len = Payload(req, got' - Preamble(req))
    BY <2>3, PayloadType DEF FirstPayload, Buffers, TypeOK
  <2>5. ~fast_open
    BY <1>6, Zenon DEF ConnectAddress, ServerRecvConnect, CarefulCopy, Upstream, TypeOK, Requests
  <2>6. c.s = 0
    BY <2>4, <2>5, ConnectResultsType, Zenon
  <2>7. Connected(life, FirstPayload, c.s, c)
    BY <2>1, <2>4, <2>6
  <2>. QED  BY <1>a, <2>2, <2>4, <2>7, UpstreamConnected, Zenon
<1>7. CASE ServerRecvResolve
  <2>1. /\ life.remote = "none" /\ "remSend" \notin io /\ Live /\ stage = 0 /\ up.n = 0
    BY <1>7, WatcherObjects, Zenon DEF ServerRecvResolve, Handshake, FirstBytes, Control, Upstream
  <2>2. life'.remote = "none" /\ "remSend" \notin io' /\ stage' = 4
    BY <1>7, <2>1 DEF ServerRecvResolve, TypeOK, Lives
  <2>3. sbuf'.base + sbuf'.idx = 0 /\ sbuf'.len = Payload(req, got' - Preamble(req))
    BY <1>7 DEF ServerRecvResolve, FirstPayload
  <2>4. up' = up /\ fast_open' = fast_open /\ req' = req
    BY <1>7 DEF ServerRecvResolve
  <2>5. Payload(req, got' - Preamble(req)) = Payload(req, got - Preamble(req))'
    BY <2>4 DEF Payload, Preamble, Header, Auth
  <2>. QED  BY <2>1, <2>2, <2>3, <2>4, <2>5, Zenon DEF Upstream
<1>7a. CASE ConnectName
  <2>1. PICK c \in ConnectResults(sbuf.len) :
            Connected(answered(life), sbuf, sbuf.base + sbuf.idx + c.s, c)
    BY <1>7a, Zenon DEF ConnectName
  <2>2. /\ Live /\ stage' = 4 /\ req' = req /\ got' = got /\ life.query # "null"
    BY <1>7a, Zenon DEF ConnectName, server_resolve_cb, Control, AnswerExpected, Lifetimes, Live
  <2>3. /\ up.n = 0 /\ sbuf.base + sbuf.idx = 0
        /\ sbuf.len = Payload(req, got' - Preamble(req))
    BY <2>2, Zenon DEF Upstream
  <2>4. c.s \in Nat
    BY <1>a, ConnectResultsType, Zenon
  <2>5. answered(life) \in Lives /\ answered(life).query = "null"
    BY LivesType DEF TypeOK, answered, Lives
  <2>6. Connected(answered(life), sbuf, c.s, c)
    <3>1. sbuf.base + sbuf.idx + c.s = c.s
      BY <1>a, <2>3, <2>4
    <3>. QED  BY <2>1, <3>1
  <2>. QED  BY <1>a, <2>2, <2>3, <2>5, <2>6, UpstreamConnected, Zenon
<1>12. CASE ServerRecvRelay
  <2>1. /\ stage = 5 /\ "remSend" \notin io /\ life.remote = "live" /\ life.query = "null"
        /\ life' = life
    BY <1>12, WatcherObjects, UseLive, Zenon DEF ServerRecvRelay, RelayedBytes, Control
  <2>2. PICK s \in SendResults(NextPayload.len) :
            /\ up' = Write(up, NextPayload.base, Sent(s))
            /\ IF s = NextPayload.len
               THEN rbuf' = NextPayload /\ UNCHANGED io
               ELSE rbuf' = Unsent(NextPayload, Sent(s)) /\ io' = AwaitWrite(io)
    BY <1>12, <2>1, Zenon DEF ServerRecvRelay
  <2>3. /\ NextPayload \in Buffers /\ NextPayload.len \in Nat /\ NextPayload.base \in Nat
        /\ NextPayload.base = Payload(req, got - Preamble(req))
        /\ NextPayload.base + NextPayload.len = Payload(req, got' - Preamble(req))
    BY <1>12, NextPayloadType, Zenon DEF ServerRecvRelay
  <2>4. NextPayload.base = up.n
    BY <1>a, <2>1, <2>3 DEF Upstream, Waiting
  <2>5. /\ Sent(s) \in 0..NextPayload.len /\ Sent(s) \in Nat
        /\ s = NextPayload.len => Sent(s) = NextPayload.len
    BY <2>3, SendType, Zenon
  <2>6. up'.n = up.n + Sent(s) /\ up'.good
    <3>1. up.good /\ up' = Write(up, up.n, Sent(s))
      BY <2>2, <2>4, Zenon DEF Upstream
    <3>. QED  BY <1>a, <2>5, <3>1, WriteOn, Zenon
  <2>7. /\ req' = req /\ fast_open' = fast_open /\ stage' = stage
    BY <1>12, Zenon DEF ServerRecvRelay
  <2>8. Payload(req, got - Preamble(req))' = Payload(req, got' - Preamble(req))
    BY <2>7, Zenon DEF Payload, Preamble, Header, Auth
  <2>9. CASE s = NextPayload.len
    <3>1. up'.n + Waiting("remSend", rbuf)' = Payload(req, got - Preamble(req))'
      BY <1>a, <2>1, <2>2, <2>3, <2>4, <2>5, <2>6, <2>8, <2>9 DEF Waiting
    <3>. QED  BY <2>1, <2>2, <2>6, <2>7, <2>9, <3>1 DEF Upstream, Live
  <2>10. CASE s # NextPayload.len
    <3>1. rbuf'.len = NextPayload.len - Sent(s) /\ rbuf'.base + rbuf'.idx = up'.n
      BY <1>a, <2>2, <2>3, <2>4, <2>5, <2>6, <2>10, UnsentType
    <3>2. "remSend" \in io'
      BY <2>2, <2>10, Zenon DEF AwaitWrite
    <3>3. Waiting("remSend", rbuf)' = NextPayload.len - Sent(s)
      BY <3>1, <3>2, Zenon DEF Waiting
    <3>4. up'.n + Waiting("remSend", rbuf)' = Payload(req, got - Preamble(req))'
      BY <2>3, <2>4, <2>5, <2>6, <2>8, <3>3
    <3>. QED  BY <2>1, <2>6, <2>7, <3>1, <3>2, <3>4 DEF Upstream, Live
  <2>. QED  BY <2>9, <2>10, Zenon
<1>16. CASE RemoteSend /\ rbuf.len > 0
  <2>1. /\ life.remote = "live" /\ life.query = "null" /\ "remSend" \in io /\ use_server(life) = life
    BY <1>16, WatcherObjects, UseLive, Zenon DEF RemoteSend
  <2>2. PICK s \in SendResults(rbuf.len) :
            /\ life' = life
            /\ up' = Write(up, rbuf.base + rbuf.idx, Sent(s))
            /\ IF s = rbuf.len
               THEN /\ rbuf' = [rbuf EXCEPT !.idx = 0, !.len = 0]
                    /\ stage' = IF stage = 4 THEN 5 ELSE stage
                    /\ io' = ResumeRead(io)
               ELSE /\ rbuf' = Consume(rbuf, Sent(s))
                    /\ UNCHANGED <<stage, io>>
    BY <1>16, <2>1 DEF RemoteSend
  <2>3. /\ Sent(s) \in 0..rbuf.len /\ Sent(s) \in Nat
        /\ s = rbuf.len => Sent(s) = rbuf.len
    BY <1>a, SendType, Zenon
  <2>4. rbuf.base + rbuf.idx = up.n /\ up.n + rbuf.len = Payload(req, got - Preamble(req))
    BY <1>16, <2>1, Zenon DEF Upstream, Waiting
  <2>5. up'.n = up.n + Sent(s) /\ up'.good
    <3>1. up.good /\ up' = Write(up, up.n, Sent(s))
      BY <2>2, <2>4 DEF Upstream
    <3>. QED  BY <1>a, <2>3, <3>1, WriteOn, Zenon
  <2>6. /\ req' = req /\ got' = got /\ fast_open' = fast_open /\ stage' # 0
    BY <1>16, <2>1, <2>2 DEF RemoteSend, Control, Live, Lifetimes
  <2>7. Payload(req, got - Preamble(req))' = Payload(req, got - Preamble(req))
    BY <2>6, Zenon DEF Payload, Preamble, Header, Auth
  <2>8. CASE s = rbuf.len
    <3>1. "remSend" \notin io'
      BY <2>2, <2>8 DEF ResumeRead
    <3>2. up'.n + Waiting("remSend", rbuf)' = Payload(req, got - Preamble(req))'
      BY <1>a, <2>3, <2>4, <2>5, <2>7, <2>8, <3>1 DEF Waiting
    <3>. QED  BY <2>1, <2>2, <2>5, <2>6, <3>1, <3>2, Zenon DEF Upstream
  <2>9. CASE s # rbuf.len
    <3>1. rbuf'.len = rbuf.len - Sent(s) /\ rbuf'.base + rbuf'.idx = up'.n /\ io' = io
      BY <1>a, <2>2, <2>3, <2>4, <2>5, <2>9, ConsumeType
    <3>2. up'.n + Waiting("remSend", rbuf)' = Payload(req, got - Preamble(req))'
      BY <1>a, <2>1, <2>3, <2>4, <2>5, <2>7, <3>1 DEF Waiting
    <3>. QED  BY <2>1, <2>2, <2>5, <2>6, <3>1, <3>2 DEF Upstream
  <2>. QED  BY <2>8, <2>9, Zenon
<1>9. CASE ServerRecvAgain
  <2>1. use_buf(life) = life
    BY <1>9, WatcherObjects, UseLive, Zenon DEF ServerRecvAgain, use_buf
  <2>. QED  BY <1>9, <2>1, UpstreamSame, Zenon DEF ServerRecvAgain, bufs, streams
<1>15. CASE RemoteConnectedIdle
  <2>1. life' = life
    BY <1>15, WatcherObjects, UseLive, Zenon DEF RemoteConnectedIdle
  <2>2. life.remote = "live" /\ life.query = "null"
    BY <1>15, WatcherObjects, Zenon DEF RemoteConnectedIdle
  <2>3. Waiting("remSend", rbuf)' = Waiting("remSend", rbuf)
    BY <1>15, Zenon DEF RemoteConnectedIdle, Waiting, bufs
  <2>4. Payload(req, got - Preamble(req))' = Payload(req, got - Preamble(req))
    BY <1>15, Zenon DEF RemoteConnectedIdle, Payload, Preamble, Header, Auth, streams
  <2>. QED  BY <1>15, <2>1, <2>2, <2>3, <2>4 DEF RemoteConnectedIdle, Upstream, Live, bufs, streams
<1>18. CASE RemoteRecvAgain
  <2>1. life' = life
    BY <1>18, WatcherObjects, UseLive DEF RemoteRecvAgain
  <2>. QED  BY <1>18, <2>1, UpstreamSame, Zenon DEF RemoteRecvAgain, bufs, streams
<1>19. CASE RemoteRecv
  <2>1. life' = life /\ life.query = "null"
    BY <1>19, WatcherObjects, UseLive, Zenon DEF RemoteRecv
  <2>2. "remSend" \in io' <=> "remSend" \in io
    BY <1>19 DEF RemoteRecv, AwaitClient
  <2>. QED  BY <1>19, <2>1, <2>2, UpstreamSame, Zenon DEF RemoteRecv
<1>21. CASE ServerSend /\ sbuf.len > 0
  <2>1. life' = life /\ life.query = "null"
    BY <1>21, WatcherObjects, UseLive DEF ServerSend
  <2>2. "remSend" \in io' <=> "remSend" \in io
    BY <1>21 DEF ServerSend
  <2>. QED  BY <1>21, <2>1, <2>2, UpstreamSame DEF ServerSend
<1>22. CASE Tick
  BY <1>22, UpstreamSame, Zenon DEF Tick, bufs, streams
<1>24. CASE FastOpenUnsupported
  BY <1>24, UpstreamSame, Zenon DEF FastOpenUnsupported, bufs, streams
<1>25. CASE Shutdown /\ ~Live
  BY <1>25, UpstreamSame, Zenon DEF Shutdown, bufs, streams, Live
<1>. QED
  BY <1>0, <1>1, <1>2, <1>6, <1>7, <1>7a, <1>9, <1>12, <1>15, <1>16, <1>18, <1>19, <1>21, <1>22, Zenon,
     <1>24, <1>25 DEF Keeps

\* The destination gets the client's payload in order, without loss and without
\* repetition, provided no request for an address is answered by a connect that
\* carries data in its SYN: server_recv_cb then moves the rest of the buffer
\* from its start, not from where connect_to_remote stopped.
THEOREM UpstreamExactHolds ==
    ASSUME CarefulCopy
    PROVE  Spec => []UpstreamExact
<1>1. Init => Upstream
  <2>1. Init => (fast_open => req.kind \in FastOpenKinds)
    BY Zenon DEF Init, Asked
  <2>2. Init => life.server # "live" /\ life.remote # "live" /\ io = {} /\ up.good
    BY DEF Init, NoLife, NoBytes
  <2>. QED  BY <2>1, <2>2, Zenon DEF Upstream, Live
<1>2. Inv /\ Upstream /\ [Next]_vars => Upstream'
  <2>1. ASSUME Inv, Upstream, Next PROVE Upstream'
    BY <2>1, StepKinds, UpstreamStep
  <2>2. ASSUME Upstream, UNCHANGED vars PROVE Upstream'
    BY <2>2, Zenon DEF vars, Upstream, Live, Waiting, Payload, Preamble, Header, Auth
  <2>. QED  BY <2>1, <2>2
<1>3. Inv /\ Upstream => UpstreamExact
  <2>. SUFFICES ASSUME Inv, Upstream, Live, stage # 0
                PROVE  Payload(req, got - Preamble(req)) =
                       up.n + (IF life.remote = "none" THEN sbuf.len ELSE Waiting("remSend", rbuf))
    BY Zenon DEF UpstreamExact, Upstream, Live
  <2>. TypeOK /\ Control
    BY DEF Inv
  <2>1. CASE life.query # "null"
    <3>1. life.remote = "none" /\ up.n = 0 /\ sbuf.len = Payload(req, got - Preamble(req))
      BY <2>1, Zenon DEF Control, AnswerExpected, Upstream
    <3>2. sbuf.len \in Nat
      BY DEF TypeOK, Buffers
    <3>. QED  BY <3>1, <3>2
  <2>2. CASE life.query = "null"
    <3>1. stage = 4 \/ stage = 5
      BY Zenon DEF TypeOK
    <3>2. life.remote = "live"
      BY <2>2, <3>1, WatcherObjects, Zenon DEF Control
    <3>. QED  BY <3>2 DEF Upstream
  <2>. QED  BY <2>1, <2>2, Zenon
<1>4. Spec => []Inv
  BY InitInv, StepInv, PTL DEF Spec
<1>. QED  BY <1>1, <1>2, <1>3, <1>4, PTL DEF Spec

-----------------------------------------------------------------------------
(* The answer of the destination.                                          *)

\* Steps that neither read the destination nor write to the client.
LEMMA DownstreamSame ==
    ASSUME Downstream, down' = down, dgot' = dgot, einit' = einit,
           Live \/ life' = life, stage' = 5 \/ stage # 5,
           "srvSend" \in io' <=> "srvSend" \in io,
           "srvSend" \in io => sbuf' = sbuf
    PROVE  Downstream'
<1>1. Waiting("srvSend", sbuf)' = Waiting("srvSend", sbuf)
  BY Zenon DEF Waiting
<1>2. Live' => Live
  BY DEF Live
<1>. QED  BY <1>1, <1>2, Zenon DEF Downstream

LEMMA DownstreamStep ==
    ASSUME Inv, Downstream, Closes \/ Keeps
    PROVE  Downstream'
<1>. TypeOK /\ Control
  BY DEF Inv
<1>a. down \in Sinks /\ down.n \in Nat /\ sbuf \in Buffers /\ sbuf.len \in Nat /\ sbuf.base \in Nat
      /\ sbuf.idx \in Nat /\ dgot \in Nat /\ IvLen \in Nat
  BY SizesAssumption, Zenon DEF TypeOK, Sinks, Buffers
<1>0. CASE Closes
  BY <1>0, Zenon DEF Closes, Closed, Downstream, Live
<1>1. CASE accept_cb
  <2>1. "srvSend" \notin io'
    BY <1>1, Zenon DEF accept_cb, AcceptWatchers, Control, WatchersLive, Lifetimes, Armed, RemoteWatchers
  <2>2. down'.good /\ down'.n = 0 /\ ~einit' /\ dgot' = 0
    BY <1>1, Zenon DEF accept_cb, NoBytes
  <2>. QED  BY <2>1, <2>2, Zenon DEF Downstream, Waiting
<1>2. CASE ServerRecvIV
  <2>1. "srvSend" \notin io
    BY <1>2, WatcherObjects DEF ServerRecvIV
  <2>. QED  BY <1>2, <2>1, DownstreamSame DEF ServerRecvIV
<1>3. CASE ConnectAddress
  <2>1. stage = 0 /\ "srvSend" \notin io /\ Live
    BY <1>3, WatcherObjects DEF ConnectAddress, ServerRecvConnect, Handshake, FirstBytes
  <2>2. "srvSend" \notin io'
    BY <1>3, <2>1 DEF ConnectAddress, Connected, AwaitWrite
  <2>. QED  BY <1>3, <2>1, <2>2, DownstreamSame DEF ConnectAddress, ServerRecvConnect
<1>4. CASE ServerRecvResolve
  <2>1. stage = 0 /\ "srvSend" \notin io /\ Live
    BY <1>4, WatcherObjects DEF ServerRecvResolve, Handshake, FirstBytes
  <2>. QED  BY <1>4, <2>1, DownstreamSame DEF ServerRecvResolve
<1>5. CASE ConnectName
  <2>1. stage = 4 /\ "srvSend" \notin io /\ Live
    BY <1>5, WatcherObjects, Zenon DEF ConnectName, server_resolve_cb, Control, AnswerExpected, Lifetimes,
       Live
  <2>2. "srvSend" \notin io'
    BY <1>5, <2>1 DEF ConnectName, Connected, AwaitWrite
  <2>. QED  BY <1>5, <2>1, <2>2, DownstreamSame, Zenon DEF ConnectName, server_resolve_cb
<1>6. CASE ServerRecvAgain
  <2>1. Live
    BY <1>6, WatcherObjects DEF ServerRecvAgain
  <2>. QED  BY <1>6, <2>1, DownstreamSame, Zenon DEF ServerRecvAgain, streams, bufs
<1>7. CASE ServerRecvRelay
  <2>1. Live /\ stage = 5
    BY <1>7, WatcherObjects, Zenon DEF ServerRecvRelay, RelayedBytes
  <2>2. "srvSend" \in io' <=> "srvSend" \in io
    BY <1>7, <2>1 DEF ServerRecvRelay, AwaitWrite
  <2>. QED  BY <1>7, <2>1, <2>2, DownstreamSame, Zenon DEF ServerRecvRelay
<1>8. CASE RemoteConnectedIdle
  <2>1. Live /\ stage' = 5
    BY <1>8, WatcherObjects DEF RemoteConnectedIdle
  <2>. QED  BY <1>8, <2>1, DownstreamSame, Zenon DEF RemoteConnectedIdle, streams, bufs
<1>9. CASE RemoteSend /\ rbuf.len > 0
  <2>1. Live /\ rbuf.len # 0
    BY <1>9, WatcherObjects DEF RemoteSend
  <2>2. "srvSend" \in io' <=> "srvSend" \in io
    BY <1>9, <2>1 DEF RemoteSend, ResumeRead
  <2>3. stage' = 5 \/ stage # 5
    BY <1>9, <2>1 DEF RemoteSend
  <2>. QED  BY <1>9, <2>1, <2>2, <2>3, DownstreamSame DEF RemoteSend
<1>10. CASE RemoteRecvAgain
  <2>1. Live
    BY <1>10, WatcherObjects, Zenon DEF RemoteRecvAgain
  <2>. QED  BY <1>10, <2>1, DownstreamSame, Zenon DEF RemoteRecvAgain, streams, bufs
<1>11. CASE RemoteRecv
  <2>1. Live /\ stage = 5 /\ "srvSend" \notin io /\ stage' = stage /\ einit' = TRUE
    BY <1>11, WatcherObjects, Zenon DEF RemoteRecv, Control
  <2>2. PICK r \in 1..BUF_SIZE :
            /\ dgot' = dgot + r
            /\ \E s \in SendResults(Encrypted(r).len) :
                /\ down' = Write(down, Encrypted(r).base, Sent(s))
                /\ IF s = Encrypted(r).len
                   THEN sbuf' = Encrypted(r) /\ UNCHANGED io
                   ELSE /\ sbuf' = Unsent(Encrypted(r), Sent(s))
                        /\ io' = AwaitClient(io)
    BY <1>11, Zenon DEF RemoteRecv
  <2>3. PICK s \in SendResults(Encrypted(r).len) :
            /\ down' = Write(down, Encrypted(r).base, Sent(s))
            /\ IF s = Encrypted(r).len
               THEN sbuf' = Encrypted(r) /\ UNCHANGED io
               ELSE /\ sbuf' = Unsent(Encrypted(r), Sent(s))
                    /\ io' = AwaitClient(io)
    BY <2>2, Zenon
  <2>4. /\ Encrypted(r) \in Buffers /\ Encrypted(r).len \in Nat /\ Encrypted(r).base \in Nat
        /\ Encrypted(r).base + Encrypted(r).len =
             IF einit THEN IvLen + dgot + r ELSE IvLen + r
        /\ Encrypted(r).base = IF einit THEN IvLen + dgot ELSE 0
    BY EncryptedType, Zenon
  <2>5. Encrypted(r).base = down.n /\ (~einit => dgot = 0)
    BY <1>a, <2>1, <2>4 DEF Downstream, Waiting
  <2>6. /\ Sent(s) \in 0..Encrypted(r).len /\ Sent(s) \in Nat
        /\ s = Encrypted(r).len => Sent(s) = Encrypted(r).len
    BY <2>4, SendType, Zenon
  <2>7. down'.n = down.n + Sent(s) /\ down'.good
    <3>1. down.good /\ down' = Write(down, down.n, Sent(s))
      BY <2>3, <2>5, Zenon DEF Downstream
    <3>. QED  BY <1>a, <2>6, <3>1, WriteOn, Zenon
  <2>8. down.n + Encrypted(r).len = IvLen + dgot'
    BY <1>a, <2>2, <2>4, <2>5
  <2>9. CASE s = Encrypted(r).len
    <3>1. down'.n + Waiting("srvSend", sbuf)' = IvLen + dgot'
      BY <1>a, <2>1, <2>3, <2>4, <2>6, <2>7, <2>8, <2>9 DEF Waiting
    <3>. QED  BY <2>1, <2>3, <2>7, <2>9, <3>1, ZenonT(30) DEF Downstream
  <2>10. CASE s # Encrypted(r).len
    <3>1. sbuf'.len = Encrypted(r).len - Sent(s) /\ sbuf'.base + sbuf'.idx = down'.n
      BY <1>a, <2>3, <2>4, <2>5, <2>6, <2>7, <2>10, UnsentType, ZenonT(30)
    <3>2. "srvSend" \in io'
      BY <2>3, <2>10, Zenon DEF AwaitClient
    <3>3. down'.n + Waiting("srvSend", sbuf)' = IvLen + dgot'
      BY <1>a, <2>4, <2>6, <2>7, <2>8, <3>1, <3>2 DEF Waiting
    <3>. QED  BY <2>1, <2>7, <3>1, <3>3, Zenon DEF Downstream
  <2>. QED  BY <2>9, <2>10, Zenon
<1>12. CASE ServerSend /\ sbuf.len > 0
  <2>1. /\ Live /\ stage = 5 /\ "srvSend" \in io /\ sbuf.len # 0
        /\ stage' = stage /\ einit' = einit /\ dgot' = dgot
    BY <1>12, WatcherObjects DEF ServerSend
  <2>2. PICK s \in SendResults(sbuf.len) :
            /\ down' = Write(down, sbuf.base + sbuf.idx, Sent(s))
            /\ IF s = sbuf.len
               THEN io' = (io \ {"srvSend"}) \cup {"remRecv"}
               ELSE sbuf' = Consume(sbuf, Sent(s)) /\ io' = io
    BY <1>12, <2>1 DEF ServerSend
  <2>3. /\ Sent(s) \in 0..sbuf.len /\ Sent(s) \in Nat
        /\ s = sbuf.len => Sent(s) = sbuf.len
    BY <1>a, SendType, Zenon
  <2>4. sbuf.base + sbuf.idx = down.n /\ (IF einit THEN IvLen ELSE 0) + dgot = down.n + sbuf.len
        /\ (~einit => dgot = 0)
    BY <2>1, Zenon DEF Downstream, Waiting
  <2>5. down'.n = down.n + Sent(s) /\ down'.good
    <3>1. down.good /\ down' = Write(down, down.n, Sent(s))
      BY <2>2, <2>4, Zenon DEF Downstream
    <3>. QED  BY <1>a, <2>3, <3>1, WriteOn, Zenon
  <2>6. CASE s = sbuf.len
    <3>1. "srvSend" \notin io'
      BY <2>2, <2>6
    <3>2. (IF einit THEN IvLen ELSE 0) + dgot = down'.n + Waiting("srvSend", sbuf)'
      BY <1>a, <2>3, <2>4, <2>5, <2>6, <3>1 DEF Waiting
    <3>. QED  BY <2>1, <2>4, <2>5, <3>1, <3>2, Zenon DEF Downstream
  <2>7. CASE s # sbuf.len
    <3>1. sbuf'.len = sbuf.len - Sent(s) /\ sbuf'.base + sbuf'.idx = down'.n /\ io' = io
      BY <1>a, <2>2, <2>3, <2>4, <2>5, <2>7, ConsumeType
    <3>2. (IF einit THEN IvLen ELSE 0) + dgot = down'.n + Waiting("srvSend", sbuf)'
      BY <1>a, <2>1, <2>3, <2>4, <2>5, <3>1 DEF Waiting
    <3>. QED  BY <2>1, <2>4, <2>5, <3>1, <3>2, Zenon DEF Downstream
  <2>. QED  BY <2>6, <2>7
<1>13. CASE Tick
  <2>1. Live
    BY <1>13, WatcherObjects DEF Tick
  <2>. QED  BY <1>13, <2>1, DownstreamSame, Zenon DEF Tick, streams, bufs
<1>14. CASE FastOpenUnsupported
  BY <1>14, Zenon DEF FastOpenUnsupported, streams, bufs, Downstream, Live, Waiting
<1>15. CASE Shutdown /\ ~Live
  BY <1>15, Zenon DEF Shutdown, streams, bufs, Downstream, Live, Waiting
<1>. QED  BY <1>0, <1>1, <1>2, <1>3, <1>4, <1>5, <1>6, <1>7, <1>8, <1>9, <1>10, <1>11, <1>12, Zenon,
             <1>13, <1>14, <1>15 DEF Keeps

\* The client gets one IV and then the destination's bytes in order, without loss
\* and without repetition (remote_recv_cb and server_send_cb).
THEOREM DownstreamExactHolds == Spec => []DownstreamExact
<1>1. Init => Downstream
  BY DEF Init, Downstream, Live, NoLife, NoBytes
<1>2. Inv /\ Downstream /\ [Next]_vars => Downstream'
  <2>1. ASSUME Inv, Downstream, Next PROVE Downstream'
    BY <2>1, StepKinds, DownstreamStep
  <2>2. ASSUME Downstream, UNCHANGED vars PROVE Downstream'
    BY <2>2, Zenon DEF vars, Downstream, Live, Waiting
  <2>. QED  BY <2>1, <2>2
<1>3. Downstream => DownstreamExact
  BY Zenon DEF Downstream, DownstreamExact, Live
<1>4. Spec => []Inv
  BY InitInv, StepInv, PTL DEF Spec
<1>. QED  BY <1>1, <1>2, <1>3, <1>4, PTL DEF Spec
=============================================================================
