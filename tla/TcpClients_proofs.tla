------------------------- MODULE TcpClients_proofs -------------------------
(***************************************************************************)
(* Proofs about a connection of ss-local, ss-tunnel and ss-redir: the      *)
(* callbacks in which the programs differ keep the invariant of            *)
(* ClientRelay_proofs, and what follows from it.                           *)
(***************************************************************************)
EXTENDS ClientRelay_proofs

\* The leaves are for the SMT solver, unless they cite another prover.
USE SMTT(60)

-----------------------------------------------------------------------------
(* ss-tunnel and ss-redir.                                                 *)

\* remote_send_cb of ss-tunnel sends the header by itself, and reads only then.
LEMMA SendHeaderKept ==
    ASSUME Inv, opt.prog = "tunnel", SendHeader, UNCHANGED lvars
    PROVE  Kept
<1>. DEFINE len == IvLen + HdrLen
<1>1. Dialling
  BY WatcherPhase, Zenon DEF SendHeader, Relayed
<1>2. ~direct /\ made = 0 /\ got = 0 /\ counter = 0 /\ up = NoBytes /\ Live /\ Linked /\ NothingBack
  BY <1>1 DEF Dialling
<1>3. len \in Nat /\ len - HdrLen = IvLen /\ len > 0 /\ IvLen \in Nat
  BY SizesAssumption
<1>4. Encrypted(HdrLen) = [base |-> 0, idx |-> rbuf.idx, len |-> len]
  BY <1>2 DEF Encrypted
<1>5. PICK s \in FirstSends(len) : up' = Write(up, 0, Sent(s))
  BY <1>4 DEF SendHeader
<1>6. Sent(s) \in 0..len /\ (opt.whole => Sent(s) = len)
  BY <1>3 DEF FirstSends, Sent, SendResults, Again
<1>7. up' \in Sinks /\ up'.n = Sent(s) /\ up'.good
  <2>1. up.n = 0 /\ up.good = TRUE  BY <1>2 DEF NoBytes
  <2>2. up' = [n |-> 0 + Sent(s), good |-> TRUE]
    BY <1>5, <2>1, Zenon DEF Write
  <2>3. Sent(s) \in Nat  BY <1>3, <1>6
  <2>. QED  BY <2>2, <2>3 DEF Sinks
<1>8. /\ made' = len /\ header' = IvLen /\ connected' = TRUE
      /\ io' = (io \ {"remSend", "connTimer"}) \cup {"remRecv", "srvRecv"}
      /\ UNCHANGED <<conf, proc, sbuf, rbuf, got, counter, downstream, idle, spurious>>
  <2>1. /\ made' = made + len /\ header' = made + len - HdrLen /\ connected' = TRUE
        /\ io' = (io \ {"remSend", "connTimer"}) \cup {"remRecv", "srvRecv"}
        /\ UNCHANGED <<conf, proc, sbuf, rbuf, got, counter, downstream, idle, spurious>>
    BY <1>4 DEF SendHeader
  <2>. QED  BY <1>2, <1>3, <2>1
<1>. HIDE DEF len
<1>9. life' = life
  <2>1. life' = use_server(life)  BY DEF SendHeader
  <2>. QED  BY <1>2, <2>1, UseLive DEF Inv
<1>10. TypeOK'
  BY <1>3, <1>7, <1>8, <1>9, Zenon DEF Inv, TypeOK, conf, downstream, ServerWatchers, RemoteWatchers
<1>11. /\ "remSend" \notin io' /\ "srvRecv" \in io' /\ "remRecv" \in io' /\ "srvSend" \notin io'
  BY <1>1, <1>8 DEF Dialling
<1>12. Careful => GivenUp'
  <2>1. Framing' = len
    BY <1>2, <1>3, <1>8, SizesAssumption DEF Framing, conf, len
  <2>2. HeaderPlace' = IvLen  BY <1>2, <1>8 DEF HeaderPlace, conf
  <2>3. Careful => up'.n = len  BY <1>6, <1>7 DEF Careful
  <2>. QED  BY <1>2, <1>3, <1>8, <1>11, <2>1, <2>2, <2>3 DEF GivenUp, Waiting
<1>13. GivenBack'
  BY <1>2, <1>8, <1>11 DEF NothingBack, NoBytes, GivenBack, Waiting, Plain, downstream, conf
<1>14. Relayed' /\ Links'
  BY <1>2, <1>8, <1>9, <1>11, <1>12, <1>13, Zenon DEF Relayed, Live, Linked, Links, Careful, conf, lvars, Inv
<1>15. UpStep /\ DownStep
  <2>1. UpStep
    <3>1. made < made' /\ up.n = made /\ up.good /\ up \in Sinks
      BY <1>2, <1>3, <1>8, NothingYet DEF NoBytes
    <3>2. made \in Nat /\ made' \in Nat /\ up'.n \in Nat /\ made <= up'.n /\ up'.n <= made'
      BY <1>2, <1>3, <1>6, <1>7, <1>8
    <3>. QED  BY <1>2, <1>7, <1>9, <3>1, <3>2, UpTakes DEF Linked
  <2>2. DownStep
    BY <1>8, <1>9, DownSame DEF downstream, conf, Linked, Plain
  <2>. QED  BY <2>1, <2>2
<1>. QED  BY <1>7, <1>8, <1>10, <1>14, <1>15 DEF Kept, Inv, downstream, conf, lvars

\* Every step of ss-tunnel.
LEMMA TunnelKept ==
    ASSUME Inv, opt.prog = "tunnel", TunnelNext, UNCHANGED lvars
    PROVE  Kept
<1>1. CASE tunnel_accept_cb
  BY <1>1, AcceptLinkedKept DEF tunnel_accept_cb
<1>2. CASE tunnel_server_recv_cb
  <2>1. ~Asking  BY DEF Asking
  <2>2. CASE Relay
    <3>1. Relayed  BY <2>2, WatcherPhase, Zenon DEF Relay, Read, Dialling, Inv, Asking
    <3>. QED  BY <2>2, <3>1, RelayKept DEF Relayed
  <2>3. CASE ReadAgain
    BY <2>3, LookersKept
  <2>4. CASE RelayError \/ ReadEnd
    BY <2>1, <2>4, ClosersKept
  <2>. QED  BY <1>2, <2>2, <2>3, <2>4 DEF tunnel_server_recv_cb
<1>3. CASE tunnel_server_send_cb
  BY <1>3, FlushBackKept, ClosersKept DEF tunnel_server_send_cb
<1>4. CASE tunnel_remote_recv_cb
  <2>1. idle' \in Nat  BY <1>4 DEF tunnel_remote_recv_cb, Inv, TypeOK
  <2>. QED  BY <1>4, <2>1, RelayBackKept, RelayBackAgainKept, ClosersKept DEF tunnel_remote_recv_cb
<1>5. CASE tunnel_remote_send_cb
  BY <1>5, SendHeaderKept, FlushKept, ClosersKept DEF tunnel_remote_send_cb
<1>6. CASE tunnel_remote_timeout_cb
  BY <1>6, ClosersKept DEF tunnel_remote_timeout_cb
<1>7. CASE Tick
  BY <1>7, LookersKept
<1>. QED  BY <1>1, <1>2, <1>3, <1>4, <1>5, <1>6, <1>7 DEF TunnelNext
\* server_recv_cb of ss-redir keeps what comes before ss-server is connected.
LEMMA EarlyKept ==
    ASSUME Inv, opt.prog = "redir", Early, UNCHANGED lvars
    PROVE  Kept
<1>1. PICK n \in 1..UpLen : Read(n) /\ rbuf' = [base |-> 0, idx |-> rbuf.idx, len |-> Chunk(n)]
  BY DEF Early
<1>2. Dialling
  BY <1>1, WatcherPhase, Zenon DEF Early, Read, Relayed, Inv, Gone, Asking
<1>3. /\ "srvRecv" \in io /\ got = 0 /\ counter = 0 /\ rbuf.idx = 0 /\ made = 0 /\ ~direct
      /\ up = NoBytes /\ Live /\ Linked /\ NothingBack
  BY <1>1, <1>2 DEF Dialling, Read
<1>4. life' = life
  BY <1>3, UseLive, Zenon DEF Early, Inv
<1>5. n \in Nat /\ Chunk(n) \in Nat /\ got' = n /\ counter' \in Nat
  BY <1>1, <1>3, SizesAssumption DEF Chunk, Read, Early, NextCounter
<1>6. Chunk(n) = got' + counter' * AUTH_BYTES
  <2>1. 0 * AUTH_BYTES = 0 /\ 1 * AUTH_BYTES = AUTH_BYTES /\ AUTH_BYTES \in Nat
    BY SizesAssumption
  <2>2. CASE opt.auth
    BY <1>3, <1>5, <2>1, <2>2 DEF Chunk, Early, NextCounter
  <2>3. CASE ~opt.auth
    BY <1>3, <1>5, <2>1, <2>3 DEF Chunk, Early, NextCounter
  <2>. QED  BY <2>2, <2>3
<1>7. io' = (io \ {"srvRecv"}) \cup {"remSend"}
  BY DEF Early, AwaitWrite
<1>8. rbuf' = [base |-> 0, idx |-> 0, len |-> Chunk(n)] /\ rbuf' \in Buffers
  <2>1. rbuf' = [base |-> 0, idx |-> 0, len |-> Chunk(n)]  BY <1>1, <1>3
  <2>. QED  BY <1>5, <2>1 DEF Buffers
<1>9. TypeOK'
  BY <1>4, <1>5, <1>7, <1>8 DEF Early, Inv, TypeOK, conf, downstream, ServerWatchers, RemoteWatchers
<1>10. Dialling'
  <2>1. rbuf'.base = 0 /\ rbuf'.idx = 0 /\ rbuf'.len = got' + counter' * AUTH_BYTES
    BY <1>6, <1>8
  <2>2. /\ "remSend" \in io' /\ io' \subseteq {"remSend", "srvRecv", "connTimer"} /\ "srvRecv" \notin io'
        /\ "connTimer" \in io' \/ opt.fast_open
    BY <1>2, <1>7 DEF Dialling
  <2>3. UNCHANGED <<conf, connected, made, up, downstream>>
    BY DEF Early
  <2>. QED  BY <1>2, <1>3, <1>4, <2>1, <2>2, <2>3, Zenon DEF Dialling, Live, Linked, NothingBack, conf, downstream
<1>11. UpStep /\ DownStep
  BY <1>4, UpSame, DownSame, Zenon DEF Early, downstream, conf, Linked, Plain
<1>. QED
  BY <1>4, <1>9, <1>10, <1>11, Zenon DEF Kept, Inv, Early, Links, Live, Linked, Careful, conf, downstream, lvars

\* remote_send_cb of ss-redir puts the header in front of what was kept.
LEMMA RedirConnectedKept ==
    ASSUME Inv, opt.prog = "redir", RedirConnected, UNCHANGED lvars
    PROVE  Kept
<1>. DEFINE b == Encrypted(HdrLen + rbuf.len)
            w == (io \ {"remSend", "srvRecv", "connTimer"}) \cup {"remRecv"}
<1>1. Dialling
  BY WatcherPhase, Zenon DEF RedirConnected, Relayed
<1>2. /\ rbuf.base = 0 /\ rbuf.idx = 0 /\ rbuf.len = got + counter * AUTH_BYTES /\ made = 0 /\ ~direct
      /\ up.n = 0 /\ Live /\ Linked /\ NothingBack
  BY <1>1, Zenon DEF Dialling, NoBytes
<1>3. rbuf.len \in Nat /\ got \in Nat /\ counter \in Nat /\ HdrLen \in Nat /\ IvLen \in Nat /\ IvLen > 0
  BY SizesAssumption DEF Inv, TypeOK, Buffers
<1>4. b = [base |-> 0, idx |-> 0, len |-> IvLen + (HdrLen + rbuf.len)]
  BY <1>2, Zenon DEF Encrypted
<1>5. b \in Buffers /\ b.base = 0 /\ b.idx = 0 /\ b.len = IvLen + HdrLen + rbuf.len /\ b.len > 0 /\ b.len \in Nat
  BY <1>3, <1>4 DEF Buffers
<1>6. /\ FlushTo(w, b, FirstSends(b.len)) /\ made' = b.len /\ header' = IvLen /\ connected'
      /\ UNCHANGED <<conf, proc, sbuf, got, counter, downstream, idle, spurious>>
  <2>1. /\ FlushTo(w, b, FirstSends(b.len)) /\ made' = made + b.len
        /\ header' = made + b.len - HdrLen - rbuf.len /\ connected'
        /\ UNCHANGED <<conf, proc, sbuf, got, counter, downstream, idle, spurious>>
    BY DEF RedirConnected
  <2>2. made + b.len = b.len /\ made + b.len - HdrLen - rbuf.len = IvLen
    BY <1>2, <1>3, <1>5
  <2>. QED  BY <2>1, <2>2, Zenon
<1>. HIDE DEF b
<1>7. \A s \in FirstSends(b.len) : Sent(s) \in 0..b.len /\ (s = b.len <=> Sent(s) = b.len)
  <2>1. CASE opt.whole  BY <1>5, <2>1 DEF FirstSends, Sent, Again
  <2>2. CASE ~opt.whole  BY <1>5, <2>2, SentBytes DEF FirstSends
  <2>. QED  BY <2>1, <2>2
<1>8. /\ w \subseteq ServerWatchers \cup RemoteWatchers /\ "srvRecv" \notin w /\ "remRecv" \in w
      /\ "srvSend" \notin w
  BY <1>1 DEF Dialling, ServerWatchers, RemoteWatchers
<1>. HIDE DEF w
<1>9. opt.whole => FirstSends(b.len) = {b.len}
  BY DEF FirstSends
<1>10. {got', counter', made', idle'} \subseteq Nat /\ header' \in Nat \cup {None}
  BY <1>3, <1>5, <1>6, Zenon DEF Inv, TypeOK
<1>11. HeaderPlace = IvLen
  BY <1>2 DEF HeaderPlace
<1>12. made' = got' + Framing'
  <2>1. counter * AUTH_BYTES \in Nat  BY <1>3, SizesAssumption, OneMore
  <2>2. Framing' = IvLen + HdrLen + counter * AUTH_BYTES
    BY <1>2, <1>6, Zenon DEF Framing, conf
  <2>. QED  BY <1>2, <1>3, <1>5, <1>6, <2>1, <2>2
<1>13. b.base + b.idx = up.n /\ made' = up.n + b.len /\ made = up.n /\ made < made'
  BY <1>2, <1>5, <1>6
<1>. QED
  BY <1>1, <1>5, <1>6, <1>7, <1>8, <1>9, <1>10, <1>11, <1>12, <1>13, Flushing, Zenon

\* Every step of ss-redir.
LEMMA RedirKept ==
    ASSUME Inv, opt.prog = "redir", RedirNext, UNCHANGED lvars
    PROVE  Kept
<1>1. CASE redir_accept_cb
  BY <1>1, AcceptLinkedKept DEF redir_accept_cb
<1>2. CASE redir_server_recv_cb
  <2>1. ~Asking  BY DEF Asking
  <2>2. CASE Early  BY <2>2, EarlyKept
  <2>3. CASE connected /\ Relay
    <3>1. Relayed  BY <2>3, WatcherPhase, Zenon DEF Relay, Read, Dialling, Inv, Asking
    <3>. QED  BY <2>3, <3>1, RelayKept DEF Relayed
  <2>4. CASE ReadAgain  BY <2>4, LookersKept
  <2>5. CASE RelayError \/ ReadEnd  BY <2>1, <2>5, ClosersKept
  <2>. QED  BY <1>2, <2>2, <2>3, <2>4, <2>5 DEF redir_server_recv_cb
<1>3. CASE redir_server_send_cb
  BY <1>3, FlushBackKept, ClosersKept DEF redir_server_send_cb
<1>4. CASE redir_remote_recv_cb
  <2>1. idle' \in Nat  BY <1>4, Zenon DEF redir_remote_recv_cb, Inv, TypeOK
  <2>. QED  BY <1>4, <2>1, RelayBackKept, RelayBackAgainKept, ClosersKept DEF redir_remote_recv_cb
<1>5. CASE redir_remote_send_cb
  BY <1>5, RedirConnectedKept, FlushKept, ClosersKept DEF redir_remote_send_cb
<1>6. CASE redir_remote_timeout_cb
  BY <1>6, ClosersKept DEF redir_remote_timeout_cb
<1>7. CASE Tick
  BY <1>7, LookersKept
<1>. QED  BY <1>1, <1>2, <1>3, <1>4, <1>5, <1>6, <1>7 DEF RedirNext
-----------------------------------------------------------------------------
(* ss-local.                                                               *)

\* Bytes of the handshake are read only while the request is awaited.
LEMMA RequestPhase ==
    ASSUME Inv, opt.prog = "local", "srvRecv" \in io, stage \in {0, 1}
    PROVE  Asking
<1>1. ~Dialling /\ ~Relayed  BY DEF Dialling, Relayed
<1>2. ~Gone  BY DEF Gone
<1>. QED  BY <1>1, <1>2 DEF Inv

\* The method selection; a request that is refused, or whose remote_t is NULL.
LEMMA RequestsKept ==
    ASSUME Inv, opt.prog = "local", Greeting \/ RequestCut \/ RequestRefused \/ RequestDirectFails
    PROVE  Kept
<1>. USE DEF conf, upstream, downstream, lvars
<1>1. CASE Greeting
  <2>1. UNCHANGED <<opt, direct, proc, life, io, connected, sbuf, rbuf, got, counter, made, header, up,
                    dgot, dinit, down, idle, spurious, req, fast_open>> /\ stage' = 1
    BY <1>1, Zenon DEF Greeting, vars
  <2>2. Asking  BY <1>1, RequestPhase DEF Greeting
  <2>3. TypeOK'  BY <2>1, Zenon DEF Inv, TypeOK
  <2>4. Asking' /\ Links'
    BY <2>1, <2>2, Zenon DEF Asking, Live, Linked, NothingUp, NothingBack, Links, Inv
  <2>5. UpStep /\ DownStep  BY <2>1, UpSame, DownSame, Zenon DEF Linked, Plain
  <2>. QED  BY <2>1, <2>3, <2>4, <2>5, Zenon DEF Kept, Inv, Careful
<1>2. CASE RequestCut
  <2>1. Live
    BY <1>2, WatcherPhase, Zenon DEF RequestCut, RequestBytes
  <2>2. Data'  BY <1>2, Zenon DEF RequestCut, Surviving, Inv, TypeOK, Data
  <2>. QED  BY <1>2, <2>1, <2>2, Closing, Zenon DEF RequestCut
<1>3. CASE RequestRefused
  <2>1. Live
    BY <1>3, WatcherPhase, Zenon DEF RequestRefused, RequestBytes
  <2>2. Data'  BY <1>3, Zenon DEF RequestRefused, Inv, TypeOK, Data
  <2>. QED  BY <1>3, <2>1, <2>2, Closing, Zenon DEF RequestRefused
<1>4. CASE RequestDirectFails
  <2>1. idle' \in Nat /\ spurious' \in Nat /\ proc' \in {"running", "stopped", "aborted"}
    BY <1>4, Zenon DEF RequestDirectFails, Inv, TypeOK
  <2>2. UNCHANGED <<conf, life, io, connected, sbuf, rbuf, upstream, downstream, lvars>>
    BY <1>4, Zenon DEF RequestDirectFails
  <2>. QED  BY <2>1, <2>2, Waits, Zenon
<1>. QED  BY <1>1, <1>2, <1>3, <1>4

\* What is known when a request is granted.
LEMMA GrantedPhase ==
    ASSUME Inv, opt.prog = "local", NEW p, Granted(p)
    PROVE  /\ Asking /\ p \in Nat /\ got' = p /\ direct' \in BOOLEAN
           /\ ~opt.pipelined => p = 0
<1>1. Asking  BY RequestPhase DEF Granted, RequestBytes
<1>2. p \in Nat  BY SizesAssumption DEF Granted
<1>3. ~opt.pipelined => p = 0
  BY <1>2, HandshakeAssumption DEF Granted, RequestBytes
<1>4. direct' \in BOOLEAN /\ got' = p  BY Zenon DEF Granted
<1>. QED  BY <1>1, <1>2, <1>3, <1>4

\* The reply, ss_encrypt or sendto() fails: the new remote_t goes with the rest.
LEMMA GrantedFailsKept ==
    ASSUME Inv, opt.prog = "local", GrantedFails
    PROVE  Kept
<1>1. PICK p \in 0..UpLen : Granted(p)  BY Zenon DEF GrantedFails
<1>2. Asking /\ p \in Nat /\ got' = p /\ direct' \in BOOLEAN  BY <1>1, GrantedPhase
<1>3. Live /\ ~Linked /\ dgot = 0 /\ dinit = FALSE  BY <1>2, Zenon DEF Asking, NothingBack, Inv, TypeOK
<1>4. life' \in Lives /\ Links' /\ Gone'  BY <1>3, CloseNewCloses, Zenon DEF GrantedFails, Inv
<1>5. /\ UNCHANGED <<opt, proc, connected, sbuf, rbuf, counter, made, header, up, dgot, dinit, down,
                     idle, spurious, stage, req>>
      /\ fast_open' \in {fast_open, FALSE}
  BY Zenon DEF GrantedFails, downstream
<1>6. TypeOK'
  BY <1>2, <1>4, <1>5, Zenon DEF Inv, TypeOK, Gone
<1>7. Inv'
  <2>1. fast_open' => fast_open  BY <1>5, Zenon
  <2>2. opt' = opt /\ up' = up /\ down' = down  BY <1>5
  <2>. QED  BY <1>4, <1>6, <2>1, <2>2, Zenon DEF Inv, Careful
<1>8. Plain = 0 /\ Plain' = 0  BY <1>3, <1>5, Zenon DEF Plain
<1>9. UpStep /\ DownStep  BY <1>3, <1>4, <1>5, <1>8, UpSame, DownSame, Zenon DEF Gone
<1>. QED  BY <1>7, <1>9 DEF Kept
\* remote->buf, and the counts, when server_recv_cb starts to connect.
LEMMA DialStarts ==
    ASSUME Inv, opt.prog = "local", NEW p, Dial(p)
    PROVE  /\ Asking /\ life' \in Lives /\ Links' /\ Live' /\ Linked' /\ stage' = 5
           /\ FirstBytes(p) \in Buffers /\ FirstBytes(p).base = 0 /\ FirstBytes(p).idx = 0
           /\ {got', counter', made'} \subseteq Nat /\ header' \in Nat \cup {None} /\ direct' \in BOOLEAN
           /\ made' = FirstBytes(p).len /\ header' = HeaderPlace'
           /\ Careful => made' = got' + Framing'
<1>1. Asking /\ p \in Nat /\ got' = p /\ direct' \in BOOLEAN /\ (~opt.pipelined => p = 0)
  BY GrantedPhase, Zenon DEF Dial
<1>2. /\ Live /\ ~Linked /\ counter = 0 /\ made = 0 /\ rbuf.idx = 0
  BY <1>1, Zenon DEF Asking, NothingUp, Empty
<1>3. life' \in Lives /\ Links' /\ Live' /\ Linked'
  BY <1>2, Zenon DEF Dial, link_remote, Inv, TypeOK, Lives, Links, Live, Linked
<1>4. IvLen \in Nat /\ HdrLen \in Nat /\ AUTH_BYTES \in Nat /\ 0 * AUTH_BYTES = 0
  BY SizesAssumption
<1>5. /\ stage' = 5 /\ made' = FirstBytes(p).len
      /\ counter' = IF opt.auth /\ ~direct' /\ p > 0 THEN counter + 1 ELSE counter
      /\ header' = IF direct' THEN None ELSE FirstBytes(p).len - HdrLen - p
      /\ opt' = opt
  BY Zenon DEF Dial
<1>6. counter' \in Nat /\ (Careful => counter' = 0)
  BY <1>1, <1>2, <1>5 DEF Careful
<1>7. CASE direct'
  <2>1. FirstBytes(p) = [base |-> 0, idx |-> 0, len |-> p]
    BY <1>7 DEF FirstBytes, Empty
  <2>2. header' = HeaderPlace' /\ header' = None /\ Framing' = 0
    BY <1>5, <1>7, Zenon DEF HeaderPlace, Framing
  <2>3. FirstBytes(p) \in Buffers  BY <1>1, <2>1 DEF Buffers
  <2>. QED  BY <1>1, <1>3, <1>5, <1>6, <2>1, <2>2, <2>3
<1>8. CASE ~direct'
  <2>1. FirstBytes(p) = [base |-> 0, idx |-> 0, len |-> IvLen + (HdrLen + p)]
    BY <1>2, <1>8 DEF FirstBytes, Encrypted
  <2>2. IvLen + (HdrLen + p) \in Nat /\ IvLen + (HdrLen + p) - HdrLen - p = IvLen
    BY <1>1, <1>4
  <2>3. header' = HeaderPlace' /\ header' = IvLen
    <3>1. FirstBytes(p).len = IvLen + (HdrLen + p)  BY <2>1
    <3>2. header' = IvLen
      <4>1. header' = FirstBytes(p).len - HdrLen - p  BY <1>5, <1>8, Zenon
      <4>. QED  BY <1>1, <1>4, <3>1, <4>1
    <3>3. HeaderPlace' = IvLen  BY <1>8 DEF HeaderPlace
    <3>. QED  BY <3>2, <3>3
  <2>4. Careful => Framing' = IvLen + HdrLen
    BY <1>4, <1>6, <1>8 DEF Framing
  <2>5. FirstBytes(p) \in Buffers  BY <2>1, <2>2 DEF Buffers
  <2>6. Careful => made' = got' + Framing'
    BY <1>1, <1>4, <1>5, <2>1, <2>4
  <2>. QED  BY <1>1, <1>3, <1>4, <1>5, <1>6, <2>1, <2>2, <2>3, <2>5, <2>6
<1>. QED  BY <1>1, <1>7, <1>8, Zenon

\* connect(), or sendto() that is in progress.
LEMMA DialledKept ==
    ASSUME Inv, opt.prog = "local", NEW p, Dial(p), rbuf' = FirstBytes(p), UNCHANGED <<connected, up>>,
           idle' \in Nat, "remSend" \in io', io' \subseteq {"remSend", "connTimer"},
           "connTimer" \in io' \/ opt.fast_open
    PROVE  Kept
<1>1. /\ Asking /\ life' \in Lives /\ Links' /\ Live' /\ Linked' /\ stage' = 5
      /\ rbuf' \in Buffers /\ rbuf'.base = 0 /\ rbuf'.idx = 0
      /\ {got', counter', made'} \subseteq Nat /\ header' \in Nat \cup {None} /\ direct' \in BOOLEAN
      /\ made' = rbuf'.len /\ header' = HeaderPlace'
      /\ Careful => made' = got' + Framing'
  BY DialStarts, Zenon
<1>2. UNCHANGED <<opt, proc, sbuf, dgot, dinit, down, spurious, req, fast_open>>
  BY Zenon DEF Dial, downstream
<1>3. NothingBack /\ NothingBack' /\ up = NoBytes /\ up' = NoBytes /\ ~Linked /\ ~connected'
  BY <1>1, <1>2, Zenon DEF Asking, NothingUp, NothingBack
<1>4. TypeOK'
  <2>1. io' \subseteq ServerWatchers \cup RemoteWatchers  BY DEF RemoteWatchers
  <2>. QED  BY <1>1, <1>2, <2>1, Zenon DEF Inv, TypeOK
<1>5. Dialling'
  BY <1>1, <1>2, <1>3, Zenon DEF Dialling, Careful
<1>6. UpStep /\ DownStep
  <2>1. Plain' = 0 /\ down' = NoBytes  BY <1>3, Zenon DEF Plain, NothingBack
  <2>2. up' \in Sinks /\ up'.good /\ up'.n = 0  BY <1>3, NothingYet DEF NoBytes
  <2>3. made' \in Nat /\ up'.n <= made'  BY <1>1, <2>2
  <2>. QED  BY <1>1, <1>3, <2>1, <2>2, <2>3, UpOpens, DownOpens, Zenon
<1>. QED  BY <1>1, <1>2, <1>3, <1>4, <1>5, <1>6, Zenon DEF Kept, Inv, Careful, NoBytes

\* sendto() with MSG_FASTOPEN has sent the first bytes.
LEMMA DialFastOpenKept ==
    ASSUME Inv, opt.prog = "local", DialFastOpen
    PROVE  Kept
<1>1. PICK p \in 0..UpLen :
        /\ Dial(p) /\ ~direct'
        /\ \E s \in IF opt.whole THEN {FirstBytes(p).len} ELSE 0..FirstBytes(p).len :
            rbuf' = Unsent(FirstBytes(p), s) /\ up' = Write(up, FirstBytes(p).base, s)
  BY Zenon DEF DialFastOpen
<1>. DEFINE b == FirstBytes(p)
<1>2. PICK s \in IF opt.whole THEN {b.len} ELSE 0..b.len :
        rbuf' = Unsent(b, s) /\ up' = Write(up, b.base, s)
  BY <1>1, Zenon
<1>3. /\ Asking /\ life' \in Lives /\ Links' /\ Live' /\ Linked' /\ stage' = 5
      /\ b \in Buffers /\ b.base = 0 /\ b.idx = 0
      /\ {got', counter', made'} \subseteq Nat /\ header' \in Nat \cup {None} /\ direct' \in BOOLEAN
      /\ made' = b.len /\ header' = HeaderPlace'
      /\ Careful => made' = got' + Framing'
  BY <1>1, DialStarts, Zenon
<1>. HIDE DEF b
<1>4. UNCHANGED <<opt, proc, sbuf, dgot, dinit, down, spurious, req, fast_open, idle>>
  BY <1>1, Zenon DEF Dial, DialFastOpen, downstream
<1>5. NothingBack /\ NothingBack' /\ up = NoBytes /\ ~Linked /\ io = {"srvRecv"}
  BY <1>3, <1>4, Zenon DEF Asking, NothingUp, NothingBack
<1>6. connected' = TRUE /\ io' = {"srvRecv", "remRecv"}
  BY <1>5, Zenon DEF DialFastOpen
<1>7. b.len \in Nat /\ s \in 0..b.len /\ (opt.whole => s = b.len)
  <2>1. b.len \in Nat  BY <1>3, Zenon DEF Buffers
  <2>. QED  BY <1>2, <2>1
<1>8. up' \in Sinks /\ up'.n = s /\ up'.good
  <2>1. up.n = 0 /\ up.good = TRUE  BY <1>5, Zenon DEF NoBytes
  <2>2. up' = [n |-> 0 + s, good |-> TRUE]  BY <1>2, <1>3, <2>1, Zenon DEF Write
  <2>. QED  BY <1>7, <2>2 DEF Sinks
<1>9. rbuf' \in Buffers  BY <1>2, <1>3, <1>7 DEF Unsent, Buffers
<1>10. TypeOK'
  <2>1. io' \subseteq ServerWatchers \cup RemoteWatchers  BY <1>6 DEF ServerWatchers, RemoteWatchers
  <2>. QED  BY <1>3, <1>4, <1>6, <1>8, <1>9, <2>1, Zenon DEF Inv, TypeOK
<1>11. GivenBack'
  BY <1>5, <1>6 DEF NothingBack, NoBytes, GivenBack, Waiting, Plain
<1>12. Careful => GivenUp'
  BY <1>3, <1>6, <1>7, <1>8 DEF Careful, GivenUp, Waiting
<1>13. Relayed'
  BY <1>3, <1>4, <1>6, <1>11, <1>12, Zenon DEF Relayed, Careful
<1>14. UpStep /\ DownStep
  <2>1. Plain' = 0 /\ down' = NoBytes  BY <1>5, Zenon DEF Plain, NothingBack
  <2>2. made' \in Nat /\ up'.n <= made'  BY <1>3, <1>7, <1>8
  <2>. QED  BY <1>3, <1>5, <1>8, <2>1, <2>2, UpOpens, DownOpens, Zenon
<1>. QED  BY <1>3, <1>4, <1>5, <1>8, <1>10, <1>13, <1>14, Zenon DEF Kept, Inv, NothingBack, NoBytes
\* remote_send_cb of ss-local: connected; what waits, if anything does, is sent.
LEMMA LocalConnectedKept ==
    ASSUME Inv, opt.prog = "local", LocalConnected, UNCHANGED lvars
    PROVE  Kept
<1>1. Dialling
  BY WatcherPhase, Zenon DEF LocalConnected, Relayed
<1>2. /\ rbuf.base = 0 /\ rbuf.idx = 0 /\ made = rbuf.len /\ header = HeaderPlace
      /\ Careful => made = got + Framing
      /\ up.n = 0 /\ up.good /\ Live /\ Linked /\ NothingBack /\ stage = 5
  BY <1>1, Zenon DEF Dialling, NoBytes
<1>3. /\ "remSend" \in io /\ "srvRecv" \notin io /\ "remRecv" \notin io /\ "srvSend" \notin io
      /\ io \subseteq ServerWatchers \cup RemoteWatchers
  BY <1>1, Zenon DEF Dialling, Inv, TypeOK
<1>4. /\ connected' = TRUE /\ idle' = 0
      /\ UNCHANGED <<conf, proc, sbuf, got, counter, made, header, downstream, spurious>>
  BY Zenon DEF LocalConnected
<1>5. Framing' = Framing /\ HeaderPlace' = HeaderPlace
  BY <1>4, Zenon DEF Framing, HeaderPlace, conf
<1>6. CASE rbuf.len = 0
  <2>1. life' = life /\ UNCHANGED <<rbuf, up>>
    BY <1>2, <1>6, UseLive, Zenon DEF LocalConnected, Inv
  <2>2. /\ "remSend" \notin io' /\ "srvRecv" \in io' /\ "remRecv" \in io' /\ "srvSend" \notin io'
        /\ io' \subseteq ServerWatchers \cup RemoteWatchers
    BY <1>3, <1>6, ZenonT(30) DEF LocalConnected, ConnectedWatchers, ServerWatchers, RemoteWatchers
  <2>3. TypeOK'
    BY <1>4, <2>1, <2>2 DEF Inv, TypeOK, conf, downstream
  <2>4. GivenBack'
    <3>1. dgot' = 0 /\ ~dinit' /\ down'.n = 0
      BY <1>2, <1>4, Zenon DEF NothingBack, NoBytes, downstream
    <3>. QED  BY <2>2, <3>1 DEF GivenBack, Waiting, Plain
  <2>5. Careful => GivenUp'
    BY <1>2, <1>4, <1>5, <1>6, <2>1, <2>2 DEF GivenUp, Waiting
  <2>6. Relayed' /\ Links'
    BY <1>2, <1>4, <2>1, <2>2, <2>4, <2>5, Zenon DEF Relayed, Live, Linked, Links, Careful, conf, lvars, Inv
  <2>7. UpStep /\ DownStep
    BY <1>4, <2>1, UpSame, DownSame, Zenon DEF downstream, conf, Linked, Plain
  <2>. QED  BY <1>2, <1>4, <2>1, <2>3, <2>6, <2>7, Zenon DEF Kept, Inv, downstream, conf, lvars
<1>7. CASE rbuf.len # 0
  <2>1. FlushTo(ConnectedWatchers, rbuf, SendResults(rbuf.len))
    BY <1>7, Zenon DEF LocalConnected
  <2>2. rbuf \in Buffers /\ rbuf.len \in Nat /\ rbuf.len > 0
    BY <1>7 DEF Inv, TypeOK, Buffers
  <2>3. \A s \in SendResults(rbuf.len) : Sent(s) \in 0..rbuf.len /\ (s = rbuf.len <=> Sent(s) = rbuf.len)
    BY <2>2, SentBytes, Zenon
  <2>4. /\ "remRecv" \in ConnectedWatchers /\ "srvSend" \notin ConnectedWatchers
        /\ "srvRecv" \notin ConnectedWatchers /\ "remSend" \in ConnectedWatchers
        /\ ConnectedWatchers \subseteq ServerWatchers \cup RemoteWatchers
    BY <1>3, Zenon DEF ConnectedWatchers, ServerWatchers, RemoteWatchers
  <2>5. {got', counter', made', idle'} \subseteq Nat /\ header' \in Nat \cup {None}
    BY <1>4 DEF Inv, TypeOK
  <2>6. Careful => /\ rbuf.base + rbuf.idx = up.n /\ made' = up.n + rbuf.len
                   /\ header' = HeaderPlace /\ made' = got' + Framing' /\ made' = made
    BY <1>2, <1>4, <1>5, <2>2
  <2>. QED  BY <1>1, <1>4, <2>1, <2>2, <2>3, <2>4, <2>5, <2>6, Flushing, Zenon
<1>. QED  BY <1>6, <1>7

\* SIGINT or SIGTERM: free_connections releases the server_t, then the remote_t.
LEMMA ShutdownKept ==
    ASSUME Inv, Shutdown
    PROVE  Kept
<1>. USE DEF conf, upstream, downstream, lvars
<1>1. life' \in Lives /\ Links' /\ Gone'
  BY ZenonT(30) DEF Shutdown, Inv, TypeOK, Lives, Links, Linked, Live, Gone, Armed, close_and_free_remote,
         close_and_free_server, ServerWatchers, RemoteWatchers
<1>2. Data'
  BY Zenon DEF Shutdown, Inv, TypeOK, Data
<1>. QED  BY <1>1, <1>2, Released, Zenon DEF Shutdown

\* server_recv_cb of ss-local.
LEMMA LocalReceives ==
    ASSUME Inv, opt.prog = "local", local_server_recv_cb
    PROVE  Kept
<1>1. CASE Greeting \/ RequestCut \/ RequestRefused \/ RequestDirectFails
  BY <1>1, RequestsKept
<1>2. CASE GrantedFails
  BY <1>2, GrantedFailsKept
<1>3. CASE DialConnect
  <2>1. PICK p \in 0..UpLen : Dial(p) /\ rbuf' = FirstBytes(p)  BY <1>3 DEF DialConnect
  <2>2. io = {"srvRecv"}  BY <2>1, DialStarts, Zenon DEF Asking
  <2>3. io' = {"remSend", "connTimer"}  BY <1>3, <2>2 DEF DialConnect, DialWatchers, AwaitWrite
  <2>. QED  BY <1>3, <2>1, <2>3, DialledKept, Zenon DEF DialConnect
<1>4. CASE DialFastOpenPending
  <2>1. PICK p \in 0..UpLen : Dial(p) /\ rbuf' = FirstBytes(p)  BY <1>4 DEF DialFastOpenPending
  <2>2. io = {"srvRecv"}  BY <2>1, DialStarts DEF Asking
  <2>3. io' = {"remSend"}  BY <1>4, <2>2, Zenon DEF DialFastOpenPending, AwaitWrite
  <2>4. opt.fast_open  BY <1>4, Zenon DEF DialFastOpenPending, Inv
  <2>5. idle' \in Nat /\ UNCHANGED <<connected, up>>  BY <1>4, Zenon DEF DialFastOpenPending, Inv, TypeOK
  <2>. QED  BY <2>1, <2>3, <2>4, <2>5, DialledKept, Zenon
<1>5. CASE DialFastOpen
  BY <1>5, DialFastOpenKept
<1>6. CASE stage = 5 /\ connected /\ ~direct /\ Relay /\ UNCHANGED lvars
  <2>1. "srvRecv" \in io  BY <1>6, Zenon DEF Relay, Read
  <2>2. Relayed  BY <1>6, <2>1, WatcherPhase DEF Asking
  <2>. QED  BY <1>6, <2>2, RelayKept
<1>7. CASE stage = 5 /\ connected /\ direct /\ RelayDirect /\ UNCHANGED lvars
  <2>1. PICK n \in 1..UpLen : Read(n) /\ Pass([base |-> made, idx |-> rbuf.idx, len |-> n])
    BY <1>7, Zenon DEF RelayDirect
  <2>2. "srvRecv" \in io  BY <2>1, Zenon DEF Read
  <2>3. Relayed  BY <1>7, <2>2, WatcherPhase, Zenon DEF Asking
  <2>. QED  BY <1>7, <2>1, <2>3, RelayDirectKept, Zenon DEF RelayDirect
<1>8. CASE (stage = 5 /\ RelayError) /\ UNCHANGED lvars
  BY <1>8, ClosersKept DEF Asking
<1>9. CASE ReadEnd /\ UNCHANGED lvars
  BY <1>9, ClosersKept
<1>10. CASE ReadAgain /\ UNCHANGED lvars
  BY <1>10, LookersKept
<1>. QED  BY <1>1, <1>2, <1>3, <1>4, <1>5, <1>6, <1>7, <1>8, <1>9, <1>10 DEF local_server_recv_cb

\* Every step of ss-local.
LEMMA LocalKept ==
    ASSUME Inv, opt.prog = "local", LocalNext
    PROVE  Kept
<1>1. CASE local_accept_cb
  BY <1>1, AcceptKept, Zenon DEF local_accept_cb
<1>2. CASE local_server_recv_cb
  BY <1>2, LocalReceives
<1>3. CASE local_server_send_cb
  BY <1>3, FlushBackKept, ClosersKept DEF local_server_send_cb
<1>4. CASE local_remote_recv_cb
  <2>1. idle' \in Nat /\ UNCHANGED lvars  BY <1>4 DEF local_remote_recv_cb
  <2>. QED  BY <1>4, <2>1, RelayBackKept, RelayBackAgainKept, ClosersKept, Zenon DEF local_remote_recv_cb
<1>5. CASE local_remote_send_cb
  BY <1>5, LocalConnectedKept, FlushKept, ClosersKept DEF local_remote_send_cb
<1>6. CASE local_remote_timeout_cb
  BY <1>6, ClosersKept DEF local_remote_timeout_cb
<1>7. CASE Tick /\ UNCHANGED lvars
  BY <1>7, LookersKept
<1>8. CASE Shutdown
  BY <1>8, ShutdownKept
<1>. QED  BY <1>1, <1>2, <1>3, <1>4, <1>5, <1>6, <1>7, <1>8 DEF LocalNext
-----------------------------------------------------------------------------
(* The results.                                                            *)

\* A connection slot that was never used.
LEMMA Start == Init => Inv
<1>. SUFFICES ASSUME Init PROVE Inv
  OBVIOUS
<1>. USE DEF Init, Fresh
<1>1. life \in Lives /\ Links /\ Gone
  BY Zenon DEF NoLife, Lives, Links, Linked, Live, Gone
<1>2. sbuf \in Buffers /\ rbuf \in Buffers /\ up \in Sinks /\ down \in Sinks
  BY NothingYet, Zenon
<1>3. {got, counter, made, dgot, idle, spurious} \subseteq Nat /\ header \in Nat \cup {None}
  OBVIOUS
<1>4. TypeOK
  BY <1>1, <1>2, <1>3, Zenon DEF TypeOK
<1>. QED  BY <1>1, <1>4, Zenon DEF Inv, NoBytes

\* Every step keeps the invariant, and is a step of both pipes.
LEMMA StepKept == Inv /\ [Next]_<<vars, lvars>> => Kept
<1>. SUFFICES ASSUME Inv, [Next]_<<vars, lvars>> PROVE Kept
  OBVIOUS
<1>1. CASE UNCHANGED <<vars, lvars>>
  <2>1. /\ UNCHANGED <<conf, life, io, connected, sbuf, rbuf, upstream, downstream, lvars>>
        /\ UNCHANGED <<proc, idle, spurious>>
    BY <1>1, Zenon DEF vars
  <2>. QED  BY <2>1, Waits, Zenon DEF Inv, TypeOK
<1>. QED  BY <1>1, LocalKept, TunnelKept, RedirKept, Zenon DEF Next

\* Every variable keeps its type.
THEOREM TypesHold == Spec => []TypeOK
<1>1. Inv => TypeOK  BY DEF Inv
<1>2. Inv /\ [Next]_<<vars, lvars>> => Inv'  BY StepKept DEF Kept
<1>. QED  BY <1>1, <1>2, Start, PTL DEF Spec

\* Whatever order the two sockets, the timers and a signal come in, and whether
\* writes are cut or not, server_t and remote_t are released as a pair, once,
\* with their links undone and their watchers stopped (close_and_free_remote,
\* close_and_free_server, free_connections).
THEOREM LifetimesHold == Spec => []Lifetimes
<1>1. Inv => Lifetimes
  <2>. SUFFICES ASSUME Inv PROVE Lifetimes
    OBVIOUS
  <2>1. life.toRemote = (life.remote = "live") /\ life.toServer = (life.remote = "live")
    BY Zenon DEF Inv, Links, Linked, TypeOK, Lives
  <2>2. io \subseteq Armed(life)
    <3>1. CASE Live /\ Linked
      BY <3>1, Zenon DEF Inv, TypeOK, Live, Linked, Armed
    <3>2. CASE ~(Live /\ Linked)
      BY <3>2, Zenon DEF Inv, Gone, Asking, Dialling, Relayed, Live, Armed, ServerWatchers
    <3>. QED  BY <3>1, <3>2, Zenon
  <2>. QED  BY <2>1, <2>2, Zenon DEF Inv, Links, Linked, Live, Lifetimes
<1>2. Inv /\ [Next]_<<vars, lvars>> => Inv'  BY StepKept DEF Kept
<1>. QED  BY <1>1, <1>2, Start, PTL DEF Spec

\* No connection waits for nothing, unless the first write of ss-redir is cut:
\* its remote_send_cb has stopped both watchers of that direction by then.
THEOREM NoStallHolds ==
    ASSUME \A o \in Options : o.prog = "redir" => o.whole
    PROVE  Spec => []NoStall
<1>1. Inv => NoStall
  <2>. SUFFICES ASSUME Inv PROVE NoStall
    OBVIOUS
  <2>1. Steady  BY Zenon DEF Steady, Inv, TypeOK
  <2>2. ASSUME Linked, connected
        PROVE  /\ ("srvRecv" \in io) # ("remSend" \in io)
               /\ ("remRecv" \in io) # ("srvSend" \in io)
               /\ "remSend" \in io => rbuf.len > 0
               /\ "srvSend" \in io => sbuf.len > 0
    BY <2>1, <2>2, WatcherPhase, Zenon DEF Relayed, GivenBack
  <2>3. ASSUME Linked, ~connected
        PROVE  /\ "remSend" \in io /\ ("connTimer" \in io \/ opt.fast_open)
               /\ "srvRecv" \in io => opt.prog = "redir" /\ rbuf.len = 0
    BY <2>3, WatcherPhase, Zenon DEF Dialling
  <2>. QED  BY <2>2, <2>3, Zenon DEF NoStall, Relaying, Linked
<1>2. Inv /\ [Next]_<<vars, lvars>> => Inv'  BY StepKept DEF Kept
<1>. QED  BY <1>1, <1>2, Start, PTL DEF Spec

\* The application is given exactly what ss-server sent, decrypted, in order and
\* without the IV (remote_recv_cb, server_send_cb).
THEOREM DownstreamExactHolds == Spec => []DownstreamExact
<1>1. Inv => DownstreamExact
  <2>. SUFFICES ASSUME Inv, Linked PROVE down.good /\ Plain = down.n + Waiting("srvSend", sbuf)
    BY Zenon DEF DownstreamExact, Linked
  <2>1. CASE Relayed  BY <2>1, Zenon DEF Inv, Relayed, GivenBack
  <2>2. CASE Dialling
    BY <2>2 DEF Inv, Dialling, NothingBack, NoBytes, Plain, Waiting
  <2>. QED  BY <2>1, <2>2, WatcherPhase, Zenon DEF Inv, TypeOK
<1>2. Inv /\ [Next]_<<vars, lvars>> => Inv'  BY StepKept DEF Kept
<1>. QED  BY <1>1, <1>2, Start, PTL DEF Spec

\* Every step of the connection is a step of the pipe ByteRelay specifies, from
\* ss-server to the application.
THEOREM DownstreamRelays == Spec => DownstreamRelay
<1>1. Init => Downstream!Init
  BY DEF Init, Fresh, NoLife, NoBytes, Plain, Downstream!Init
<1>2. Inv /\ [Next]_<<vars, lvars>> => Inv' /\ [Downstream!Next]_(Downstream!pvars)
  BY StepKept DEF Kept, DownStep
<1>. QED  BY <1>1, <1>2, Start, PTL DEF Spec, DownstreamRelay, Downstream!Spec

\* First writes are taken whole, and no application sends payload together with
\* its SOCKS5 request when one-time authentication is on.
CarefulOptions == \A o \in Options : o.whole /\ ~(o.auth /\ o.pipelined)

\* ss-server is given the IV once, the header behind it, then exactly what the
\* application sent, framed chunk by chunk (server_recv_cb, remote_send_cb).
THEOREM UpstreamExactHolds ==
    ASSUME CarefulOptions
    PROVE  Spec => []UpstreamExact
<1>1. Inv => UpstreamExact
  <2>. SUFFICES ASSUME Inv, Linked, connected
                PROVE  /\ up.good /\ made = up.n + Waiting("remSend", rbuf)
                       /\ header = HeaderPlace /\ made = got + Framing
    BY Zenon DEF UpstreamExact, Linked, HeaderPlace, Framing
  <2>1. Careful  BY Zenon DEF Careful, CarefulOptions, Inv, TypeOK
  <2>. QED  BY <2>1, WatcherPhase, Zenon DEF Inv, Relayed, GivenUp
<1>2. Inv /\ [Next]_<<vars, lvars>> => Inv'  BY StepKept DEF Kept
<1>. QED  BY <1>1, <1>2, Start, PTL DEF Spec

\* Every step of the connection is a step of the same pipe, from the application
\* to ss-server: remote->buf is not refilled before it is written out.
THEOREM UpstreamRelays ==
    ASSUME CarefulOptions
    PROVE  Spec => UpstreamRelay
<1>1. Init => Upstream!Init
  BY DEF Init, Fresh, NoLife, NoBytes, Upstream!Init
<1>2. Inv /\ [Next]_<<vars, lvars>> => Inv' /\ [Upstream!Next]_(Upstream!pvars)
  <2>. SUFFICES ASSUME Inv, [Next]_<<vars, lvars>> PROVE Inv' /\ UpStep
    BY DEF UpStep
  <2>1. Careful  BY Zenon DEF Careful, CarefulOptions, Inv, TypeOK
  <2>. QED  BY <2>1, StepKept DEF Kept
<1>. QED  BY <1>1, <1>2, Start, PTL DEF Spec, UpstreamRelay, Upstream!Spec
=============================================================================
