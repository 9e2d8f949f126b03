------------------------- MODULE ClientRelay_proofs -------------------------
(***************************************************************************)
(* Proofs about a connection of ss-local, ss-tunnel and ss-redir, for      *)
(* every size of the buffers, the streams and the headers and every set of *)
(* options.                                                                *)
(*                                                                         *)
(* A connection goes through phases: it is being asked for (the SOCKS5     *)
(* stages of ss-local), ss-server is being dialled, bytes are relayed, it  *)
(* is gone.  The inductive invariant says what holds in each, and every    *)
(* callback is shown to lead from the phases it can run in to a phase.     *)
(* This module has the invariant and the callbacks the programs share;     *)
(* TcpClients_proofs has those in which they differ, and the theorems.     *)
(***************************************************************************)
EXTENDS TcpClients, TLAPS

\* The leaves are for the SMT solver, unless they cite another prover.
USE SMTT(60)

-----------------------------------------------------------------------------
(* The inductive invariant.                                                *)

Live == life.server = "live"
Linked == life.remote = "live"

\* The pair of objects, without their watchers.
Links ==
    /\ ~life.uaf
    /\ life.toRemote <=> Linked
    /\ life.toServer <=> Linked
    /\ Linked => Live

\* ss-redir stops both watchers of the upstream direction when its first write
\* is cut, and starts neither.
Steady == opt.prog = "redir" => opt.whole

\* What else the upstream direction relies on: first writes are taken whole, and
\* authenticated payload does not come together with the SOCKS5 request.
Careful == opt.whole /\ ~(opt.auth /\ opt.pipelined)

\* Bytes that are sent to ss-server besides the payload.
Framing == IF direct THEN 0 ELSE IvLen + HdrLen + counter * AUTH_BYTES
HeaderPlace == IF direct THEN None ELSE IvLen

NothingUp == got = 0 /\ counter = 0 /\ made = 0 /\ header = None /\ up = NoBytes /\ rbuf = Empty
NothingBack == dgot = 0 /\ ~dinit /\ down = NoBytes

Gone == ~Live /\ ~Linked /\ io = {}

Asking ==
    /\ opt.prog = "local" /\ stage \in {0, 1}
    /\ Live /\ ~Linked /\ ~connected
    /\ io = {"srvRecv"}
    /\ NothingUp /\ NothingBack

Dialling ==
    /\ opt.prog = "local" => stage = 5
    /\ Live /\ Linked /\ ~connected
    /\ "remSend" \in io /\ io \subseteq {"remSend", "srvRecv", "connTimer"}
    /\ "connTimer" \in io \/ opt.fast_open
    /\ "srvRecv" \in io => opt.prog = "redir" /\ got = 0 /\ counter = 0 /\ rbuf.len = 0
    /\ NothingBack /\ up = NoBytes
    /\ rbuf.base = 0 /\ rbuf.idx = 0
    /\ opt.prog # "local" => ~direct /\ made = 0
    /\ opt.prog = "tunnel" => got = 0 /\ counter = 0
    /\ opt.prog = "redir" => rbuf.len = got + counter * AUTH_BYTES
    /\ opt.prog = "local" =>
        /\ made = rbuf.len /\ header = HeaderPlace
        /\ Careful => made = got + Framing

\* server->buf and what the application was given.
GivenBack ==
    /\ "remRecv" \in io <=> "srvSend" \notin io
    /\ "srvSend" \in io => sbuf.len > 0 /\ sbuf.base + sbuf.idx = down.n
    /\ direct => ~dinit
    /\ ~direct /\ ~dinit => dgot = 0
    /\ dinit => dgot >= IvLen
    /\ Plain = down.n + Waiting("srvSend", sbuf)

\* remote->buf and what ss-server was given.
GivenUp ==
    /\ "remSend" \in io => rbuf.base + rbuf.idx = up.n
    /\ made = up.n + Waiting("remSend", rbuf)
    /\ header = HeaderPlace
    /\ made = got + Framing

Relayed ==
    /\ opt.prog = "local" => stage = 5
    /\ opt.prog # "local" => ~direct
    /\ Live /\ Linked /\ connected
    /\ "srvRecv" \in io => "remSend" \notin io
    /\ "remSend" \in io => rbuf.len > 0
    /\ Steady => "srvRecv" \in io \/ "remSend" \in io
    /\ GivenBack
    /\ Careful => GivenUp

Inv ==
    /\ TypeOK /\ Links
    /\ down.good /\ (Careful => up.good)
    /\ fast_open => opt.fast_open
    /\ Gone \/ Asking \/ Dialling \/ Relayed
-----------------------------------------------------------------------------
(* Releasing the objects.                                                  *)

\* Using an object that exists changes nothing.
LEMMA UseLive ==
    ASSUME TypeOK, Links
    PROVE  /\ Linked => use_remote(life) = life
           /\ Live => use_server(life) = life
BY DEF TypeOK, Lives, Links, Linked, Live, use_remote, use_server

\* close_and_free_remote, then close_and_free_server, release everything.
LEMMA ClosePair ==
    ASSUME NEW l \in Lives, ~l.uaf, l.server = "live",
           l.toRemote <=> l.remote = "live", l.toServer <=> l.remote = "live", CloseBoth(l)
    PROVE  life' \in Lives /\ Links' /\ Gone'
<1>. DEFINE m == IF l.toRemote THEN close_and_free_remote(l) ELSE l
<1>1. /\ m \in Lives /\ m.server = "live" /\ m.remote # "live"
      /\ m.toRemote = FALSE /\ m.toServer = FALSE /\ m.uaf = FALSE
  <2>1. CASE l.toRemote
    BY <2>1, Zenon DEF Lives, close_and_free_remote
  <2>2. CASE ~l.toRemote
    BY <2>2 DEF Lives
  <2>. QED  BY <2>1, <2>2, Zenon
<1>2. life' = close_and_free_server(m) /\ io' = io \cap Armed(life')
  BY DEF CloseBoth
<1>. HIDE DEF m
<1>3. /\ life' \in Lives /\ life'.server = "freed" /\ life'.remote # "live"
      /\ life'.toRemote = FALSE /\ life'.toServer = FALSE /\ life'.uaf = FALSE
  BY <1>1, <1>2, Zenon DEF Lives, close_and_free_server
<1>4. io' = {}
  BY <1>2, <1>3 DEF Armed
<1>. QED  BY <1>3, <1>4 DEF Links, Linked, Live, Gone

\* So they do with the objects as they are ...
LEMMA CloseBothCloses ==
    ASSUME TypeOK, Links, Live, CloseBoth(life)
    PROVE  life' \in Lives /\ Links' /\ Gone'
BY ClosePair DEF TypeOK, Links, Linked, Live

\* ... and with a remote_t that was just made.
LEMMA CloseNewCloses ==
    ASSUME TypeOK, Links, Live, ~Linked, CloseBoth(link_remote(life))
    PROVE  life' \in Lives /\ Links' /\ Gone'
<1>. DEFINE l == link_remote(life)
<1>1. l \in Lives /\ ~l.uaf /\ l.server = "live" /\ l.remote = "live" /\ l.toRemote /\ l.toServer
  BY Zenon DEF TypeOK, Lives, Links, Live, link_remote
<1>. HIDE DEF l
<1>2. CloseBoth(l)
  BY DEF l
<1>. QED  BY <1>1, <1>2, ClosePair

\* The phase a watcher tells.
LEMMA WatcherPhase ==
    ASSUME Inv
    PROVE  /\ io # {} => Live
           /\ "remRecv" \in io => Relayed
           /\ "srvSend" \in io => Relayed
           /\ "remSend" \in io => Dialling \/ Relayed
           /\ io \cap Timers # {} => Dialling \/ Relayed
           /\ connected /\ Linked => Relayed
           /\ ~connected /\ Linked => Dialling
           /\ Live /\ ~Linked => Asking
           /\ Relayed \/ Dialling => Linked
BY Zenon DEF Inv, Gone, Asking, Dialling, Relayed, Links, Linked, Live, Timers

-----------------------------------------------------------------------------
(* The two pipes.  What a step does to one of them, in the words of        *)
(* ByteRelay.                                                              *)

UpStep == [Upstream!Next]_(Upstream!pvars)
DownStep == [Downstream!Next]_(Downstream!pvars)

\* Nothing moves upstream.
LEMMA UpSame ==
    ASSUME Linked' <=> Linked, made' = made, up' = up
    PROVE  UpStep
BY DEF UpStep, Linked, Upstream!pvars

\* The slot of a connection that was never linked is cleared.
LEMMA UpCleared ==
    ASSUME ~Linked, ~Linked', made' = 0, up' = NoBytes
    PROVE  UpStep
BY DEF UpStep, Linked, NoBytes, Upstream!Next, Upstream!Open

\* A remote_t is made, and may be given bytes at once.
LEMMA UpOpens ==
    ASSUME ~Linked, Linked', made' \in Nat, up' \in Sinks, up'.good, up'.n <= made'
    PROVE  UpStep
BY DEF UpStep, Linked, Sinks, Upstream!Next, Upstream!Open

\* server_recv_cb makes bytes when everything made before is written.
LEMMA UpTakes ==
    ASSUME Linked, Linked', made \in Nat, made' \in Nat, up \in Sinks, up' \in Sinks,
           up.good, up'.good, up.n = made, made < made', made <= up'.n, up'.n <= made'
    PROVE  UpStep
BY DEF UpStep, Linked, Sinks, Upstream!Next, Upstream!Take

\* remote_send_cb writes some of what waits in remote->buf.
LEMMA UpGives ==
    ASSUME Linked, Linked', made \in Nat, made' = made, up \in Sinks, up' \in Sinks,
           up.good, up'.good, up.n <= up'.n, up'.n <= made
    PROVE  UpStep
BY DEF UpStep, Linked, Sinks, Upstream!Next, Upstream!Give

\* The remote_t is released.
LEMMA UpCloses ==
    ASSUME Linked, ~Linked', made \in Nat, made' = made, up' = up
    PROVE  UpStep
BY DEF UpStep, Linked, Upstream!Next, Upstream!Close

\* Nothing moves downstream.
LEMMA DownSame ==
    ASSUME Linked' <=> Linked, Plain' = Plain, down' = down
    PROVE  DownStep
BY DEF DownStep, Linked, Downstream!pvars

\* The slot of a connection that was never linked is cleared.
LEMMA DownCleared ==
    ASSUME ~Linked, ~Linked', Plain' = 0, down' = NoBytes
    PROVE  DownStep
BY DEF DownStep, Linked, NoBytes, Downstream!Next, Downstream!Open

\* A remote_t is made, and nothing has come back yet.
LEMMA DownOpens ==
    ASSUME ~Linked, Linked', Plain' = 0, down' = NoBytes
    PROVE  DownStep
BY DEF DownStep, Linked, NoBytes, Downstream!Next, Downstream!Open

\* remote_recv_cb takes bytes when everything before them is written.
LEMMA DownTakes ==
    ASSUME Linked, Linked', Plain \in Nat, Plain' \in Nat, down \in Sinks, down' \in Sinks,
           down.good, down'.good, down.n = Plain, Plain < Plain', Plain <= down'.n,
           down'.n <= Plain'
    PROVE  DownStep
BY DEF DownStep, Linked, Sinks, Downstream!Next, Downstream!Take

\* server_send_cb writes some of what waits in server->buf.
LEMMA DownGives ==
    ASSUME Linked, Linked', Plain \in Nat, Plain' = Plain, down \in Sinks, down' \in Sinks,
           down.good, down'.good, down.n <= down'.n, down'.n <= Plain
    PROVE  DownStep
BY DEF DownStep, Linked, Sinks, Downstream!Next, Downstream!Give

\* The remote_t is released; remote_recv_cb may have received by then.
LEMMA DownCloses ==
    ASSUME Linked, ~Linked', Plain \in Nat, Plain' \in Nat, down \in Sinks, down.good, down' = down,
           Plain' = Plain \/ (Plain < Plain' /\ down.n = Plain)
    PROVE  DownStep
BY DEF DownStep, Linked, Sinks, Downstream!Next, Downstream!Close
-----------------------------------------------------------------------------
(* The callbacks the three programs share.                                 *)

\* The types of what is not an object or a watcher.
Data ==
    /\ opt \in Options
    /\ proc \in {"running", "stopped", "aborted"}
    /\ direct \in BOOLEAN /\ connected \in BOOLEAN /\ dinit \in BOOLEAN
    /\ sbuf \in Buffers /\ rbuf \in Buffers
    /\ {got, counter, made, dgot, idle, spurious} \subseteq Nat
    /\ header \in Nat \cup {None}
    /\ up \in Sinks /\ down \in Sinks

\* What is shown of every step.
Kept == Inv' /\ DownStep /\ (Careful => UpStep)

\* Payload is counted from 0 on, and is not counted down.
LEMMA PlainType ==
    ASSUME Inv
    PROVE  Linked => Plain \in Nat
BY SizesAssumption DEF Inv, TypeOK, Dialling, Relayed, GivenBack, NothingBack, Gone, Asking, Plain,
   Linked

\* A callback that releases everything.
LEMMA Released ==
    ASSUME Inv, life' \in Lives, Links', Gone', Data', opt' = opt, fast_open' => fast_open,
           made' = made, up' = up, direct' = direct, down' = down, dinit' = dinit,
           dgot' = dgot \/ (dgot < dgot' /\ "remRecv" \in io)
    PROVE  Kept
<1>1. life' \in Lives /\ Links' /\ Gone'
  OBVIOUS
<1>2. Inv'
  BY <1>1, Zenon DEF Inv, TypeOK, Data, Careful, Gone
<1>3. Careful => UpStep
  BY <1>1, UpSame, UpCloses, Zenon DEF Inv, TypeOK, Gone
<1>4. DownStep
  <2>1. CASE dgot' = dgot
    <3>1. Plain' = Plain  BY <2>1 DEF Plain
    <3>2. CASE Linked
      BY <1>1, <3>1, <3>2, DownCloses, PlainType, Zenon DEF Inv, TypeOK, Gone
    <3>3. CASE ~Linked
      BY <1>1, <3>1, <3>3, DownSame DEF Gone
    <3>. QED  BY <3>2, <3>3
  <2>2. CASE dgot < dgot' /\ "remRecv" \in io
    <3>1. Relayed  BY <2>2, WatcherPhase
    <3>2. Linked /\ down.n = Plain
      BY <2>2, <3>1, PlainType, SizesAssumption DEF Relayed, GivenBack, Waiting, Inv, TypeOK, Sinks
    <3>3. Plain' = Plain \/ Plain < Plain'
      BY <2>2, <3>1, SizesAssumption DEF Plain, Inv, TypeOK, Data
    <3>4. Plain' \in Nat
      BY <3>2, <3>3, <2>2, PlainType, SizesAssumption DEF Plain, Inv, TypeOK, Data
    <3>. QED  BY <1>1, <3>2, <3>3, <3>4, PlainType, DownCloses, Zenon DEF Inv, TypeOK, Gone
  <2>. QED  BY <2>1, <2>2
<1>. QED  BY <1>2, <1>3, <1>4 DEF Kept

\* A callback that closes the connection.
LEMMA Closing ==
    ASSUME Inv, Live, CloseBoth(life), Data', opt' = opt, fast_open' => fast_open,
           made' = made, up' = up, direct' = direct, down' = down, dinit' = dinit,
           dgot' = dgot \/ (dgot < dgot' /\ "remRecv" \in io)
    PROVE  Kept
<1>1. life' \in Lives /\ Links' /\ Gone'
  BY CloseBothCloses DEF Inv
<1>. QED  BY <1>1, Released
-----------------------------------------------------------------------------
(* Arithmetic of what is sent.                                             *)

\* send() accepts at most what it is given, and all of it only if it says so.
LEMMA SentBytes ==
    ASSUME NEW len \in Nat, NEW s \in SendResults(len)
    PROVE  Sent(s) \in 0..len /\ (s = len <=> Sent(s) = len)
BY DEF SendResults, Sent, Again

\* The authentication bytes of one chunk more.
LEMMA OneMore ==
    ASSUME NEW c \in Nat, NEW a \in Nat
    PROVE  c * a \in Nat /\ (c + 1) * a = c * a + a
OBVIOUS

\* A callback that only looks, or ends the process.
LEMMA Waits ==
    ASSUME Inv, UNCHANGED <<conf, life, io, connected, sbuf, rbuf, upstream, downstream, lvars>>,
           proc' \in {"running", "stopped", "aborted"}, idle' \in Nat, spurious' \in Nat
    PROVE  Kept
<1>1. UpStep  BY UpSame DEF upstream, Linked
<1>2. DownStep  BY DownSame DEF downstream, conf, Linked, Plain
<1>3. TypeOK'  BY Zenon DEF Inv, TypeOK, conf, upstream, downstream
<1>4. Links' /\ down'.good /\ (Careful' => up'.good) /\ (fast_open' => opt'.fast_open)
  BY Zenon DEF Inv, Links, Linked, Live, Careful, conf, upstream, downstream, lvars
<1>5. (Gone \/ Asking \/ Dialling \/ Relayed)'
  <2>1. CASE Gone  BY <2>1 DEF Gone, Live, Linked
  <2>2. CASE Asking  BY <2>2, Zenon DEF Asking, Live, Linked, NothingUp, NothingBack, conf, upstream, downstream, lvars
  <2>3. CASE Dialling
    BY <2>3, Zenon DEF Dialling, Live, Linked, NothingBack, HeaderPlace, Careful, Framing, conf, upstream, downstream, lvars
  <2>4. CASE Relayed
    BY <2>4, Zenon DEF Relayed, Live, Linked, GivenBack, GivenUp, Waiting, Plain, HeaderPlace, Framing, Steady, Careful,
                conf, upstream, downstream, lvars
  <2>. QED  BY <2>1, <2>2, <2>3, <2>4, Zenon DEF Inv
<1>. QED  BY <1>1, <1>2, <1>3, <1>4, <1>5 DEF Kept, Inv

\* A receive that finds nothing, and the clock.
LEMMA LookersKept ==
    ASSUME Inv, UNCHANGED lvars, ReadAgain \/ Tick
    PROVE  Kept
<1>1. idle' \in Nat /\ spurious' \in Nat /\ proc' \in {"running", "stopped", "aborted"}
  BY DEF ReadAgain, Tick, Inv, TypeOK
<1>2. UNCHANGED <<conf, life, io, connected, sbuf, rbuf, upstream, downstream, lvars>>
  BY DEF ReadAgain, Tick
<1>. QED  BY <1>1, <1>2, Waits
-----------------------------------------------------------------------------
(* Upstream, once ss-server is connected.                                  *)

\* server_recv_cb gives b, bytes that were just received, to ss-server.
LEMMA Passing ==
    ASSUME Inv, Relayed, "srvRecv" \in io, NEW b \in Buffers, b.base = made, b.len > 0, Pass(b),
           got' \in Nat, counter' \in Nat, UNCHANGED <<conf, life, connected, sbuf, header, downstream, lvars>>,
           proc' \in {"running", "stopped", "aborted"}, idle' \in Nat, spurious' \in Nat,
           Careful => made' = got' + Framing'
    PROVE  Kept
<1>1. PICK s \in SendResults(b.len) :
        /\ up' = Write(up, b.base, Sent(s))
        /\ IF s = b.len THEN rbuf' = b /\ UNCHANGED io ELSE rbuf' = Unsent(b, Sent(s)) /\ io' = AwaitWrite(io)
  BY Zenon DEF Pass
<1>2. b = [base |-> b.base, idx |-> b.idx, len |-> b.len] /\ b.base \in Nat /\ b.idx \in Nat /\ b.len \in Nat
  BY Zenon DEF Buffers
<1>3. Sent(s) \in 0..b.len /\ (s = b.len <=> Sent(s) = b.len)
  BY <1>2, SentBytes, Zenon
<1>4. made' = made + b.len /\ made \in Nat /\ made' \in Nat
  BY <1>2 DEF Pass, Inv, TypeOK
<1>5. /\ up' \in Sinks /\ up'.n = up.n + Sent(s)
      /\ rbuf' \in Buffers /\ rbuf'.base = b.base /\ io' \subseteq io \cup {"remSend"}
  BY <1>1, <1>2, <1>3 DEF Write, Sinks, Inv, TypeOK, Unsent, Buffers, AwaitWrite
<1>6. TypeOK'
  BY <1>4, <1>5, ZenonT(30) DEF Inv, TypeOK, conf, downstream, ServerWatchers, RemoteWatchers
<1>7. Careful => up.good /\ up.n = made /\ GivenUp
  BY DEF Relayed, GivenUp, Inv, TypeOK, Sinks, Waiting
<1>8. Careful => up'.good
  BY <1>1, <1>2, <1>7, Zenon DEF Write
<1>9. Careful => UpStep
  <2>1. Linked /\ Linked' /\ up \in Sinks
    BY Zenon DEF Relayed, Linked, Inv, TypeOK
  <2>2. Careful => made < made' /\ made <= up'.n /\ up'.n <= made'
    BY <1>2, <1>3, <1>4, <1>5, <1>7
  <2>. QED  BY <1>4, <1>5, <1>7, <1>8, <2>1, <2>2, UpTakes, Zenon
<1>10. DownStep
  BY DownSame, Zenon DEF downstream, conf, Linked, Plain
<1>11. Links' /\ Live' /\ Linked'
  BY Zenon DEF Inv, Links, Relayed, Live, Linked
<1>12. Careful' => GivenUp'
  <2>1. ("remSend" \in io') <=> s # b.len
    BY <1>1, Zenon DEF Relayed, AwaitWrite
  <2>2. Careful => up'.n = made + Sent(s)
    BY <1>5, <1>7, Zenon
  <2>3. s # b.len => rbuf'.idx = Sent(s) /\ rbuf'.len = b.len - Sent(s)
    BY <1>1 DEF Unsent
  <2>4. HeaderPlace' = HeaderPlace  BY DEF HeaderPlace, conf
  <2>5. Careful <=> Careful'  BY DEF Careful, conf
  <2>. QED  BY <1>2, <1>3, <1>4, <1>5, <1>7, <2>1, <2>2, <2>3, <2>4, <2>5 DEF GivenUp, Waiting
<1>13. GivenBack'
  <2>1. /\ "remRecv" \in io' <=> "remRecv" \in io
        /\ "srvSend" \in io' <=> "srvSend" \in io
    BY <1>1 DEF AwaitWrite
  <2>. QED  BY <2>1, Zenon DEF Relayed, GivenBack, Waiting, Plain, downstream, conf
<1>14. Relayed'
  <2>1. /\ "srvRecv" \in io' => "remSend" \notin io'
        /\ "remSend" \in io' => rbuf'.len > 0
        /\ "srvRecv" \in io' \/ "remSend" \in io'
    BY <1>1, <1>2, <1>3 DEF AwaitWrite, Unsent, Relayed
  <2>. QED  BY <1>11, <1>12, <1>13, <2>1, ZenonT(30) DEF Relayed, conf, lvars
<1>. QED  BY <1>6, <1>8, <1>9, <1>10, <1>11, <1>14, Zenon DEF Kept, Inv, Careful, conf, downstream, lvars

\* server_recv_cb of a proxied connection: frame, encrypt and send.
LEMMA RelayKept ==
    ASSUME Inv, Relayed, ~direct, Relay, UNCHANGED lvars
    PROVE  Kept
<1>1. PICK n \in 1..UpLen : Read(n) /\ Pass(Encrypted(Chunk(n)))
  BY DEF Relay
<1>2. life' = life
  BY UseLive, Zenon DEF Relay, Inv, Relayed
<1>3. n \in Nat /\ n > 0 /\ Chunk(n) \in Nat /\ Chunk(n) > 0
  BY SizesAssumption DEF Chunk
<1>4. Encrypted(Chunk(n)) \in Buffers /\ Encrypted(Chunk(n)).base = made /\ Encrypted(Chunk(n)).len > 0
  BY <1>3, SizesAssumption DEF Encrypted, Inv, TypeOK, Buffers
<1>5. got' = got + n /\ got' \in Nat /\ counter' \in Nat
  BY <1>1, <1>3 DEF Read, Relay, NextCounter, Inv, TypeOK
<1>6. Careful => made' = got' + Framing'
  <2>. SUFFICES ASSUME Careful PROVE made' = got' + Framing'
    OBVIOUS
  <2>1. counter \in Nat /\ AUTH_BYTES \in Nat /\ counter * AUTH_BYTES \in Nat
        /\ (counter + 1) * AUTH_BYTES = counter * AUTH_BYTES + AUTH_BYTES
    BY SizesAssumption, OneMore, ZenonT(30) DEF Inv, TypeOK
  <2>2. made = got + IvLen + HdrLen + counter * AUTH_BYTES
    BY <2>1, SizesAssumption DEF Relayed, GivenUp, Framing, Inv, TypeOK
  <2>3. made' = made + Chunk(n)
    BY <1>1, <2>1, <2>2, SizesAssumption DEF Pass, Encrypted, Inv, TypeOK
  <2>4. CASE opt.auth
    <3>1. counter' = counter + 1 /\ Chunk(n) = AUTH_BYTES + n
      BY <2>4, Zenon DEF Relay, NextCounter, Chunk
    <3>2. Framing' = IvLen + HdrLen + counter * AUTH_BYTES + AUTH_BYTES
      BY <3>1, <2>1, SizesAssumption DEF Framing, Relay, conf
    <3>. QED  BY <1>3, <1>5, <2>1, <2>2, <2>3, <3>1, <3>2, SizesAssumption DEF Inv, TypeOK
  <2>5. CASE ~opt.auth
    <3>1. counter' = counter /\ Chunk(n) = n
      BY <2>5, Zenon DEF Relay, NextCounter, Chunk
    <3>2. Framing' = IvLen + HdrLen + counter * AUTH_BYTES
      BY <3>1, <2>1, SizesAssumption, Zenon DEF Framing, Relay, conf
    <3>. QED  BY <1>3, <1>5, <2>1, <2>2, <2>3, <3>1, <3>2, SizesAssumption DEF Inv, TypeOK
  <2>. QED  BY <2>4, <2>5
<1>7. "srvRecv" \in io  BY <1>1 DEF Read
<1>. QED  BY <1>1, <1>2, <1>4, <1>5, <1>6, <1>7, Passing, ZenonT(30) DEF Relay, Inv, TypeOK

\* A buffer that is written out keeps its place in the stream.
LEMMA Emptied ==
    ASSUME NEW b \in Buffers
    PROVE  [b EXCEPT !.idx = 0, !.len = 0] \in Buffers /\ [b EXCEPT !.idx = 0, !.len = 0].base = b.base
BY Zenon DEF Buffers

\* The tail of remote_send_cb: b is what is left to send, w the watchers by then.
LEMMA Flushing ==
    ASSUME Inv, NEW w, NEW b \in Buffers, NEW results, b.len > 0, FlushTo(w, b, results),
           \A s \in results : Sent(s) \in 0..b.len /\ (s = b.len <=> Sent(s) = b.len),
           \/ Relayed /\ w = io
           \/ Dialling /\ "remRecv" \in w /\ "srvSend" \notin w,
           w \subseteq ServerWatchers \cup RemoteWatchers, "srvRecv" \notin w,
           "remSend" \in w \/ (opt.prog = "redir" /\ (opt.whole => results = {b.len})),
           connected', UNCHANGED <<conf, proc, sbuf, downstream, spurious, lvars>>,
           {got', counter', made', idle'} \subseteq Nat, header' \in Nat \cup {None},
           Careful => /\ b.base + b.idx = up.n /\ made' = up.n + b.len
                      /\ header' = HeaderPlace /\ made' = got' + Framing'
                      /\ made' = made \/ (made = up.n /\ made < made')
    PROVE  Kept
<1>1. Linked /\ Live
  BY Zenon DEF Relayed, Dialling
<1>2. PICK s \in results :
        /\ life' = use_server(life)
        /\ up' = Write(up, b.base + b.idx, Sent(s))
        /\ IF s = b.len THEN rbuf' = [b EXCEPT !.idx = 0, !.len = 0] /\ io' = (w \ {"remSend"}) \cup {"srvRecv"}
           ELSE rbuf' = Consume(b, Sent(s)) /\ io' = w
  BY Zenon DEF FlushTo
<1>3. life' = life
  BY <1>1, <1>2, UseLive, Zenon DEF Inv
<1>4. b = [base |-> b.base, idx |-> b.idx, len |-> b.len] /\ b.base \in Nat /\ b.idx \in Nat /\ b.len \in Nat
  BY Zenon DEF Buffers
<1>5. Sent(s) \in 0..b.len /\ (s = b.len <=> Sent(s) = b.len)
  BY Zenon
<1>6. /\ up' \in Sinks /\ up'.n = up.n + Sent(s) /\ up.n \in Nat /\ up \in Sinks
      /\ rbuf' \in Buffers /\ rbuf'.base = b.base /\ io' \subseteq w \cup {"srvRecv"}
  <2>1. up' \in Sinks /\ up'.n = up.n + Sent(s) /\ up.n \in Nat /\ up \in Sinks
    BY <1>2, <1>4, <1>5 DEF Write, Sinks, Inv, TypeOK
  <2>2. rbuf' \in Buffers /\ rbuf'.base = b.base
    <3>1. CASE s = b.len
      <4>1. rbuf' = [b EXCEPT !.idx = 0, !.len = 0]  BY <1>2, <3>1
      <4>. QED  BY <4>1, Emptied, Zenon
    <3>2. CASE s # b.len  BY <1>2, <1>4, <1>5, <3>2 DEF Consume, Buffers
    <3>. QED  BY <3>1, <3>2, Zenon
  <2>3. io' \subseteq w \cup {"srvRecv"}
    BY <1>2
  <2>. QED  BY <2>1, <2>2, <2>3, ZenonT(30)
<1>7. TypeOK'
  BY <1>3, <1>6 DEF Inv, TypeOK, conf, downstream, ServerWatchers, RemoteWatchers
<1>8. Careful => up.good /\ up'.good
  BY <1>2, <1>4, Zenon DEF Write, Inv
<1>9. Careful => UpStep
  <2>1. Linked /\ Linked' /\ made \in Nat /\ made' \in Nat
    BY <1>1, <1>3, Zenon DEF Linked, Inv, TypeOK
  <2>2. Careful => up.n <= up'.n /\ up'.n <= made'
    BY <1>4, <1>5, <1>6
  <2>3. CASE made' = made
    BY <1>6, <1>8, <2>1, <2>2, <2>3, UpGives, Zenon
  <2>4. CASE made = up.n /\ made < made'
    BY <1>6, <1>8, <2>1, <2>2, <2>4, UpTakes, Zenon
  <2>. QED  BY <2>3, <2>4, Zenon
<1>10. DownStep
  BY <1>3, DownSame, Zenon DEF downstream, conf, Linked, Plain
<1>11. Links' /\ Live' /\ Linked'
  BY <1>1, <1>3, Zenon DEF Inv, Links, Live, Linked
<1>12. /\ "remRecv" \in io' <=> "remRecv" \in w
       /\ "srvSend" \in io' <=> "srvSend" \in w
       /\ "remSend" \in io' <=> "remSend" \in w /\ s # b.len
       /\ "srvRecv" \in io' <=> s = b.len
  BY <1>2
<1>13. s # b.len => rbuf'.idx = b.idx + Sent(s) /\ rbuf'.len = b.len - Sent(s)
  BY <1>2 DEF Consume
<1>14. Careful' => GivenUp'
  <2>1. HeaderPlace' = HeaderPlace /\ (Careful <=> Careful')
    BY Zenon DEF HeaderPlace, Careful, conf
  <2>2. Careful => ("remSend" \notin io' => s = b.len)
    BY <1>12, Zenon DEF Careful
  <2>. QED  BY <1>4, <1>5, <1>6, <1>12, <1>13, <2>1, <2>2 DEF GivenUp, Waiting
<1>15. GivenBack'
  <2>1. CASE Relayed /\ w = io
    BY <1>12, <2>1, ZenonT(30) DEF Relayed, GivenBack, Waiting, Plain, downstream, conf
  <2>2. CASE Dialling /\ "remRecv" \in w /\ "srvSend" \notin w
    BY <1>12, <2>2 DEF Dialling, NothingBack, NoBytes, GivenBack, Waiting, Plain, downstream, conf
  <2>. QED  BY <2>1, <2>2, Zenon
<1>16. Relayed'
  <2>1. /\ "srvRecv" \in io' => "remSend" \notin io'
        /\ "remSend" \in io' => rbuf'.len > 0
    BY <1>4, <1>5, <1>12, <1>13
  <2>2. Steady' => "srvRecv" \in io' \/ "remSend" \in io'
    BY <1>12, Zenon DEF Steady, conf
  <2>3. /\ (opt.prog = "local" => stage = 5)'
        /\ (opt.prog # "local" => ~direct)'
    BY Zenon DEF Relayed, Dialling, conf, lvars
  <2>. QED  BY <1>11, <1>14, <1>15, <2>1, <2>2, <2>3, ZenonT(30) DEF Relayed
<1>. QED  BY <1>7, <1>8, <1>9, <1>10, <1>11, <1>16, Zenon DEF Kept, Inv, Careful, conf, downstream, lvars

\* remote_send_cb of a connection that is relayed; its buffer is not empty.
LEMMA FlushKept ==
    ASSUME Inv, Flush, UNCHANGED lvars
    PROVE  Kept
<1>1. Relayed
  BY WatcherPhase, Zenon DEF Flush, Dialling
<1>2. rbuf.len > 0 /\ rbuf \in Buffers /\ rbuf.len \in Nat
  BY <1>1, Zenon DEF Flush, Relayed, Inv, TypeOK, Buffers
<1>3. FlushTo(io, rbuf, SendResults(rbuf.len))
  BY <1>2 DEF Flush
<1>4. \A s \in SendResults(rbuf.len) : Sent(s) \in 0..rbuf.len /\ (s = rbuf.len <=> Sent(s) = rbuf.len)
  BY <1>2, SentBytes, Zenon
<1>5. Careful => /\ rbuf.base + rbuf.idx = up.n /\ made' = up.n + rbuf.len
                 /\ header' = HeaderPlace /\ made' = got' + Framing' /\ made' = made
  BY <1>1, Zenon DEF Flush, Relayed, GivenUp, Waiting, Framing, HeaderPlace, conf
<1>6. {got', counter', made', idle'} \subseteq Nat /\ header' \in Nat \cup {None}
  BY Zenon DEF Flush, Inv, TypeOK
<1>7. /\ io \subseteq ServerWatchers \cup RemoteWatchers /\ "srvRecv" \notin io /\ "remSend" \in io /\ connected'
      /\ UNCHANGED <<conf, proc, sbuf, downstream, spurious>>
  BY <1>1, Zenon DEF Flush, Relayed, Inv, TypeOK
<1>. QED  BY <1>1, <1>2, <1>3, <1>4, <1>5, <1>6, <1>7, Flushing, ZenonT(30)

\* server_recv_cb of a direct connection: send what was received.
LEMMA RelayDirectKept ==
    ASSUME Inv, Relayed, direct, UNCHANGED lvars,
           NEW n \in 1..UpLen, Read(n), Pass([base |-> made, idx |-> rbuf.idx, len |-> n]),
           life' = use_remote(life),
           UNCHANGED <<conf, proc, connected, sbuf, counter, header, downstream, idle, spurious>>
    PROVE  Kept
<1>. DEFINE b == [base |-> made, idx |-> rbuf.idx, len |-> n]
<1>1. life' = life
  BY UseLive, Zenon DEF Inv, Relayed
<1>2. n \in Nat /\ n > 0 /\ b \in Buffers /\ b.base = made /\ b.len = n
  BY SizesAssumption DEF Inv, TypeOK, Buffers
<1>3. got' = got + n /\ got' \in Nat /\ made' = made + n
  BY <1>2 DEF Read, Pass, Inv, TypeOK
<1>4. Careful => made' = got' + Framing'
  BY <1>2, <1>3 DEF Relayed, GivenUp, Framing, Inv, TypeOK, conf
<1>5. "srvRecv" \in io  BY Zenon DEF Read
<1>6. Pass(b) /\ b.len > 0  BY <1>2, Zenon
<1>. HIDE DEF b
<1>. QED  BY <1>1, <1>2, <1>3, <1>4, <1>5, <1>6, Passing, Zenon DEF Inv, TypeOK
-----------------------------------------------------------------------------
(* Downstream.                                                             *)

\* remote_recv_cb takes the IV off once, and what it has then is what comes next.
LEMMA DecryptedNext ==
    ASSUME Inv, Relayed, "remRecv" \in io, NEW r \in 1..BUF_SIZE, ~CutIV(r), dgot' = dgot + r,
           dinit' = (dinit \/ ~direct), direct' = direct
    PROVE  /\ Decrypted(r) \in Buffers /\ Decrypted(r).idx = sbuf.idx
           /\ Decrypted(r).base = Plain /\ Plain' = Plain + Decrypted(r).len
           /\ Plain \in Nat /\ down.n = Plain
           /\ dgot' \in Nat /\ dinit' \in BOOLEAN
           /\ (direct => ~dinit') /\ (~direct => dinit') /\ (dinit' => dgot' >= IvLen)
<1>1. /\ r \in Nat /\ r > 0 /\ dgot \in Nat /\ sbuf.idx \in Nat /\ direct \in BOOLEAN /\ dinit \in BOOLEAN
      /\ IvLen \in Nat /\ down.n \in Nat
  BY SizesAssumption DEF Inv, TypeOK, Buffers, Sinks
<1>2. /\ direct => ~dinit
      /\ ~direct /\ ~dinit => dgot = 0
      /\ dinit => dgot >= IvLen
      /\ Plain = down.n
  BY <1>1 DEF Relayed, GivenBack, Waiting
<1>3. CASE direct
  BY <1>1, <1>2, <1>3 DEF Decrypted, Buffers, Plain
<1>4. CASE ~direct /\ dinit
  <2>1. Decrypted(r) = [base |-> dgot - IvLen, idx |-> sbuf.idx, len |-> r]
    BY <1>4, Zenon DEF Decrypted
  <2>2. Plain = dgot - IvLen /\ Plain' = dgot' - IvLen /\ dinit'
    BY <1>1, <1>4, Zenon DEF Plain
  <2>3. dgot - IvLen \in Nat /\ dgot' \in Nat /\ dgot' >= IvLen /\ dgot' - IvLen = dgot - IvLen + r
    BY <1>1, <1>2, <1>4
  <2>4. Decrypted(r) \in Buffers
    BY <1>1, <2>1, <2>3 DEF Buffers
  <2>5. Decrypted(r).base = dgot - IvLen /\ Decrypted(r).idx = sbuf.idx /\ Decrypted(r).len = r
    BY <2>1
  <2>6. Plain \in Nat /\ Plain' = Plain + Decrypted(r).len
    BY <1>1, <2>2, <2>3, <2>5, Zenon
  <2>7. dinit' \in BOOLEAN  OBVIOUS
  <2>. QED  BY <1>2, <1>4, <2>2, <2>3, <2>4, <2>5, <2>6, <2>7, ZenonT(30)
<1>5. CASE ~direct /\ ~dinit
  <2>1. Decrypted(r) = [base |-> 0, idx |-> sbuf.idx, len |-> r - IvLen]
    BY <1>5, Zenon DEF Decrypted
  <2>2. Plain = 0 /\ Plain' = dgot' - IvLen /\ dinit'
    BY <1>1, <1>5, Zenon DEF Plain
  <2>3. r - IvLen \in Nat /\ dgot' \in Nat /\ dgot' >= IvLen /\ dgot' - IvLen = 0 + (r - IvLen)
    BY <1>1, <1>2, <1>5 DEF CutIV
  <2>4. Decrypted(r) \in Buffers
    BY <1>1, <2>1, <2>3 DEF Buffers
  <2>5. Decrypted(r).base = 0 /\ Decrypted(r).idx = sbuf.idx /\ Decrypted(r).len = r - IvLen
    BY <2>1
  <2>6. Plain \in Nat /\ Plain' = Plain + Decrypted(r).len
    BY <1>1, <2>2, <2>3, <2>5, Zenon
  <2>7. dinit' \in BOOLEAN  OBVIOUS
  <2>. QED  BY <1>2, <1>5, <2>2, <2>3, <2>4, <2>5, <2>6, <2>7, Zenon
<1>. QED  BY <1>1, <1>3, <1>4, <1>5, Zenon

\* What stays true upstream when only the other direction moves.
LEMMA UpstreamKept ==
    ASSUME Inv, Relayed, UNCHANGED <<conf, life, connected, rbuf, upstream, lvars>>,
           "srvRecv" \in io' <=> "srvRecv" \in io, "remSend" \in io' <=> "remSend" \in io, GivenBack'
    PROVE  Relayed' /\ Links' /\ (Careful' => up'.good) /\ (fast_open' => opt'.fast_open) /\ UpStep
<1>1. Careful' => GivenUp'
  BY Zenon DEF Relayed, Careful, GivenUp, Waiting, HeaderPlace, Framing, conf, upstream
<1>2. Relayed'
  BY <1>1, Zenon DEF Relayed, Live, Linked, Steady, conf, lvars
<1>3. UpStep  BY UpSame DEF upstream, Linked
<1>. QED  BY <1>2, <1>3, Zenon DEF Inv, Links, Linked, Live, Careful, conf, upstream, lvars

\* remote_recv_cb decrypts what was received and sends it.
LEMMA RelayBackKept ==
    ASSUME Inv, NEW w \in {io, io \cup {"recvTimer"}}, RelayBack(w), idle' \in Nat, UNCHANGED lvars
    PROVE  Kept
<1>1. Relayed
  BY WatcherPhase, Zenon DEF RelayBack
<1>2. life' = life
  BY <1>1, UseLive, Zenon DEF RelayBack, Inv, Relayed
<1>3. PICK r \in 1..BUF_SIZE :
        /\ ~CutIV(r) /\ dgot' = dgot + r
        /\ \E s \in SendResults(Decrypted(r).len) :
            /\ down' = Write(down, Decrypted(r).base, Sent(s))
            /\ IF s = Decrypted(r).len THEN sbuf' = Decrypted(r) /\ io' = w
               ELSE sbuf' = Unsent(Decrypted(r), Sent(s)) /\ io' = AwaitClient(w)
  BY Zenon DEF RelayBack
<1>. DEFINE b == Decrypted(r)
<1>4. /\ b \in Buffers /\ b.base = Plain /\ Plain' = Plain + b.len
      /\ Plain \in Nat /\ down.n = Plain
      /\ dgot' \in Nat /\ dinit' \in BOOLEAN
      /\ (direct => ~dinit') /\ (~direct => dinit') /\ (dinit' => dgot' >= IvLen)
  BY <1>1, <1>3, DecryptedNext, Zenon DEF RelayBack, conf
<1>5. PICK s \in SendResults(b.len) :
        /\ down' = Write(down, b.base, Sent(s))
        /\ IF s = b.len THEN sbuf' = b /\ io' = w ELSE sbuf' = Unsent(b, Sent(s)) /\ io' = AwaitClient(w)
  BY <1>3, Zenon
<1>. HIDE DEF b
<1>6. b.len \in Nat /\ Plain' \in Nat /\ Sent(s) \in 0..b.len /\ (s = b.len <=> Sent(s) = b.len)
  <2>1. b.len \in Nat  BY <1>4 DEF Buffers
  <2>. QED  BY <1>4, <2>1, SentBytes
<1>7. down' \in Sinks /\ down'.n = Plain + Sent(s) /\ down'.good /\ down \in Sinks /\ down.good
  BY <1>4, <1>5, <1>6 DEF Write, Sinks, Inv, TypeOK
<1>8. sbuf' \in Buffers /\ (s # b.len => sbuf'.base = b.base /\ sbuf'.idx = Sent(s) /\ sbuf'.len = b.len - Sent(s))
  BY <1>4, <1>5, <1>6 DEF Unsent, Buffers
<1>9. /\ "srvSend" \in io' <=> s # b.len
      /\ "remRecv" \in io' <=> s = b.len
      /\ "srvRecv" \in io' <=> "srvRecv" \in io
      /\ "remSend" \in io' <=> "remSend" \in io
      /\ io' \subseteq ServerWatchers \cup RemoteWatchers
  <2>1. "remRecv" \in io /\ "srvSend" \notin io /\ io \subseteq ServerWatchers \cup RemoteWatchers
    BY <1>1, Zenon DEF RelayBack, Relayed, GivenBack, Inv, TypeOK
  <2>3. CASE s = b.len
    <3>1. io' = w  BY <1>5, <2>3, Zenon
    <3>. QED  BY <2>1, <2>3, <3>1, Zenon DEF RemoteWatchers
  <2>4. CASE s # b.len
    <3>1. io' = AwaitClient(w)  BY <1>5, <2>4, Zenon
    <3>. QED  BY <2>1, <2>4, <3>1 DEF AwaitClient, ServerWatchers, RemoteWatchers
  <2>. QED  BY <2>3, <2>4, Zenon
<1>10. GivenBack'
  BY <1>4, <1>6, <1>7, <1>8, <1>9 DEF GivenBack, Waiting, RelayBack, conf
<1>11. TypeOK'
  BY <1>2, <1>4, <1>7, <1>8, <1>9, ZenonT(30) DEF Inv, TypeOK, RelayBack, conf, upstream
<1>12. DownStep
  <2>1. Linked /\ Linked'  BY <1>1, <1>2, Zenon DEF Relayed, Linked
  <2>2. CASE b.len = 0
    BY <1>4, <1>6, <1>7, <2>1, <2>2, DownGives
  <2>3. CASE b.len > 0
    BY <1>4, <1>6, <1>7, <2>1, <2>3, DownTakes
  <2>. QED  BY <1>6, <2>2, <2>3
<1>13. UNCHANGED <<conf, life, connected, rbuf, upstream, lvars>>
  BY <1>2, Zenon DEF RelayBack
<1>. QED  BY <1>1, <1>7, <1>9, <1>10, <1>11, <1>12, <1>13, UpstreamKept, ZenonT(30) DEF Kept, Inv

\* remote_recv_cb finds no data; ss-local starts its timer all the same.
LEMMA RelayBackAgainKept ==
    ASSUME Inv, NEW w \in {io, io \cup {"recvTimer"}}, RelayBackAgain(w), idle' \in Nat, UNCHANGED lvars
    PROVE  Kept
<1>1. Relayed
  BY WatcherPhase, Zenon DEF RelayBackAgain
<1>2. life' = life
  BY <1>1, UseLive, Zenon DEF RelayBackAgain, Inv, Relayed
<1>3. TypeOK'
  BY <1>2 DEF RelayBackAgain, Inv, TypeOK, conf, upstream, downstream, RemoteWatchers
<1>4. GivenBack'
  BY <1>1, Zenon DEF RelayBackAgain, Relayed, GivenBack, Waiting, Plain, conf, downstream
<1>5. DownStep
  BY <1>2, DownSame, Zenon DEF RelayBackAgain, downstream, conf, Linked, Plain
<1>6. /\ UNCHANGED <<conf, life, connected, rbuf, upstream, lvars>> /\ down' = down
      /\ "srvRecv" \in io' <=> "srvRecv" \in io
      /\ "remSend" \in io' <=> "remSend" \in io
  BY <1>2 DEF RelayBackAgain, downstream
<1>. QED  BY <1>1, <1>3, <1>4, <1>5, <1>6, UpstreamKept, Zenon DEF Kept, Inv

\* server_send_cb; server->buf is not empty.
LEMMA FlushBackKept ==
    ASSUME Inv, FlushBack, UNCHANGED lvars
    PROVE  Kept
<1>1. Relayed
  BY WatcherPhase DEF FlushBack
<1>2. sbuf \in Buffers /\ sbuf.base \in Nat /\ sbuf.idx \in Nat /\ sbuf.len \in Nat
  BY Zenon DEF Inv, TypeOK, Buffers
<1>3. sbuf.len > 0 /\ sbuf.base + sbuf.idx = down.n /\ Plain = down.n + sbuf.len /\ "remRecv" \notin io
  BY <1>1, Zenon DEF FlushBack, Relayed, GivenBack, Waiting
<1>4. PICK s \in SendResults(sbuf.len) :
        /\ down' = Write(down, sbuf.base + sbuf.idx, Sent(s))
        /\ IF s = sbuf.len
           THEN sbuf' = [sbuf EXCEPT !.idx = 0, !.len = 0] /\ io' = ReadBack(io) /\ life' = use_remote(life)
           ELSE sbuf' = Consume(sbuf, Sent(s)) /\ UNCHANGED <<io, life>>
  BY <1>3 DEF FlushBack
<1>5. Sent(s) \in 0..sbuf.len /\ (s = sbuf.len <=> Sent(s) = sbuf.len)
  BY <1>2, SentBytes, Zenon
<1>6. life' = life
  BY <1>1, <1>4, UseLive DEF Inv, Relayed
<1>7. down' \in Sinks /\ down'.n = down.n + Sent(s) /\ down'.good /\ down \in Sinks /\ down.good /\ down.n \in Nat
  BY <1>2, <1>3, <1>4, <1>5 DEF Write, Sinks, Inv, TypeOK
<1>8. sbuf' \in Buffers
  <2>1. CASE s = sbuf.len
    <3>1. sbuf' = [sbuf EXCEPT !.idx = 0, !.len = 0]  BY <1>4, <2>1
    <3>. QED  BY <1>2, <3>1, Emptied, Zenon
  <2>2. CASE s # sbuf.len
    <3>1. sbuf' = Consume(sbuf, Sent(s))  BY <1>4, <2>2
    <3>. QED  BY <1>2, <1>5, <3>1 DEF Consume, Buffers
  <2>. QED  BY <2>1, <2>2, Zenon
<1>9. s # sbuf.len => sbuf'.base = sbuf.base /\ sbuf'.idx = sbuf.idx + Sent(s) /\ sbuf'.len = sbuf.len - Sent(s)
  BY <1>4 DEF Consume
<1>10. /\ "srvSend" \in io' <=> s # sbuf.len
       /\ "remRecv" \in io' <=> s = sbuf.len
       /\ "srvRecv" \in io' <=> "srvRecv" \in io
       /\ "remSend" \in io' <=> "remSend" \in io
       /\ io' \subseteq ServerWatchers \cup RemoteWatchers
  <2>1. "srvSend" \in io /\ "remRecv" \notin io /\ io \subseteq ServerWatchers \cup RemoteWatchers
    BY <1>3, Zenon DEF FlushBack, Inv, TypeOK
  <2>2. CASE s = sbuf.len
    <3>1. io' = ReadBack(io)  BY <1>4, <2>2
    <3>. QED  BY <2>1, <2>2, <3>1, Zenon DEF ReadBack, RemoteWatchers
  <2>3. CASE s # sbuf.len
    <3>1. io' = io  BY <1>4, <2>3
    <3>. QED  BY <2>1, <2>3, <3>1
  <2>. QED  BY <2>2, <2>3, Zenon
<1>11. Plain' = Plain /\ Plain \in Nat
  BY <1>1, PlainType, Zenon DEF FlushBack, Plain, conf, Relayed
<1>12. GivenBack'
  <2>1. UNCHANGED <<direct, dinit, dgot>>
    BY DEF FlushBack, conf
  <2>2. CASE s = sbuf.len
    BY <1>1, <1>3, <1>5, <1>7, <1>10, <1>11, <2>1, <2>2 DEF GivenBack, Waiting, Relayed
  <2>3. CASE s # sbuf.len
    BY <1>1, <1>2, <1>3, <1>5, <1>7, <1>9, <1>10, <1>11, <2>1, <2>3 DEF GivenBack, Waiting, Relayed
  <2>. QED  BY <2>2, <2>3, Zenon
<1>13. TypeOK'
  BY <1>6, <1>7, <1>8, <1>10, Zenon DEF Inv, TypeOK, FlushBack, conf, upstream
<1>14. DownStep
  <2>1. Linked /\ Linked'  BY <1>1, <1>6, Zenon DEF Relayed, Linked
  <2>2. down.n <= down'.n /\ down'.n <= Plain
    BY <1>2, <1>3, <1>5, <1>7
  <2>. QED  BY <1>7, <1>11, <2>1, <2>2, DownGives, Zenon
<1>15. UNCHANGED <<conf, life, connected, rbuf, upstream, lvars>>
  BY <1>6 DEF FlushBack
<1>. QED  BY <1>1, <1>7, <1>10, <1>12, <1>13, <1>14, <1>15, UpstreamKept, Zenon DEF Kept, Inv

-----------------------------------------------------------------------------
(* A new connection.                                                       *)

\* Empty buffers and streams have their types.
LEMMA NothingYet == Empty \in Buffers /\ NoBytes \in Sinks
BY Zenon DEF Empty, Buffers, NoBytes, Sinks

\* accept_cb of ss-local: the request is still to come.
LEMMA AcceptKept ==
    ASSUME Inv, Accept(new_server(life), {"srvRecv"}), opt.prog = "local", stage' = 0, UNCHANGED fast_open
    PROVE  Kept
<1>1. ~Live /\ ~Linked /\ ~life.uaf
  BY Zenon DEF Accept, Inv, Links, Live, Linked
<1>2. life' \in Lives /\ Links' /\ Live' /\ ~Linked'
  BY <1>1, Zenon DEF Accept, new_server, NoLife, Lives, Links, Live, Linked, Inv, TypeOK
<1>3. TypeOK'
  <2>1. opt' \in Options /\ proc' \in {"running", "stopped", "aborted"}
    BY Zenon DEF Accept, Inv, TypeOK
  <2>2. io' \subseteq ServerWatchers \cup RemoteWatchers
    BY Zenon DEF Accept, ServerWatchers, RemoteWatchers
  <2>3. direct' \in BOOLEAN /\ connected' \in BOOLEAN /\ dinit' \in BOOLEAN
    BY Zenon DEF Accept
  <2>4. {got', counter', made', dgot', idle', spurious'} \subseteq Nat /\ header' \in Nat \cup {None}
    BY DEF Accept
  <2>5. sbuf' \in Buffers /\ rbuf' \in Buffers /\ up' \in Sinks /\ down' \in Sinks
    BY NothingYet DEF Accept
  <2>. QED  BY <1>2, <2>1, <2>2, <2>3, <2>4, <2>5, Zenon DEF TypeOK
<1>4. Asking'
  BY <1>2, Zenon DEF Accept, Asking, NothingUp, NothingBack, Inv
<1>5. UpStep /\ DownStep
  BY <1>1, <1>2, UpCleared, DownCleared, Zenon DEF Accept, Plain
<1>. QED  BY <1>2, <1>3, <1>4, <1>5, Zenon DEF Kept, Inv, Accept, NoBytes

\* accept_cb of ss-tunnel and ss-redir: ss-server is dialled at once.
LEMMA AcceptLinkedKept ==
    ASSUME Inv, NEW w, w = {"remSend", "connTimer"} \/ (w = {"remSend", "srvRecv", "connTimer"} /\ opt.prog = "redir"),
           Accept(link_remote(new_server(life)), w), opt.prog # "local", UNCHANGED lvars
    PROVE  Kept
<1>1. ~Live /\ ~Linked /\ ~life.uaf
  BY Zenon DEF Accept, Inv, Links, Live, Linked
<1>2. life' \in Lives /\ Links' /\ Live' /\ Linked'
  BY <1>1, Zenon DEF Accept, new_server, link_remote, NoLife, Lives, Links, Live, Linked, Inv, TypeOK
<1>3. TypeOK'
  <2>1. opt' \in Options /\ proc' \in {"running", "stopped", "aborted"}
    BY Zenon DEF Accept, Inv, TypeOK
  <2>2. io' \subseteq ServerWatchers \cup RemoteWatchers
    BY Zenon DEF Accept, ServerWatchers, RemoteWatchers
  <2>3. direct' \in BOOLEAN /\ connected' \in BOOLEAN /\ dinit' \in BOOLEAN
    BY Zenon DEF Accept
  <2>4. {got', counter', made', dgot', idle', spurious'} \subseteq Nat /\ header' \in Nat \cup {None}
    BY DEF Accept
  <2>5. sbuf' \in Buffers /\ rbuf' \in Buffers /\ up' \in Sinks /\ down' \in Sinks
    BY NothingYet DEF Accept
  <2>. QED  BY <1>2, <2>1, <2>2, <2>3, <2>4, <2>5, Zenon DEF TypeOK
<1>4. Dialling'
  <2>1. 0 * AUTH_BYTES = 0  BY SizesAssumption
  <2>2. io' = w /\ opt' = opt  BY DEF Accept
  <2>3. "srvRecv" \in io' => opt'.prog = "redir"  BY <2>2, Zenon
  <2>4. "remSend" \in io' /\ io' \subseteq {"remSend", "srvRecv", "connTimer"} /\ "connTimer" \in io'
    BY <2>2
  <2>. QED  BY <1>2, <2>1, <2>2, <2>3, <2>4 DEF Accept, Dialling, NothingBack, Empty
<1>5. UpStep /\ DownStep
  BY <1>1, <1>2, UpOpens, DownOpens DEF Accept, Plain, NoBytes, Sinks
<1>. QED  BY <1>2, <1>3, <1>4, <1>5, Zenon DEF Kept, Inv, Accept, NoBytes, lvars
-----------------------------------------------------------------------------
(* The ends of a connection.                                               *)

\* Every callback that meets an error or the end of a stream, and the timers.
LEMMA ClosersKept ==
    ASSUME Inv, UNCHANGED lvars,
           \/ RelayError /\ ~Asking
           \/ ReadEnd \/ FlushError \/ FlushBackError \/ Timeout
           \/ (RelayBackEnd \/ RelayBackBadCipher) /\ idle' \in Nat
    PROVE  Kept
<1>. USE DEF conf, upstream, downstream, lvars
<1>1. CASE RelayError /\ ~Asking
  <2>1. PICK n \in 1..UpLen : Read(n)  BY <1>1, Zenon DEF RelayError
  <2>2. Live /\ Linked  BY <1>1, <2>1, WatcherPhase DEF Read
  <2>3. CloseBoth(life)  BY <1>1, <2>2, UseLive, Zenon DEF RelayError, Inv
  <2>4. got' \in Nat  BY <2>1, SizesAssumption DEF Read, Inv, TypeOK
  <2>5. Data'  BY <1>1, <2>4, Zenon DEF RelayError, Inv, TypeOK, Data
  <2>. QED  BY <1>1, <2>2, <2>3, <2>5, Closing, Zenon DEF RelayError
<1>2. CASE ReadEnd
  <2>1. Live  BY <1>2, WatcherPhase, Zenon DEF ReadEnd
  <2>2. Data'  BY <1>2, Zenon DEF ReadEnd, Inv, TypeOK, Data
  <2>. QED  BY <1>2, <2>1, <2>2, Closing, Zenon DEF ReadEnd
<1>3. CASE FlushError
  <2>1. Live  BY <1>3, WatcherPhase, Zenon DEF FlushError
  <2>2. CloseBoth(life)  BY <1>3, <2>1, UseLive, Zenon DEF FlushError, Inv
  <2>3. Data'  BY <1>3, Zenon DEF FlushError, Inv, TypeOK, Data
  <2>. QED  BY <1>3, <2>1, <2>2, <2>3, Closing, Zenon DEF FlushError
<1>4. CASE FlushBackError
  <2>1. Live  BY <1>4, WatcherPhase, Zenon DEF FlushBackError
  <2>2. Data'  BY <1>4, Zenon DEF FlushBackError, Inv, TypeOK, Data
  <2>. QED  BY <1>4, <2>1, <2>2, Closing, Zenon DEF FlushBackError
<1>5. CASE Timeout
  <2>1. Live  BY <1>5, WatcherPhase, Zenon DEF Timeout
  <2>2. CloseBoth(life)  BY <1>5, <2>1, UseLive, Zenon DEF Timeout, Inv
  <2>3. Data'  BY <1>5, Zenon DEF Timeout, Inv, TypeOK, Data
  <2>. QED  BY <1>5, <2>1, <2>2, <2>3, Closing, Zenon DEF Timeout
<1>6. CASE RelayBackEnd /\ idle' \in Nat
  <2>1. Live  BY <1>6, WatcherPhase, Zenon DEF RelayBackEnd
  <2>2. CloseBoth(life)  BY <1>6, <2>1, UseLive, Zenon DEF RelayBackEnd, Inv
  <2>3. Data'  BY <1>6, Zenon DEF RelayBackEnd, Inv, TypeOK, Data
  <2>. QED  BY <1>6, <2>1, <2>2, <2>3, Closing, Zenon DEF RelayBackEnd
<1>7. CASE RelayBackBadCipher /\ idle' \in Nat
  <2>1. Live  BY <1>7, WatcherPhase, Zenon DEF RelayBackBadCipher
  <2>2. CloseBoth(life)  BY <1>7, <2>1, UseLive, Zenon DEF RelayBackBadCipher, Inv
  <2>3. dgot' \in Nat /\ dgot < dgot' /\ "remRecv" \in io
    <3>1. PICK r \in 1..BUF_SIZE : dgot' = dgot + r
      BY <1>7, Zenon DEF RelayBackBadCipher
    <3>2. r \in Nat /\ r > 0 /\ dgot \in Nat  BY SizesAssumption DEF Inv, TypeOK
    <3>3. "remRecv" \in io  BY <1>7, Zenon DEF RelayBackBadCipher
    <3>. QED  BY <3>1, <3>2, <3>3
  <2>4. Data'  BY <1>7, <2>3, Zenon DEF RelayBackBadCipher, Surviving, Inv, TypeOK, Data
  <2>. QED  BY <1>7, <2>1, <2>2, <2>3, <2>4, Closing, Zenon DEF RelayBackBadCipher
<1>. QED  BY <1>1, <1>2, <1>3, <1>4, <1>5, <1>6, <1>7
=============================================================================
