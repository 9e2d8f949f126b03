------------------------------ MODULE SsTunnel ------------------------------
(***************************************************************************)
(* ss-tunnel's TCP relay (src/tunnel.c): every accepted connection is      *)
(* relayed to one configured destination.  The address header is sent by   *)
(* itself once ss-server is connected, and only then is anything read.     *)
(***************************************************************************)
EXTENDS TcpClient

tunnel_accept_cb == Accept(link_remote(new_server(life)), {"remSend", "connTimer"})

tunnel_server_recv_cb == Relay \/ RelayError \/ ReadEnd \/ ReadAgain

\* Connected: send the header.  How much of it send() accepted is compared with
\* the length of the buffer after bfree has set that to 0.
SendHeader ==
    /\ "remSend" \in io /\ ~connected
    /\ connected' = TRUE
    /\ life' = use_server(life)
    /\ LET b == Encrypted(HdrLen) IN
        /\ made' = made + b.len
        /\ header' = made + b.len - HdrLen
        /\ \E s \in FirstSends(b.len) : up' = Write(up, b.base, Sent(s))
    /\ io' = (io \ {"remSend", "connTimer"}) \cup {"remRecv", "srvRecv"}
    /\ UNCHANGED <<conf, proc, sbuf, rbuf, got, counter, downstream, idle, spurious>>

tunnel_remote_send_cb == SendHeader \/ Flush \/ FlushError

tunnel_remote_recv_cb ==
    /\ RelayBack(io) \/ RelayBackEnd \/ RelayBackBadCipher \/ RelayBackAgain(io)
    /\ UNCHANGED idle

tunnel_server_send_cb == FlushBack \/ FlushBackError

tunnel_remote_timeout_cb == Timeout

TunnelNext ==
    /\ proc = "running"
    /\ \/ tunnel_accept_cb \/ tunnel_server_recv_cb \/ tunnel_server_send_cb \/ tunnel_remote_recv_cb
       \/ tunnel_remote_send_cb \/ tunnel_remote_timeout_cb \/ Tick
=============================================================================
