------------------------------- MODULE SsRedir -------------------------------
(***************************************************************************)
(* ss-redir's TCP relay (src/redir.c): connections that the kernel has     *)
(* redirected are relayed to their original destination.  One receive may  *)
(* precede the connection to ss-server; its payload waits in remote->buf   *)
(* and the address header is put in front of it.                           *)
(***************************************************************************)
EXTENDS TcpClient

redir_accept_cb ==
    Accept(link_remote(new_server(life)), {"remSend", "srvRecv", "connTimer"})

\* server_recv_cb before ss-server is connected: keep the payload, unencrypted.
Early ==
    /\ ~connected
    /\ \E n \in 1..UpLen :
        /\ Read(n)
        /\ rbuf' = [base |-> 0, idx |-> rbuf.idx, len |-> Chunk(n)]
    /\ counter' = NextCounter
    /\ io' = AwaitWrite(io)
    /\ life' = use_remote(life)
    /\ UNCHANGED <<conf, proc, connected, sbuf, made, header, up, downstream, idle,
                   spurious>>

redir_server_recv_cb ==
    \/ Early
    \/ connected /\ (Relay \/ RelayError)
    \/ ReadEnd \/ ReadAgain

\* Connected: put the header in front of what waits, encrypt and send it.  Both
\* watchers of this direction are stopped, and only the one that reads the
\* application is started again, once everything is sent.
RedirConnected ==
    /\ "remSend" \in io /\ ~connected
    /\ connected' = TRUE
    /\ LET b == Encrypted(HdrLen + rbuf.len) IN
        /\ made' = made + b.len
        /\ header' = made + b.len - HdrLen - rbuf.len
        /\ FlushTo((io \ {"remSend", "srvRecv", "connTimer"}) \cup {"remRecv"}, b,
                   FirstSends(b.len))
    /\ UNCHANGED <<conf, proc, sbuf, got, counter, downstream, idle, spurious>>

redir_remote_send_cb == RedirConnected \/ Flush \/ FlushError

redir_remote_recv_cb ==
    /\ RelayBack(io) \/ RelayBackEnd \/ RelayBackBadCipher \/ RelayBackAgain(io)
    /\ UNCHANGED idle

redir_server_send_cb == FlushBack \/ FlushBackError

redir_remote_timeout_cb == Timeout

RedirNext ==
    /\ proc = "running"
    /\ \/ redir_accept_cb \/ redir_server_recv_cb \/ redir_server_send_cb \/ redir_remote_recv_cb
       \/ redir_remote_send_cb \/ redir_remote_timeout_cb \/ Tick
=============================================================================
