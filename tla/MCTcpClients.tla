---------------------------- MODULE MCTcpClients ----------------------------
EXTENDS TcpClients

Configs(prog, auth, fast, acl, pipelined, whole) ==
    [prog : prog, auth : auth, fast_open : fast, acl : acl, pipelined : pipelined,
     whole : whole]

\* First writes are accepted whole, and authenticated payload does not arrive
\* together with the SOCKS5 request.
MCOptions ==
    Configs({"local"}, {FALSE}, BOOLEAN, {TRUE}, {TRUE}, {TRUE})
    \cup Configs({"local"}, {TRUE}, {FALSE}, {FALSE}, {FALSE}, {TRUE})
    \cup Configs({"tunnel", "redir"}, BOOLEAN, {FALSE}, {FALSE}, {FALSE}, {TRUE})
=============================================================================
