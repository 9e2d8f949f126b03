---------------------------- MODULE MCTcpServer ----------------------------
(* Small instances of TcpServer.                                           *)
EXTENDS TcpServer

\* Two chunks of one payload byte, each behind one byte of length and hash.
MCReleased == [p \in 0..UpLen |-> p \div 2]
=============================================================================
