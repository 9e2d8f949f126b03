------------------------------ MODULE TcpClients ------------------------------
(***************************************************************************)
(* The three client-side programs, each with one connection slot; the      *)
(* configuration chosen at the start says which of them runs.              *)
(***************************************************************************)
EXTENDS SsLocal, SsTunnel, SsRedir

Init ==
    /\ opt \in Options
    /\ Fresh
    /\ stage = 0
    /\ req \in Requests
    /\ fast_open = opt.fast_open

Next ==
    \/ opt.prog = "local" /\ LocalNext
    \/ opt.prog = "tunnel" /\ TunnelNext /\ UNCHANGED lvars
    \/ opt.prog = "redir" /\ RedirNext /\ UNCHANGED lvars
    \/ proc # "running" /\ UNCHANGED <<vars, lvars>>

Spec == Init /\ [][Next]_<<vars, lvars>>

\* The clock advances, and libev calls the callback of a timer that has expired.
FairSpec ==
    /\ Spec
    /\ WF_vars(proc = "running" /\ Tick /\ UNCHANGED lvars)
    /\ WF_vars(proc = "running" /\ Timeout /\ UNCHANGED lvars)
=============================================================================
