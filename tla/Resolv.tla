-------------------------------- MODULE Resolv --------------------------------
(***************************************************************************)
(* Name lookup (src/resolv.c on top of libudns).  resolv_query submits an  *)
(* A and an AAAA query; when both have ended the client is called once,    *)
(* with an IPv4 address if there is any; resolv_cancel forgets a lookup.   *)
(* One client is one use of a struct ResolvQuery, held by a TCP connection *)
(* (server->query) or by a UDP query_ctx.                                  *)
(*                                                                         *)
(* The event loop is single threaded: running says which library call is   *)
(* being worked off, and nothing else happens until it is done.            *)
(***************************************************************************)
EXTENDS Udns

CONSTANTS
    Clients,        \* lookups
    SubmitFails     \* whether dns_submit_p may fail (bad name, no memory)

\* The bounds of a context: its clients, the seconds the loop may run a timer late
\* (no deadline falls back as far as Epoch) and the times the wall clock is set back.
ASSUME ResolvAssumption ==
    /\ SubmitFails \in BOOLEAN
    /\ \A c \in Contexts :
          /\ c.clients \subseteq Clients /\ c.stepsBack \in Nat
          /\ c.late \in Nat /\ -2 * c.late > Epoch + 1

Families == {"A", "AAAA"}

VARIABLES
    lookup,     \* struct ResolvQuery of each client
    client,     \* what the client knows of its lookup
    qactive,    \* dnsc_qactive
    utm,        \* dnsc_utmexp and resolv_timeout_watcher (Never: stopped)
    running,    \* the library call in progress
    got,        \* history: families that brought an address
    stepsBack   \* history: times the clock was set back

vars == <<dnsc, lookup, client, qactive, utm, running, got, stepsBack>>

Lookups == [life : {"none", "live", "freed"}, queries : SUBSET Families,
            responses : Seq(Families)]

Answers == Families \cup {"NULL"}

ClientStates == {"idle", "waiting", "cancelled"} \cup Answers

Init ==
    /\ dnsc \in Contexts
    /\ lookup = [c \in Clients |-> [life |-> "none", queries |-> {}, responses |-> <<>>]]
    /\ client = [c \in Clients |-> "idle"]
    /\ qactive = <<>>
    /\ utm = [exp |-> Never, timer |-> Never]
    /\ running = "loop"
    /\ got = [c \in Clients |-> {}]
    /\ stepsBack = 0

Freed(l) == [l EXCEPT !.life = "freed"]

-----------------------------------------------------------------------------
(***************************************************************************)
(* The client's calls.                                                     *)
(***************************************************************************)

\* dns_submit_p, if it succeeds for this family.
Submit(queue, c, f, submitted) ==
    IF f \in submitted THEN qlist_insert_after(queue, New(<<c, f>>), 0) ELSE queue

\* resolv_query: both submissions may fail; the handle is returned anyway.
resolv_query(c, submitted) ==
    LET fresh == [life |-> "live", queries |-> submitted, responses |-> <<>>]
        queue == Submit(Submit(qactive, c, "A", submitted), c, "AAAA", submitted)
    IN  /\ running = "loop" /\ client[c] = "idle"
        /\ SubmitFails \/ submitted = Families
        /\ client' = [client EXCEPT ![c] = "waiting"]
        /\ lookup' = [lookup EXCEPT ![c] = IF submitted = {} THEN Freed(fresh) ELSE fresh]
        /\ qactive' = queue
        /\ utm' = IF submitted = {} THEN utm ELSE dns_request_utm(queue, FALSE, utm)
        /\ UNCHANGED <<running, got, stepsBack>>

\* dns_cancel of the query in the slot of a family, if the slot is set.
Cancel(queue, c, f) == IF f \in lookup[c].queries THEN qlist_remove(queue, <<c, f>>) ELSE queue

\* Mutant: only the A query is cancelled.
resolv_cancel_first(c) ==
    LET queue == Cancel(qactive, c, "A")
    IN  /\ running = "loop" /\ client[c] = "waiting" /\ lookup[c].life = "live"
        /\ client' = [client EXCEPT ![c] = "cancelled"]
        /\ lookup' = [lookup EXCEPT ![c] = Freed(@)]
        /\ qactive' = queue
        /\ utm' = dns_request_utm(queue, FALSE, utm)
        /\ UNCHANGED <<running, got, stepsBack>>

\* resolv_cancel of a live lookup.
resolv_cancel(c) ==
    LET queue == Cancel(Cancel(qactive, c, "A"), c, "AAAA")
    IN  /\ running = "loop" /\ client[c] = "waiting" /\ lookup[c].life = "live"
        /\ client' = [client EXCEPT ![c] = "cancelled"]
        /\ lookup' = [lookup EXCEPT ![c] = Freed(@)]
        /\ qactive' = queue
        /\ utm' = dns_request_utm(queue, FALSE, utm)
        /\ UNCHANGED <<running, got, stepsBack>>

\* resolv_cancel through the handle of a lookup that was never submitted:
\* it reads memory that was released, so the process may end there.
CancelUnsubmitted(c) ==
    /\ running = "loop" /\ client[c] = "waiting" /\ lookup[c].life = "freed"
    /\ client' = [client EXCEPT ![c] = "cancelled"]
    /\ running' \in {"loop", "aborted"}
    /\ UNCHANGED <<lookup, qactive, utm, got, stepsBack>>

-----------------------------------------------------------------------------
(***************************************************************************)
(* The end of a query: dns_end_query calls dns_query_v4_cb or              *)
(* dns_query_v6_cb, and the last of them process_client_callback.          *)
(***************************************************************************)

\* choose_ipv4_first: resolv_init sets no other mode.
choose_ipv4_first(responses) ==
    IF "A" \in Range(responses) THEN "A"
    ELSE IF responses = <<>> THEN "NULL"
    ELSE responses[1]

all_queries_are_null(l, f) == l.queries \ {f} = {}

\* Query q ends with n addresses, 0 for a NULL result.
dns_query_cb(q, n) ==
    LET c == q.id[1]
        f == q.id[2]
        l == [lookup[c] EXCEPT !.queries = @ \ {f}, !.responses = @ \o [i \in 1..n |-> f]]
        done == all_queries_are_null(lookup[c], f)
    IN  /\ lookup' = [lookup EXCEPT ![c] = IF done THEN Freed(l) ELSE l]
        /\ client' = IF done
                     THEN [client EXCEPT ![c] = choose_ipv4_first(l.responses)]
                     ELSE client
        /\ got' = IF n > 0 THEN [got EXCEPT ![c] = @ \cup {f}] ELSE got

dns_end_query(q, n) ==
    /\ qactive' = qlist_remove(qactive, q.id)
    /\ dns_query_cb(q, n)

\* dns_send: ask the next server, or give up when there is none or when the
\* packet cannot be sent.
Send(q) ==
    \/ /\ CanSend(q)
       /\ qactive' = dns_send(qactive, q)
       /\ UNCHANGED <<lookup, client, got>>
    \/ dns_end_query(q, 0)

-----------------------------------------------------------------------------
(***************************************************************************)
(* The timer: resolv_timeout_cb runs dns_timeouts.                         *)
(***************************************************************************)

resolv_timeout_cb ==
    /\ running = "loop" /\ utm.timer # Never /\ utm.timer <= 0
    /\ utm' = [utm EXCEPT !.timer = Never]
    /\ running' = IF qactive = <<>> THEN "loop" ELSE "timeouts"
    /\ UNCHANGED <<lookup, client, qactive, got, stepsBack>>

Due == qactive # <<>> /\ Head(qactive).deadline <= 0

\* dns_timeouts: one round of its loop.
TimeoutsStep ==
    /\ running = "timeouts" /\ Due
    /\ Send(Head(qactive))
    /\ UNCHANGED <<utm, running, stepsBack>>

TimeoutsDone ==
    /\ running = "timeouts" /\ ~Due
    /\ utm' = dns_request_utm(qactive, TRUE, utm)
    /\ running' = "loop"
    /\ UNCHANGED <<lookup, client, qactive, got, stepsBack>>

-----------------------------------------------------------------------------
(***************************************************************************)
(* The socket: resolv_sock_cb runs dns_ioevent, which reads until there is *)
(* nothing left.  Packets that match no query are skipped.                 *)
(***************************************************************************)

resolv_sock_cb ==
    /\ running = "loop"
    /\ running' = "io"
    /\ UNCHANGED <<lookup, client, qactive, utm, got, stepsBack>>

\* The query once server s has replied.
Replied(q, s) == [q EXCEPT !.wait = @ \ {s}]

\* Addresses (or a reply that cannot be parsed, with no address).
ReplyAnswer(q, s) == \E n \in 0..1 : dns_end_query(Replied(q, s), n)

\* No data or no such domain: on to the next search-list element, if any.
ReplyNothing(q, s) ==
    IF q.srch > 0 THEN Send(NextSearch(Replied(q, s))) ELSE dns_end_query(q, 0)

\* FORMERR or NOTIMPL: the same server without EDNS0, once.
ReplyFormErr(q, s) ==
    LET plain == [Replied(q, s) EXCEPT !.noedns = @ \cup {s}]
    IN  /\ s \notin q.noedns
        /\ \/ /\ qactive' = Sent(qactive, plain, s)
              /\ UNCHANGED <<lookup, client, got>>
           \/ dns_end_query(q, 0)

\* SERVFAIL, REFUSED, truncation...: not this server again; the next one,
\* unless another reply is still awaited.
ReplyFailure(q, s) ==
    LET left == [Replied(q, s) EXCEPT !.skip = @ \cup {s}]
    IN  IF left.wait = {}
        THEN Send(left)
        ELSE /\ qactive' = [i \in DOMAIN qactive |->
                               IF qactive[i].id = q.id THEN left ELSE qactive[i]]
             /\ UNCHANGED <<lookup, client, got>>

IoReply(q, s) ==
    /\ running = "io" /\ s \in q.wait
    /\ \/ ReplyAnswer(q, s)
       \/ ReplyNothing(q, s)
       \/ ReplyFormErr(q, s)
       \/ ReplyFailure(q, s)
    /\ UNCHANGED <<utm, running, stepsBack>>

IoDone ==
    /\ running = "io"
    /\ utm' = dns_request_utm(qactive, TRUE, utm)
    /\ running' = "loop"
    /\ UNCHANGED <<lookup, client, qactive, got, stepsBack>>

-----------------------------------------------------------------------------
(***************************************************************************)
(* The clocks and the end.                                                 *)
(***************************************************************************)

ShiftQueue(by) ==
    qactive' = [i \in DOMAIN qactive |->
                   [qactive[i] EXCEPT !.deadline = Shift(@, by)]]

\* What the passing of time is about: the timer, or a deadline without one.
NextEvent == IF utm.timer # Never \/ qactive = <<>> THEN utm.timer ELSE Head(qactive).deadline

\* A second passes; the loop runs a timer at most dnsc.late seconds late.
Tick ==
    /\ running = "loop" /\ NextEvent > -dnsc.late
    /\ ShiftQueue(-1)
    /\ utm' = [exp |-> Shift(utm.exp, -1), timer |-> Shift(utm.timer, -1)]
    /\ UNCHANGED <<lookup, client, running, got, stepsBack>>

\* The wall clock, which deadlines are in, is set back; libev's timers run
\* on the monotonic clock.
StepBack ==
    /\ running = "loop" /\ stepsBack < dnsc.stepsBack
    /\ ShiftQueue(1)
    /\ utm' = [utm EXCEPT !.exp = Shift(@, 1)]
    /\ stepsBack' = stepsBack + 1
    /\ UNCHANGED <<lookup, client, running, got>>

\* main, after ev_run: free_connections cancels what TCP connections wait
\* for, free_udprelay leaves query_ctx alone, dns_close drops the rest.
resolv_shutdown ==
    /\ running = "loop"
    /\ running' = "down"
    /\ qactive' = <<>>
    /\ utm' = [exp |-> Never, timer |-> Never]
    /\ UNCHANGED <<lookup, client, got, stepsBack>>

Step ==
    \/ \E c \in dnsc.clients, submitted \in SUBSET Families : resolv_query(c, submitted)
    \/ \E c \in Clients : resolv_cancel(c) \/ CancelUnsubmitted(c)
    \/ resolv_timeout_cb \/ TimeoutsStep \/ TimeoutsDone
    \/ resolv_sock_cb \/ IoDone
    \/ \E q \in Range(qactive), s \in Servers : IoReply(q, s)
    \/ Tick \/ StepBack \/ resolv_shutdown

Next == Step /\ UNCHANGED dnsc

Spec == Init /\ [][Next]_vars

(***************************************************************************)
(* Fairness: a library call in progress is finished, the clock goes on and *)
(* libev runs a timer that is due, however many packets come in between.   *)
(* Nothing is assumed of the nameservers or of the clients.                *)
(***************************************************************************)
FairSpec ==
    /\ Spec
    /\ WF_vars(TimeoutsStep /\ UNCHANGED dnsc) /\ WF_vars(TimeoutsDone /\ UNCHANGED dnsc)
    /\ WF_vars(IoDone /\ UNCHANGED dnsc)
    /\ SF_vars(Tick /\ UNCHANGED dnsc) /\ SF_vars(resolv_timeout_cb /\ UNCHANGED dnsc)

-----------------------------------------------------------------------------

\* A query has not used up its rounds and waits only for servers there are.
Queries == [id : Clients \X Families, deadline : Int, srch : 0 .. dnsc.nsrch,
            try : 0 .. (dnsc.ntries - 1), servi : 0 .. dnsc.nserv,
            wait : SUBSET Servers, skip : SUBSET Servers, noedns : SUBSET Servers]

\* Every variable has its type.
TypeOK ==
    /\ dnsc \in Contexts
    /\ lookup \in [Clients -> Lookups]
    /\ client \in [Clients -> ClientStates]
    /\ qactive \in Seq(Queries)
    /\ utm \in [exp : Int, timer : Int]
    /\ running \in {"loop", "timeouts", "io", "down", "aborted"}
    /\ got \in [Clients -> SUBSET Families]
    /\ stepsBack \in 0 .. dnsc.stepsBack

\* The callback data of a query libudns still holds is the live struct
\* ResolvQuery that has it in a slot, and a slot that is set is a query
\* libudns still holds, once: no callback meets a released struct, and
\* resolv_cancel never cancels or releases a query that has ended.
ActiveMatches ==
    running # "down" =>
        /\ Ids(qactive) = {id \in Clients \X Families :
                             lookup[id[1]].life = "live" /\ id[2] \in lookup[id[1]].queries}
        /\ \A i, j \in DOMAIN qactive : qactive[i].id = qactive[j].id => i = j

\* dnsc_qactive is ordered by deadline, which is what lets dns_timeouts and
\* _dns_request_utm look at its head only.
QueueSorted ==
    \A i, j \in DOMAIN qactive : i < j => qactive[i].deadline <= qactive[j].deadline

\* While libudns holds a query the timer is running and does not end after
\* the first deadline: "update timer with new deadline" (dns_timeouts).
TimerArmed ==
    running = "loop" /\ qactive # <<>> =>
        utm.timer # Never /\ (utm.timer <= 0 \/ utm.timer <= Head(qactive).deadline)

\* The same, while nobody sets the clock back.
TimerArmedForward == stepsBack = 0 => TimerArmed

\* The client is given an IPv4 address if the A query brought one, whichever
\* of the two answers came first, and NULL only if neither brought any.
PrefersIPv4 ==
    \A c \in Clients : client[c] \in Answers =>
        client[c] = IF "A" \in got[c] THEN "A"
                    ELSE IF "AAAA" \in got[c] THEN "AAAA" ELSE "NULL"

\* resolv.c answers each lookup at most once and never one that was cancelled.
Lookup == INSTANCE NameLookup WITH Clients <- Clients, Answers <- Answers, client <- client
LookupSpec == Lookup!Spec

\* A lookup in progress comes to an end, even if no nameserver ever replies,
\* unless the clock is set back.
Answered ==
    \A c \in Clients : client[c] = "waiting" /\ lookup[c].life = "live" ~>
        client[c] # "waiting" \/ running \in {"down", "aborted"} \/ stepsBack > 0

\* The slots of resolv.c and the queue of libudns agree, the queue is ordered, and
\* what the client is given is what the answers brought.
LookupsSound == ActiveMatches /\ QueueSorted /\ PrefersIPv4
===============================================================================
