--------------------------------- MODULE Udns ---------------------------------
(***************************************************************************)
(* The asynchronous core of libudns (libudns/udns_resolver.c): the queue   *)
(* of active queries ordered by deadline, the choice of the nameserver to  *)
(* ask next, and the single timer the library asks its user to run.        *)
(*                                                                         *)
(* Times are relative to the clock: a deadline d is reached when d <= 0,   *)
(* and the passing of a second lowers every one of them (Shift).  The two  *)
(* absolute values the library gives a meaning of their own, the deadline  *)
(* 0 of a query that was never sent and the expiry -1 of no timer, are     *)
(* Epoch and Never.  Names, packets and identifiers are not modelled: a    *)
(* query is its id, the search-list elements it has left, and the state    *)
(* of its attempts.                                                        *)
(***************************************************************************)
EXTENDS Integers, Sequences, Functions

CONSTANT Contexts       \* configurations of the resolver

\* Bound: the longest wait of a context fits its int.
ASSUME UdnsAssumption ==
    \A c \in Contexts :
        /\ {c.nserv, c.nsrch} \subseteq Nat /\ {c.ntries, c.timeout} \subseteq Nat \ {0}
        /\ \A t \in 0 .. (c.ntries - 1) : c.timeout * 2 ^ t \in Nat \ {0}

VARIABLE dnsc   \* struct dns_ctx, what does not change of it: nserv nameservers; ntries
                \* rounds over them; timeout, what the last of a round gets; nsrch
                \* elements of the search list

Epoch == -1000
Never == -2000

Servers == 0 .. (dnsc.nserv - 1)

Shift(d, by) == IF d \in {Epoch, Never} THEN d ELSE d + by

\* dns_submit_dn: a query that was never sent counts as expired.
New(id) == [id |-> id, deadline |-> Epoch, srch |-> dnsc.nsrch, try |-> 0, servi |-> 0,
            wait |-> {}, skip |-> {}, noedns |-> {}]

\* dns_next_srch: the next search-list element starts the attempts anew.
NextSearch(q) == [New(q.id) EXCEPT !.deadline = q.deadline, !.srch = q.srch - 1]

\* dns_find_serv: the first server from servi on that is not to be skipped.
dns_find_serv(q) ==
    LET left == {s \in Servers : s >= q.servi /\ s \notin q.skip}
    IN  [q EXCEPT !.servi = IF left = {} THEN dnsc.nserv
                            ELSE CHOOSE s \in left : \A r \in left : s <= r]

Found(q) == q.servi < dnsc.nserv

\* dns_send: the query at the server to ask, in this round or in the next one.
NextServer(q) ==
    IF Found(dns_find_serv(q))
    THEN dns_find_serv(q)
    ELSE dns_find_serv([q EXCEPT !.servi = 0, !.try = @ + 1])

\* dns_send: there is a server left to ask.
CanSend(q) == Found(NextServer(q)) /\ NextServer(q).try < dnsc.ntries

Ids(queue) == {queue[i].id : i \in DOMAIN queue}

qlist_remove(queue, id) ==
    LET at == CHOOSE i \in DOMAIN queue : queue[i].id = id
    IN  [i \in 1 .. (Len(queue) - 1) |-> queue[IF i < at THEN i ELSE i + 1]]

\* p = 0: qlist_add_head.
qlist_insert_after(queue, q, p) ==
    [i \in 1 .. (Len(queue) + 1) |->
        IF i = p + 1 THEN q ELSE queue[IF i <= p THEN i ELSE i - 1]]

\* Mutant: a query goes to the tail whatever its deadline.
insert_at_tail(queue, q) == Append(queue, q)

\* dns_send_this: behind the last query that is not due after q.
insert_by_deadline(queue, q) ==
    qlist_insert_after(queue, q,
        CHOOSE p \in 0 .. Len(queue) :
            /\ p > 0 => queue[p].deadline <= q.deadline
            /\ \A j \in (p + 1) .. Len(queue) : queue[j].deadline > q.deadline)

\* dns_send_this, the packet out: wait for server s, briefly if this round
\* has another one to turn to.
Sent(queue, q, s) ==
    LET asked == dns_find_serv([q EXCEPT !.wait = @ \cup {s}])
        wait  == IF Found(asked) THEN 1 ELSE dnsc.timeout * 2 ^ q.try
    IN  insert_by_deadline(qlist_remove(queue, q.id), [asked EXCEPT !.deadline = wait])

\* dns_send with a packet that goes out.
dns_send(queue, q) ==
    LET at == NextServer(q)
    IN  Sent(queue, [at EXCEPT !.servi = @ + 1], at.servi)

\* Mutant: the timer is not asked for again while an earlier request stands.
dns_request_utm_once(queue, now, utm) ==
    IF utm.exp # Never THEN utm
    ELSE IF queue = <<>> THEN [exp |-> Never, timer |-> Never]
    ELSE [exp |-> Epoch, timer |-> 0]

\* _dns_request_utm: utm = [exp, timer] after the timer was asked for; now is
\* whether the caller knows the time.  dns_timer_setup_cb is the callback.
dns_request_utm(queue, now, utm) ==
    LET deadline == IF queue = <<>> THEN Never
                    ELSE IF ~now \/ Head(queue).deadline <= 0 THEN Epoch
                    ELSE Head(queue).deadline
    IN  IF utm.exp = deadline THEN utm
        ELSE [exp   |-> deadline,
              timer |-> IF deadline = Epoch THEN 0 ELSE deadline]
===============================================================================
