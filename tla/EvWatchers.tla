---------------------------- MODULE EvWatchers ------------------------------
(***************************************************************************)
(* libev besides EvLoop: the other watchers, the heaps of timers, the other *)
(* backends.                                                               *)
(***************************************************************************)
EXTENDS Integers, Sequences, FiniteSets, SequencesExt, FiniteSetsExt

(***************************************************************************)
(* The watchers of libev that are neither sockets nor timers: signal,      *)
(* child, idle, prepare, check, fork, cleanup and async watchers, the      *)
(* priorities of their callbacks, and the order of ev_run around them      *)
(* (src/libev/ev.c).                                                       *)
(*                                                                         *)
(* The callback of a watcher may start and stop any watcher, break the     *)
(* loop, or find that the process was forked.  Signals come, children end  *)
(* and other threads send at any time; that evpipe_write may be            *)
(* interleaved with the loop is checked in EvLoop, here it is one step.    *)
(* The watchers libev keeps for itself, pipe_w and childev, do not count   *)
(* as active (ev_unref).  The fd and the timer of an ev_once are watchers  *)
(* whose events the kernel and the clock provide.                          *)
(***************************************************************************)

CONSTANTS
    NUMPRI,     \* the number of priorities
    EV_PID_HASHSIZE,
    EwWorlds,   \* the watchers of a program: their kind, priority and pid
    EwOps       \* bound: what the program and its surroundings do

ArrayKinds == {"idle", "prepare", "check", "fork", "cleanup", "async"}
Kinds == ArrayKinds \cup {"signal", "child", "once_io", "once_to"}
Pris == 0..NUMPRI-1
MAXPRI == NUMPRI - 1
Internal == {"pipe_w", "childev"}
EwNone == "none"

ASSUME EwAssumption ==
    /\ NUMPRI \in Nat \ {0} /\ EV_PID_HASHSIZE \in Nat \ {0} /\ EwOps \in Nat
    /\ \A wd \in EwWorlds : \A w \in DOMAIN wd :
        wd[w].kind \in Kinds /\ wd[w].pri \in Pris /\ wd[w].pid \in Nat

VARIABLES
    ewWorld,
    ew,         \* struct ev_loop, the signals and the children of the process
    owed        \* the watchers whose event has happened and whose callback is due

ew_vars == <<ewWorld, ew, owed>>

Users == DOMAIN ewWorld
Kind(w) == IF w \in Internal THEN w ELSE ewWorld[w].kind
OfKind(k) == {w \in Users : Kind(w) = k}
Key(s, w) == <<Kind(w), IF Kind(w) = "idle" THEN s.prio[w] ELSE 0>>
Chain(pid) == pid % EV_PID_HASHSIZE
Sig(w) == IF Kind(w) = "childev" THEN "chld" ELSE "usr"

-----------------------------------------------------------------------------
(* Pending events.                                                         *)

ev_feed_event(s, w, ev) ==
    LET p == s.prio[w] IN
    [IF s.pend[w] > 0 THEN [s EXCEPT !.pendings[p][s.pend[w]].ev = @ \cup {ev}]
     ELSE [s EXCEPT !.pend[w] = Len(s.pendings[p]) + 1,
                    !.pendings[p] = Append(@, [w |-> w, ev |-> {ev}])]
     EXCEPT !.pendingpri = MAXPRI]

\* The events of a sequence of watchers, in its order.
queue_events(s, ws, ev) ==
    LET q[i \in 0..Len(ws)] == IF i = 0 THEN s ELSE ev_feed_event(q[i-1], ws[i], ev)
    IN q[Len(ws)]

\* clear_pending, ev_clear_pending: the entry now belongs to nobody (pending_w).
clear_pending(s, w) ==
    IF s.pend[w] = 0 THEN s
    ELSE [s EXCEPT !.pendings[s.prio[w]][s.pend[w]].w = EwNone, !.pend[w] = 0]

-----------------------------------------------------------------------------
(* Starting and stopping watchers.                                         *)

ev_start(s, w, at) == [s EXCEPT !.active[w] = at, !.activecnt = @ + 1]
ev_stop(s, w) == [s EXCEPT !.active[w] = 0, !.activecnt = @ - 1]

\* evpipe_init: pipe_w, which ev_unref lets the loop forget.
evpipe_init(s) == [s EXCEPT !.active["pipe_w"] = 1]

\* ev_prepare_start; pri_adjust keeps the priority within its bounds.
array_start(s, w) ==
    [ev_start(s, w, Len(s.arrays[Key(s, w)]) + 1) EXCEPT !.arrays[Key(s, w)] = Append(@, w)]

\* ev_prepare_stop: the last watcher of the array moves into the gap.
array_stop(s, w) ==
    LET a == s.arrays[Key(s, w)]
        c == clear_pending(s, w)
        m == [c EXCEPT !.active[a[Len(a)]] = s.active[w],
                       !.arrays[Key(s, w)] = SubSeq([a EXCEPT ![s.active[w]] = a[Len(a)]], 1, Len(a) - 1)]
    IN IF s.active[w] = 0 THEN c ELSE ev_stop(m, w)

ev_idle_start(s, w) == array_start(s, w)
ev_idle_stop(s, w) == array_stop(s, w)
ev_check_start(s, w) == array_start(s, w)
ev_check_stop(s, w) == array_stop(s, w)
ev_fork_start(s, w) == array_start(s, w)
ev_fork_stop(s, w) == array_stop(s, w)
ev_async_start(s, w) == array_start(evpipe_init([s EXCEPT !.sent[w] = FALSE]), w)
ev_async_stop(s, w) == array_stop(s, w)

\* Cleanup watchers never keep the loop running.
ev_cleanup_start(s, w) == [array_start(s, w) EXCEPT !.activecnt = @ - 1]
ev_cleanup_stop(s, w) ==
    IF s.active[w] = 0 THEN clear_pending(s, w) ELSE array_stop([s EXCEPT !.activecnt = @ + 1], w)

wlist_add(list, w) == <<w>> \o list
wlist_del(list, w) == SelectSeq(list, LAMBDA x : x # w)

\* ev_signal_start: the first watcher of a signal installs the handler.
ev_signal_start(s, w) ==
    LET a == [ev_start(s, w, 1) EXCEPT !.heads[Sig(w)] = wlist_add(@, w)]
    IN IF Len(a.heads[Sig(w)]) = 1 THEN [evpipe_init(a) EXCEPT !.handler[Sig(w)] = TRUE] ELSE a

\* ev_signal_stop: the last one detaches the signal and restores SIG_DFL.
ev_signal_stop(s, w) ==
    LET c == clear_pending(s, w)
        a == [ev_stop(c, w) EXCEPT !.heads[Sig(w)] = wlist_del(@, w)]
    IN IF s.active[w] = 0 THEN c
       ELSE [a EXCEPT !.handler[Sig(w)] = Len(a.heads[Sig(w)]) > 0]

ev_child_start(s, w) ==
    [ev_start(s, w, 1) EXCEPT !.childs[Chain(ewWorld[w].pid)] = wlist_add(@, w)]
ev_child_stop(s, w) ==
    LET c == clear_pending(s, w) IN
    IF s.active[w] = 0 THEN c
    ELSE ev_stop([c EXCEPT !.childs[Chain(ewWorld[w].pid)] = wlist_del(@, w)], w)

\* ev_io_stop and ev_timer_stop, as ev_once needs them.
event_stop(s, w) ==
    LET c == clear_pending(s, w) IN IF s.active[w] = 0 THEN c ELSE ev_stop(c, w)

WatcherStart(s, w) ==
    CASE s.active[w] # 0 -> s
      [] Kind(w) = "idle" -> ev_idle_start(s, w)
      [] Kind(w) = "prepare" -> array_start(s, w)
      [] Kind(w) = "check" -> ev_check_start(s, w)
      [] Kind(w) = "fork" -> ev_fork_start(s, w)
      [] Kind(w) = "cleanup" -> ev_cleanup_start(s, w)
      [] Kind(w) = "async" -> ev_async_start(s, w)
      [] Kind(w) = "signal" -> ev_signal_start(s, w)
      [] Kind(w) = "child" -> ev_child_start(s, w)
      [] OTHER -> ev_start(s, w, 1)
WatcherStop(s, w) ==
    CASE Kind(w) = "idle" -> ev_idle_stop(s, w)
      [] Kind(w) = "prepare" -> array_stop(s, w)
      [] Kind(w) = "check" -> ev_check_stop(s, w)
      [] Kind(w) = "fork" -> ev_fork_stop(s, w)
      [] Kind(w) = "cleanup" -> ev_cleanup_stop(s, w)
      [] Kind(w) = "async" -> ev_async_stop(s, w)
      [] Kind(w) = "signal" -> ev_signal_stop(s, w)
      [] Kind(w) = "child" -> ev_child_stop(s, w)
      [] OTHER -> event_stop(s, w)

-----------------------------------------------------------------------------
(* What libev's own callbacks do.                                          *)

\* evpipe_write: the loop is woken, or will look before it sleeps.
evpipe_write(s, flag) ==
    IF s.flags[flag] THEN s
    ELSE [s EXCEPT !.flags[flag] = TRUE, !.skipped = ~s.wanted, !.written = @ \/ s.wanted]

\* ev_sighandler, ev_feed_signal.
ev_feed_signal(s, sig) == evpipe_write([s EXCEPT !.sigp[sig] = TRUE], "sig")

ev_feed_signal_event(s, sig) ==
    IF s.heads[sig] = <<>> THEN s
    ELSE queue_events([s EXCEPT !.sigp[sig] = FALSE], s.heads[sig], "SIGNAL")

Backwards(q) == [i \in 1..Len(q) |-> q[Len(q) + 1 - i]]

FeedSignals(s) ==
    LET feed(t, sig) == IF t.sigp[sig] THEN ev_feed_signal_event(t, sig) ELSE t
    IN IF s.flags["sig"] THEN feed(feed([s EXCEPT !.flags["sig"] = FALSE], "chld"), "usr") ELSE s

FeedAsyncs(s) ==
    LET ws == SelectSeq(Backwards(s.arrays[<<"async", 0>>]), LAMBDA w : s.sent[w])
        t == [s EXCEPT !.flags["async"] = FALSE,
                       !.sent = [w \in Users |-> @[w] /\ s.active[w] = 0]]
    IN IF s.flags["async"] THEN queue_events(t, ws, "ASYNC") ELSE s

pipecb(s, ev) ==
    FeedAsyncs(FeedSignals([s EXCEPT !.written = @ /\ "READ" \notin ev, !.skipped = FALSE]))

child_reap(s, chain, pid) ==
    LET ws == SelectSeq(s.childs[chain], LAMBDA w : ewWorld[w].pid \in {0, pid})
        set == {ws[i] : i \in 1..Len(ws)}
    IN queue_events([s EXCEPT !.rpid = [w \in Users |-> IF w \in set THEN pid ELSE @[w]],
                              !.prio = [w \in DOMAIN @ |-> IF w \in set THEN MAXPRI ELSE @[w]]],
                    ws, "CHILD")

\* childcb, when waitpid reports pid: it comes back for the next one.
childcb(s, pid) ==
    LET a == ev_feed_event([s EXCEPT !.zombies = @ \ {pid}], "childev", "SIGNAL")
    IN child_reap(child_reap(a, Chain(pid), pid), 0, pid)

\* once_cb_io and once_cb_to end both watchers before the program is called.
once_cb(s, w) ==
    LET a == event_stop(event_stop(s, w), CHOOSE o \in OfKind("once_io") \cup OfKind("once_to") : o # w)
    IN [a EXCEPT !.running = w, !.onces = @ + 1]

-----------------------------------------------------------------------------
(* ev_run, ev_invoke_pending, ev_loop_destroy.                             *)

Array(s, kind) == s.arrays[<<kind, 0>>]

\* EV_INVOKE_PENDING, then "next".
Invoking(s, next) == [s EXCEPT !.pc = "invoke", !.next = next, !.pendingpri = MAXPRI]
Queue(s, kind, ev, next) ==
    IF Array(s, kind) = <<>> THEN [s EXCEPT !.pc = next]
    ELSE Invoking(queue_events(s, Array(s, kind), ev), next)

Run ==
    /\ ew.pc = "out" /\ ew.running = EwNone
    /\ ew' = Invoking([ew EXCEPT !.loop_done = FALSE], "top")
    /\ UNCHANGED <<ewWorld, owed>>

RunFork ==
    /\ ew.pc = "top"
    /\ ew' = IF ew.postfork THEN Queue(ew, "fork", "FORK", "prepare") ELSE [ew EXCEPT !.pc = "prepare"]
    /\ UNCHANGED <<ewWorld, owed>>

RunPrepare ==
    /\ ew.pc = "prepare"
    /\ ew' = Queue(ew, "prepare", "PREPARE", "block")
    /\ UNCHANGED <<ewWorld, owed>>

\* loop_fork: a new pipe.
loop_fork(s) ==
    IF s.active["pipe_w"] = 0 THEN [s EXCEPT !.postfork = FALSE]
    ELSE [ev_feed_event(clear_pending(s, "pipe_w"), "pipe_w", "CUSTOM")
          EXCEPT !.postfork = FALSE, !.written = FALSE]

RunBlock ==
    /\ ew.pc = "block"
    /\ ew' = IF ew.loop_done THEN [ew EXCEPT !.pc = "out"]
             ELSE [(IF ew.postfork THEN loop_fork(ew) ELSE ew) EXCEPT !.pc = "poll", !.wanted = TRUE]
    /\ UNCHANGED <<ewWorld, owed>>

\* The idle watchers of the highest priority that has any, unless something of
\* that priority or above is pending.
idle_reify(s) ==
    LET busy == {p \in Pris : s.pendings[p] # <<>> \/ s.arrays[<<"idle", p>>] # <<>>}
        top == CHOOSE p \in busy : \A q \in busy : q <= p
    IN IF busy = {} \/ s.pendings[top] # <<>> THEN s
       ELSE queue_events(s, s.arrays[<<"idle", top>>], "IDLE")

\* backend_poll returns, with the events of the ev_once if they have come.
RunPoll(ready) ==
    /\ ew.pc = "poll"
    /\ ready \subseteq {w \in OfKind("once_io") \cup OfKind("once_to") : ew.active[w] # 0}
    /\ LET feed(s, k, ev) == IF OfKind(k) \cap ready = {} THEN s
                             ELSE ev_feed_event(s, CHOOSE w \in OfKind(k) : TRUE, ev)
           a == feed(IF ew.written THEN ev_feed_event(ew, "pipe_w", "READ") ELSE ew, "once_io", "READ")
           b == IF a.skipped THEN ev_feed_event(a, "pipe_w", "CUSTOM") ELSE a
           timers == OfKind("once_to") \cap ready
           c == feed([b EXCEPT !.active = [w \in DOMAIN @ |-> IF w \in timers THEN 0 ELSE @[w]],
                               !.activecnt = @ - Cardinality(timers)], "once_to", "TIMER")
           d == idle_reify(c)
       IN ew' = Invoking([queue_events(d, Array(d, "check"), "CHECK")
                          EXCEPT !.wanted = FALSE, !.loop_done = FALSE], "again")
    /\ UNCHANGED <<ewWorld, owed>>

RunAgain ==
    /\ ew.pc = "again"
    /\ ew' = [ew EXCEPT !.pc = IF ew.activecnt # 0 /\ ~ew.loop_done THEN "top" ELSE "out"]
    /\ UNCHANGED <<ewWorld, owed>>

Destroy ==
    /\ ew.pc = "out" /\ ew.running = EwNone
    /\ ew' = Queue(ew, "cleanup", "CLEANUP", "destroyed")
    /\ owed' = owed \cup ({w \in OfKind("cleanup") : ew.active[w] # 0} \X {0})
    /\ UNCHANGED ewWorld

\* ev_invoke_pending takes the newest event of the highest priority.
Invoke ==
    /\ ew.pc = "invoke" /\ ew.running = EwNone
    /\ LET levels == {p \in 0..ew.pendingpri : ew.pendings[p] # <<>>}
           p == CHOOSE p \in levels : \A q \in levels : q <= p
           e == ew.pendings[p][Len(ew.pendings[p])]
           a == [ew EXCEPT !.pendings[p] = SubSeq(@, 1, Len(@) - 1), !.pendingpri = p]
           s == IF e.w = EwNone THEN a ELSE [a EXCEPT !.pend[e.w] = 0]
       IN \/ levels = {} /\ ew' = [ew EXCEPT !.pc = ew.next] /\ UNCHANGED owed
          \/ levels # {} /\ e.w = EwNone /\ ew' = s /\ UNCHANGED owed
          \/ levels # {} /\ e.w = "pipe_w" /\ ew' = pipecb(s, e.ev) /\ UNCHANGED owed
          \/ /\ levels # {} /\ e.w = "childev" /\ UNCHANGED owed
             /\ IF s.zombies = {} THEN ew' = s ELSE \E pid \in s.zombies : ew' = childcb(s, pid)
          \/ /\ levels # {} /\ e.w \in Users
             /\ ew' = IF Kind(e.w) \in {"once_io", "once_to"} THEN once_cb(s, e.w)
                      ELSE [s EXCEPT !.running = e.w]
             /\ owed' = {d \in owed : d[1] # e.w \/ (Kind(e.w) = "child" /\ d[2] # s.rpid[e.w])}
    /\ UNCHANGED ewWorld

Return ==
    /\ ew.running # EwNone
    /\ ew' = [ew EXCEPT !.running = EwNone]
    /\ UNCHANGED <<ewWorld, owed>>

-----------------------------------------------------------------------------
(* The program, between its callbacks and in them, and its surroundings.   *)

Op(s) == ew.ops < EwOps /\ ew' = [s EXCEPT !.ops = @ + 1] /\ UNCHANGED ewWorld
Program == ew.running # EwNone \/ ew.pc = "out"

StartOne(w) ==
    /\ Program /\ Kind(w) \notin {"once_io", "once_to"} /\ ew.active[w] = 0
    /\ Op(WatcherStart(ew, w)) /\ UNCHANGED owed

StopOne(w) ==
    /\ Program /\ Kind(w) \notin {"once_io", "once_to"} /\ (ew.active[w] # 0 \/ ew.pend[w] # 0)
    /\ Op(WatcherStop(ew, w))
    /\ owed' = {d \in owed : d[1] # w}

ev_once ==
    /\ Program /\ ~ew.once /\ OfKind("once_io") # {}
    /\ LET io == CHOOSE w \in OfKind("once_io") : TRUE
           to == CHOOSE w \in OfKind("once_to") : TRUE
       IN Op(WatcherStart(WatcherStart([ew EXCEPT !.once = TRUE], io), to))
    /\ UNCHANGED owed

\* ev_feed_event, called by a callback.  (Not for a child watcher: child_reap would
\* change the priority of a watcher that is pending.)
FeedOne(w) ==
    /\ ew.running # EwNone /\ ew.active[w] # 0 /\ ew.pend[w] = 0
    /\ Kind(w) \notin {"child", "once_io", "once_to"}
    /\ Op(ev_feed_event(ew, w, "CUSTOM")) /\ UNCHANGED owed

ev_break == ew.running # EwNone /\ ~ew.loop_done /\ Op([ew EXCEPT !.loop_done = TRUE]) /\ UNCHANGED owed

\* ev_loop_fork, in the child.  A fork that a fork or prepare callback makes is
\* not seen by the fork watchers.
ev_loop_fork ==
    /\ Program /\ OfKind("fork") # {} /\ Op([ew EXCEPT !.postfork = TRUE])
    /\ owed' = IF ew.pc = "invoke" /\ ew.next \in {"prepare", "block"} THEN owed
               ELSE owed \cup ({w \in OfKind("fork") : ew.active[w] # 0} \X {0})

Signalled ==
    /\ OfKind("signal") # {} /\ ew.handler["usr"] /\ Op(ev_feed_signal(ew, "usr"))
    /\ owed' = owed \cup ({w \in OfKind("signal") : ew.active[w] # 0} \X {0})

\* Another thread sends, to a loop that has a pipe.
ev_async_send(w) ==
    /\ Kind(w) = "async" /\ ew.active["pipe_w"] # 0
    /\ Op(evpipe_write([ew EXCEPT !.sent[w] = TRUE], "async"))
    /\ owed' = IF ew.active[w] # 0 THEN owed \cup {<<w, 0>>} ELSE owed

ChildExits(pid) ==
    /\ pid \in ew.children
    /\ Op(ev_feed_signal([ew EXCEPT !.children = @ \ {pid}, !.zombies = @ \cup {pid}], "chld"))
    /\ owed' = owed \cup ({w \in OfKind("child") : ew.active[w] # 0 /\ ewWorld[w].pid \in {0, pid}} \X {pid})

EwInit ==
    /\ ewWorld \in EwWorlds
    /\ ew = [pc |-> "out", next |-> "out", running |-> EwNone, ops |-> 0,
             pendings |-> [p \in Pris |-> <<>>], pendingpri |-> 0,
             pend |-> [w \in Users \cup Internal |-> 0],
             prio |-> [w \in Users \cup Internal |-> IF w \in Internal THEN MAXPRI ELSE ewWorld[w].pri],
             active |-> [w \in Users \cup Internal |-> IF w \in Internal THEN 1 ELSE 0],
             activecnt |-> 0,
             arrays |-> [k \in {<<a, 0>> : a \in ArrayKinds} \cup {<<"idle", p>> : p \in Pris} |-> <<>>],
             heads |-> [chld |-> <<"childev">>, usr |-> <<>>],
             handler |-> [chld |-> TRUE, usr |-> FALSE],
             childs |-> [c \in 0..EV_PID_HASHSIZE-1 |-> <<>>],
             sigp |-> [chld |-> FALSE, usr |-> FALSE], flags |-> [sig |-> FALSE, async |-> FALSE],
             sent |-> [w \in Users |-> FALSE], written |-> FALSE, skipped |-> FALSE, wanted |-> FALSE,
             zombies |-> {}, children |-> IF OfKind("child") = {} THEN {} ELSE {1, 2},
             rpid |-> [w \in Users |-> 0],
             postfork |-> FALSE, loop_done |-> FALSE, once |-> FALSE, onces |-> 0]
    /\ owed = {}

EwNext ==
    \/ Run \/ RunFork \/ RunPrepare \/ RunBlock \/ RunAgain \/ Destroy \/ Invoke \/ Return
    \/ \E ready \in SUBSET Users : RunPoll(ready)
    \/ ev_once \/ ev_break \/ ev_loop_fork \/ Signalled
    \/ \E w \in Users : StartOne(w) \/ StopOne(w) \/ FeedOne(w) \/ ev_async_send(w)
    \/ \E pid \in {1, 2} : ChildExits(pid)

-----------------------------------------------------------------------------
(* What is claimed.                                                        *)

\* ev_verify and more: a watcher knows its place in its array and in the queue of
\* pending events, whatever callbacks stop and start; the loop counts the active
\* watchers that are to keep it running; a signal has its handler as long as it
\* has a watcher (array_verify, ev_start, ev_stop, ev_unref, ev_signal_stop).
LoopConsistent ==
    /\ \A k \in DOMAIN ew.arrays : \A i \in 1..Len(ew.arrays[k]) : ew.active[ew.arrays[k][i]] = i
    /\ \A w \in Users : Kind(w) \in ArrayKinds /\ ew.active[w] # 0 =>
        ew.arrays[Key(ew, w)][ew.active[w]] = w
    /\ \A w \in DOMAIN ew.pend : ew.pend[w] # 0 => ew.pendings[ew.prio[w]][ew.pend[w]].w = w
    /\ \A p \in Pris : \A i \in 1..Len(ew.pendings[p]) :
        ew.pendings[p][i].w # EwNone => ew.pend[ew.pendings[p][i].w] = i
    /\ ew.activecnt = Cardinality({w \in Users \ OfKind("cleanup") : ew.active[w] # 0})
    /\ \A sig \in {"usr", "chld"} : ew.handler[sig] <=> ew.heads[sig] # <<>>

\* The loop knows that it has something to look at.
Awake == ew.written \/ ew.skipped \/ ew.pend["pipe_w"] > 0
SignalDue(sig) == ew.sigp[sig] /\ ew.flags["sig"] /\ Awake

\* Whoever is owed a callback will get it: a signal that came, an async that was
\* sent or a child that ended while the watcher was active is pending, or the loop
\* has been woken and will find it, whatever was stopped, started or forked in
\* between (evpipe_write, pipecb, childcb, loop_fork).
NoWakeupLost ==
    \A d \in owed :
        \/ ew.pend[d[1]] > 0
        \/ Kind(d[1]) = "signal" /\ SignalDue("usr")
        \/ Kind(d[1]) = "async" /\ ew.sent[d[1]] /\ ew.flags["async"] /\ Awake
        \/ Kind(d[1]) = "child" /\ d[2] \in ew.zombies /\ (ew.pend["childev"] > 0 \/ SignalDue("chld"))
        \/ Kind(d[1]) = "fork"

\* Fork watchers are called before the loop blocks, cleanup watchers before it is
\* gone (ev_run, ev_loop_destroy).
CalledInTime ==
    /\ ew.pc = "poll" => \A d \in owed : Kind(d[1]) # "fork"
    /\ ew.pc = "destroyed" => \A d \in owed : Kind(d[1]) # "cleanup"

\* An ev_once calls its program once, though its fd and its timer may both be
\* due, and leaves no watcher behind in memory that is freed (once_cb).
OnceOnce ==
    /\ ew.onces <= 1
    /\ ew.onces = 1 => \A w \in OfKind("once_io") \cup OfKind("once_to") :
        ew.active[w] = 0 /\ ew.pend[w] = 0

\* A callback is called when nothing of a higher priority is pending, also if a
\* callback of a lower priority has just made it pending (ev_invoke_pending).
PriorityOrder ==
    [][\A w \in Users : ew.running = EwNone /\ ew'.running = w =>
        \A p \in ew'.pendingpri+1..MAXPRI : ew.pendings[p] = <<>>]_ew_vars

\* A child watcher is called for each child: its rpid is not overwritten while its
\* callback is due (the order of the events of childcb, the priority child_reap
\* gives the watchers).
StatusKept ==
    [][\A w \in Users : ew.pend[w] > 0 /\ ew'.pend[w] > 0 => ew'.rpid[w] = ew.rpid[w]]_ew_vars

-----------------------------------------------------------------------------
(***************************************************************************)
(* The heaps in which libev keeps its timers and periodics (libev/ev.c):   *)
(* 4-ary, or binary in a build without EV_USE_4HEAP, with the time of each *)
(* watcher cached in its entry.  EvLoop takes the heap of timers for the   *)
(* set of active timers; what this module checks is why it may.            *)
(*                                                                         *)
(* A heap is [entries, active, at]: entries is the array from HEAP0 on, an *)
(* entry [w, at]; active[w] is ev_active(w) - HEAP0 + 1, 0 when w is not   *)
(* active; at[w] is ev_at(w), and 0 when w is not active, for a watcher is *)
(* set before it is started.                                               *)
(***************************************************************************)

CONSTANTS
    HeapWatchers,   \* numbers
    HeapWorlds,     \* [kind, dheap, count, slept, steps]: which heap, DHEAP, how many
                    \* watchers the program has started first (it has one more),
                    \* the time it slept, and the bound on the steps after that
    Delays          \* times ahead, and intervals other than 0

LOCAL Seqs == INSTANCE SequencesExt

VARIABLES
    heapWorld,
    clock,          \* mn_now, or ev_rt_now for periodics
    hp,             \* the heap
    again,          \* w->repeat, or w->interval; Callback: w->reschedule_cb is set
    fed,            \* the watchers the last step made pending, in order
    heapSteps

heap_vars == <<heapWorld, clock, hp, again, fed, heapSteps>>

Callback == -1

\* Children and parents, counted from 1, for any DHEAP.
Children(dheap, N, k) == {c \in (dheap * (k - 1) + 2)..(dheap * k + 1) : c <= N}
HPARENT(dheap, k) == ((k - 2) \div dheap) + 1

-----------------------------------------------------------------------------
(* The heap.                                                               *)

\* heap[k] = he and ev_active (ANHE_w (he)) = k.
Put(h, k, he) == [h EXCEPT !.entries[k] = he, !.active[he.w] = k]

\* Mutant: the first child is taken for the least.
MinChild_first(dheap, h, N, k) == Seqs!SetToSortSeq(Children(dheap, N, k), <)[1]

\* minpos: the first of the least children.
MinChild(dheap, h, N, k) ==
    CHOOSE c \in Children(dheap, N, k) : \A d \in Children(dheap, N, k) :
        \/ h.entries[c].at < h.entries[d].at
        \/ h.entries[c].at = h.entries[d].at /\ c <= d

\* Away from the root; he is the entry that looks for a place.
RECURSIVE down(_, _, _, _, _)
down(dheap, h, N, k, he) ==
    IF Children(dheap, N, k) = {} THEN Put(h, k, he)
    ELSE LET c == MinChild(dheap, h, N, k) IN
         IF he.at <= h.entries[c].at THEN Put(h, k, he)
         ELSE down(dheap, Put(h, k, h.entries[c]), N, c, he)

downheap(dheap, h, N, k) == down(dheap, h, N, k, h.entries[k])

\* Towards the root.
RECURSIVE up(_, _, _, _)
up(dheap, h, k, he) ==
    IF k = 1 THEN Put(h, k, he)
    ELSE LET p == HPARENT(dheap, k) IN
         IF h.entries[p].at <= he.at THEN Put(h, k, he)
         ELSE up(dheap, Put(h, k, h.entries[p]), p, he)

upheap(dheap, h, k) == up(dheap, h, k, h.entries[k])

adjustheap(dheap, h, N, k) ==
    IF k > 1 /\ h.entries[k].at <= h.entries[HPARENT(dheap, k)].at
    THEN upheap(dheap, h, k) ELSE downheap(dheap, h, N, k)

reheap(dheap, h) ==
    Seqs!FoldLeft(LAMBDA g, k : upheap(dheap, g, k), h, [k \in DOMAIN h.entries |-> k])

\* ev_timer_start and ev_periodic_start, of a watcher that is due at at.
Push(dheap, h, w, at) ==
    upheap(dheap, [entries |-> Append(h.entries, [w |-> w, at |-> at]),
                   active |-> [h.active EXCEPT ![w] = Len(h.entries) + 1],
                   at |-> [h.at EXCEPT ![w] = at]],
           Len(h.entries) + 1)

\* ev_timer_stop and ev_periodic_stop, of an active watcher: the last entry takes
\* its place.
Pop(dheap, h, w) ==
    LET k == h.active[w]
        N == Len(h.entries) - 1
        cut == [h EXCEPT !.entries = SubSeq(@, 1, N)]
        adjusted == IF k <= N
                    THEN adjustheap(dheap, [cut EXCEPT !.entries[k] = h.entries[N + 1]], N, k)
                    ELSE cut
    IN  [adjusted EXCEPT !.active[w] = 0, !.at[w] = 0]

\* ev_at (w) = at and ANHE_at_cache.
Retime(h, w, at) == [h EXCEPT !.at[w] = at, !.entries[h.active[w]].at = at]

-----------------------------------------------------------------------------
(* Times.                                                                  *)

\* The first multiple of the interval that is after time (offset is 0).
periodic_recalc(interval, time) == interval * ((time \div interval) + 1)

\* What a callback of the program may return.
reschedule_cb(w, time) == time + (w % 3)

\* When a watcher that stays active is due again.
NextAt(w, at, time) ==
    IF heapWorld.kind = "timers"
    THEN IF at + again[w] < time THEN time ELSE at + again[w]
    ELSE IF again[w] = Callback THEN reschedule_cb(w, time) ELSE periodic_recalc(again[w], time)

\* timers_reify and periodics_reify: the heap they leave, and what they feed.
RECURSIVE reify(_, _)
reify(h, done) ==
    LET w == h.entries[1].w IN
    IF h.entries = <<>> \/ h.entries[1].at >= clock THEN [heap |-> h, fed |-> done]
    ELSE reify(IF again[w] = 0 THEN Pop(heapWorld.dheap, h, w)
               ELSE downheap(heapWorld.dheap, Retime(h, w, NextAt(w, h.at[w], clock)),
                             Len(h.entries), 1),
               Append(done, w))

-----------------------------------------------------------------------------
(* Steps.                                                                  *)

\* ev_timer_again of a timer that is not active, or does not repeat, starts it
\* with its repeat, or stops it.
HeapStep == heapSteps < heapWorld.steps /\ heapSteps' = heapSteps + 1 /\ UNCHANGED heapWorld

Start(w, delay, repeat) ==
    /\ HeapStep /\ hp.active[w] = 0 /\ w <= heapWorld.count + 1
    /\ again' = [again EXCEPT ![w] = repeat]
    /\ hp' = Push(heapWorld.dheap, hp, w,
                  IF heapWorld.kind = "timers" \/ repeat = 0 THEN clock + delay
                  ELSE IF repeat = Callback THEN reschedule_cb(w, clock)
                  ELSE periodic_recalc(repeat, clock))
    /\ fed' = <<>> /\ UNCHANGED clock

StopWatcher(w) ==
    /\ HeapStep /\ hp.active[w] # 0
    /\ hp' = Pop(heapWorld.dheap, hp, w)
    /\ fed' = <<>> /\ UNCHANGED <<clock, again>>

ev_timer_again(w) ==
    /\ HeapStep /\ heapWorld.kind = "timers" /\ hp.active[w] # 0 /\ again[w] # 0
    /\ hp' = adjustheap(heapWorld.dheap, Retime(hp, w, clock + again[w]), Len(hp.entries), hp.active[w])
    /\ fed' = <<>> /\ UNCHANGED <<clock, again>>

\* A periodic is stopped and started.
ev_periodic_again(w) ==
    /\ HeapStep /\ heapWorld.kind = "periodics" /\ hp.active[w] # 0 /\ again[w] # 0
    /\ hp' = Push(heapWorld.dheap, Pop(heapWorld.dheap, hp, w), w,
                  IF again[w] = Callback THEN reschedule_cb(w, clock)
                  ELSE periodic_recalc(again[w], clock))
    /\ fed' = <<>> /\ UNCHANGED <<clock, again>>

\* The loop has slept, and time_update sees no jump.
Elapse(time) ==
    /\ HeapStep /\ time > clock /\ clock' = time
    /\ fed' = <<>> /\ UNCHANGED <<hp, again>>

\* timers_reschedule moves all times; periodics_reschedule computes all of them
\* again, and then the heap.
Rescheduled(time) ==
    LET AtOf(w) == IF heapWorld.kind = "timers" THEN hp.at[w] + (time - clock)
                   ELSE IF again[w] = 0 THEN hp.at[w] ELSE NextAt(w, hp.at[w], time)
        moved == [hp EXCEPT !.at = [w \in HeapWatchers |-> IF hp.active[w] = 0 THEN 0 ELSE AtOf(w)],
                            !.entries = [k \in DOMAIN hp.entries |->
                                [w |-> hp.entries[k].w, at |-> AtOf(hp.entries[k].w)]]]
    IN  IF heapWorld.kind = "timers" THEN moved ELSE reheap(heapWorld.dheap, moved)

\* time_update sees that the clock has jumped.
Jump(time) ==
    /\ HeapStep /\ time # clock /\ clock' = time
    /\ hp' = Rescheduled(time)
    /\ fed' = <<>> /\ UNCHANGED again

Reify ==
    /\ HeapStep
    /\ hp' = reify(hp, <<>>).heap /\ fed' = reify(hp, <<>>).fed
    /\ UNCHANGED <<clock, again>>

Repeats == {0} \cup Delays \cup (IF heapWorld.kind = "periodics" THEN {Callback} ELSE {})

\* The program has started watchers 1, 2, ..., with some delays (no periodic of
\* theirs repeats yet, every second one of the timers does), and may have slept.
HeapInit ==
    /\ heapWorld \in HeapWorlds /\ clock \in {0, heapWorld.slept} /\ fed = <<>> /\ heapSteps = 0
    /\ again = [w \in HeapWatchers |->
                   IF heapWorld.kind = "timers" /\ w <= heapWorld.count THEN w % 2 ELSE 0]
    /\ \E delays \in [1..heapWorld.count -> Delays] :
        hp = Seqs!FoldLeft(LAMBDA h, w : Push(heapWorld.dheap, h, w, delays[w]),
                           [entries |-> <<>>, active |-> [w \in HeapWatchers |-> 0],
                            at |-> [w \in HeapWatchers |-> 0]],
                           [w \in 1..heapWorld.count |-> w])

HeapNext ==
    \/ Reify
    \/ \E w \in HeapWatchers :
        \/ \E delay \in Delays : \E repeat \in Repeats : Start(w, delay, repeat)
        \/ StopWatcher(w) \/ ev_timer_again(w) \/ ev_periodic_again(w)
    \/ \E time \in 0..3 : Elapse(time) \/ Jump(time)

-----------------------------------------------------------------------------
(* What is claimed.                                                        *)

\* The asserts of ev_verify, after any starts, stops, restarts, expiries and jumps
\* of the clock: an entry and its watcher know each other, agree on the time, and
\* no entry is due before its parent.
verify_heap ==
    /\ \A k \in DOMAIN hp.entries :
        /\ hp.active[hp.entries[k].w] = k
        /\ k > 1 => hp.entries[HPARENT(heapWorld.dheap, k)].at <= hp.entries[k].at
        /\ hp.entries[k].at = hp.at[hp.entries[k].w]
    /\ Cardinality({w \in HeapWatchers : hp.active[w] # 0}) = Len(hp.entries)

\* timers_reify and periodics_reify, which only look at the first entry, make
\* pending all watchers that are due and no other, each once however often it is
\* due, in the order of their times; and none is due then.
RunsWhatIsDue ==
    [][ LET due == {w \in HeapWatchers : hp.active[w] # 0 /\ hp.at[w] < clock} IN
        Reify => /\ Seqs!ToSet(fed') = due /\ Len(fed') = Cardinality(due)
                 /\ \A i \in 1..(Len(fed') - 1) : hp.at[fed'[i]] <= hp.at[fed'[i + 1]]
                 /\ \A w \in HeapWatchers : hp'.active[w] # 0 => hp'.at[w] >= clock ]_heap_vars

-----------------------------------------------------------------------------
(***************************************************************************)
(* How libev tells the kernel what its io watchers wait for: poll, select, *)
(* kqueue and event ports (libev/ev_poll.c, ev_select.c, ev_kqueue.c,      *)
(* ev_port.c) under fd_reify, fd_change, fd_event and fd_kill of ev.c, and *)
(* the choice between them (loop_init).  EvLoop has epoll.                 *)
(*                                                                         *)
(* A descriptor that is closed and opened again is another file: kqueue    *)
(* and ports forget what was asked about the old one, silently.  A watcher *)
(* waits for one event; the program stops the watchers of a descriptor     *)
(* before it closes it, and calls ev_io_set when it has opened it again.   *)
(***************************************************************************)

CONSTANTS
    BkFds,
    NFDBITS,        \* bits of a word of select's sets
    MaxFiles,       \* bound: files opened
    BkWorlds        \* how the loop is made, and what may happen

VARIABLES
    bkWorld,    \* ask: what loop_init is given; faults: poll may be interrupted or fail;
                \* fork: the process may fork; steps: bound on what the program does
    files,      \* the file a descriptor is, 0 if it is closed
    opened,     \* files opened so far
    active,     \* the watchers: <<fd, event>>
    ioset,      \* what file fd was when ev_io_set was last called, for each watcher
    anfds,      \* events and reify
    fdchanges,
    user,       \* polls of poll, ri and wi of select, changes of kqueue
    kern,       \* kqueue's filters, or the associations of a port: <<fd, event>>
    phase,      \* "calls", "poll"
    bkFed,        \* what the last poll bkFed: [w, ev, file]
    told,       \* the last poll went through
    bkSteps

bk_vars == <<bkWorld, files, opened, active, ioset, anfds, fdchanges, user, kern, phase, bkFed, told, bkSteps>>

READ == "read"
WRITE == "write"
Events == {READ, WRITE}
WatchersOf(fd, as) == {w \in as : w[1] = fd}
Wanted(fd, as) == {w[2] : w \in WatchersOf(fd, as)}

\* The part of the state the functions of libev change.
Loop == [anfds |-> anfds, changes |-> fdchanges, user |-> user, kern |-> kern, active |-> active, fed |-> {}]

-----------------------------------------------------------------------------
(* The choice.  An ask: flags, the backends the program names; noenv,      *)
(* EVFLAG_NOENV; env, those LIBEV_FLAGS names, {"unset"} if it is not set; *)
(* secure, the process has other privileges; build, the backends built     *)
(* in; system; broken, those whose init fails.                             *)

ev_recommended_backends(ask) ==
    ask.build \ ((IF ask.system \in {"NetBSD", "FreeBSD"} THEN {} ELSE {"kqueue"})
                 \cup (IF ask.system \in {"Apple", "FreeBSD"} THEN {"poll"} ELSE {}))

Named(ask) == IF ask.noenv \/ ask.secure \/ ask.env = {"unset"} THEN ask.flags ELSE ask.env

\* Those that are tried, in this order, until one can be set up.
loop_init(ask) ==
    LET flags == IF Named(ask) = {} THEN ev_recommended_backends(ask) ELSE Named(ask)
        usable == SelectSeq(<<"port", "kqueue", "epoll", "poll", "select">>,
                            LAMBDA b : b \in (flags \cap ask.build) \ ask.broken)
    IN IF usable = <<>> THEN "none" ELSE usable[1]

backend == loop_init(bkWorld.ask)

-----------------------------------------------------------------------------
(* ev.c.  reify is the set of flags: IOFDSET, REIFY.                       *)

fd_change(l, fd, flags) ==
    [l EXCEPT !.anfds[fd].reify = @ \cup flags,
              !.changes = IF l.anfds[fd].reify = {} THEN Append(@, fd) ELSE @]

ev_io_stop(l, w) == [fd_change(l, w[1], {"REIFY"}) EXCEPT !.active = @ \ {w}]

fd_kill(l, fd) ==
    LET ws == WatchersOf(fd, l.active)
        stopped == FoldSet(LAMBDA w, k : ev_io_stop(k, w), l, ws)
    IN [stopped EXCEPT !.fed = @ \cup {[w |-> w, ev |-> "error", file |-> files[fd]] : w \in ws}]

fd_event(l, fd, revents) ==
    IF l.anfds[fd].reify # {} THEN l
    ELSE [l EXCEPT !.fed = @ \cup {[w |-> w, ev |-> w[2], file |-> files[fd]] :
                                   w \in {x \in WatchersOf(fd, l.active) : x[2] \in revents}}]

fd_valid(fd) == files[fd] # 0

fd_ebadf(l) ==
    FoldSet(LAMBDA fd, k : fd_kill(k, fd), l, {fd \in BkFds : l.anfds[fd].events # {} /\ ~fd_valid(fd)})

fd_enomem(l) ==
    LET some == {fd \in BkFds : l.anfds[fd].events # {}}
    IN IF some = {} THEN l ELSE fd_kill(l, Max(some))

fd_rearm_all(l) ==
    FoldSet(LAMBDA fd, k : fd_change([k EXCEPT !.anfds[fd].events = {}], fd, {"IOFDSET", "REIFY"}), l,
            {fd \in BkFds : l.anfds[fd].events # {}})

-----------------------------------------------------------------------------
(* poll: an array of the descriptors, and where each is in it.             *)

IdxOf(polls, fd) == SelectInSeq(polls, LAMBDA p : p.fd = fd)

\* The last entry takes the place of the one removed.
poll_remove(polls, idx) ==
    IF idx < Len(polls) THEN Front([polls EXCEPT ![idx] = polls[Len(polls)]]) ELSE Front(polls)

poll_modify(l, fd, oev, nev) ==
    LET idx == IdxOf(l.user.polls, fd)
        with == IF idx = 0 THEN Append(l.user.polls, [fd |-> fd, events |-> nev])
                ELSE [l.user.polls EXCEPT ![idx].events = nev]
    IN IF oev = nev THEN l
       ELSE [l EXCEPT !.user.polls = IF nev = {} THEN poll_remove(with, IdxOf(with, fd)) ELSE with]

-----------------------------------------------------------------------------
(* select: two bit sets, as long as the largest descriptor needs.          *)

select_grow(bits, words) ==
    [b \in 0..(words * NFDBITS - 1) |-> IF b \in DOMAIN bits THEN bits[b] ELSE FALSE]

select_modify(l, fd, oev, nev) ==
    LET words == Max({Cardinality(DOMAIN l.user.ri) \div NFDBITS, (fd \div NFDBITS) + 1})
    IN IF oev = nev THEN l
       ELSE [l EXCEPT !.user.ri = [select_grow(@, words) EXCEPT ![fd] = READ \in nev],
                      !.user.wi = [select_grow(@, words) EXCEPT ![fd] = WRITE \in nev]]

-----------------------------------------------------------------------------
(* kqueue: a list of changes, handed over with the next kevent.            *)

kqueue_change(l, fd, ev, what) == [l EXCEPT !.user.changes = Append(@, [fd |-> fd, ev |-> ev, what |-> what])]

ChangeAll(l, fd, evs, what) ==
    FoldLeft(LAMBDA k, ev : kqueue_change(k, fd, ev, what), l, SelectSeq(<<READ, WRITE>>, LAMBDA ev : ev \in evs))

\* To detect close and reopen.
kqueue_readd(oev, nev) == nev

kqueue_modify(l, fd, oev, nev) ==
    ChangeAll(IF oev # nev THEN ChangeAll(l, fd, oev, "delete") ELSE l, fd, kqueue_readd(oev, nev), "add")

\* What kevent makes of a change: the filters, and the errors so far.
KeventChange(k, c) ==
    LET filter == <<c.fd, c.ev>>
        err == IF files[c.fd] = 0 THEN "EBADF" ELSE IF c.what = "delete" /\ filter \notin k.kern THEN "ENOENT" ELSE "ok"
    IN IF err # "ok" THEN [k EXCEPT !.errors = Append(@, [fd |-> c.fd, err |-> err])]
       ELSE [k EXCEPT !.kern = IF c.what = "add" THEN @ \cup {filter} ELSE @ \ {filter}]
Kevent(l) == FoldLeft(KeventChange, [kern |-> l.kern, errors |-> <<>>], l.user.changes)

\* An error kqueue_poll finds in its events.
kqueue_error(l, e) ==
    IF l.anfds[e.fd].events = {} THEN l
    ELSE IF e.err = "ENOENT" \/ fd_valid(e.fd) THEN kqueue_modify(l, e.fd, {}, l.anfds[e.fd].events)
    ELSE fd_kill(l, e.fd)

-----------------------------------------------------------------------------
(* Event ports: an association ends with the event it reports.             *)

port_associate_and_check(l, fd, ev) ==
    IF files[fd] = 0 THEN fd_kill(l, fd)
    ELSE [l EXCEPT !.kern = {k \in @ : k[1] # fd} \cup {<<fd, e>> : e \in ev}]

port_modify(l, fd, oev, nev) ==
    IF nev # {} THEN port_associate_and_check(l, fd, nev)
    ELSE IF oev # {} THEN [l EXCEPT !.kern = {k \in @ : k[1] # fd}] ELSE l

-----------------------------------------------------------------------------
(* An iteration of the loop.                                               *)

backend_modify(l, fd, oev, nev) ==
    CASE backend = "poll" -> poll_modify(l, fd, oev, nev)
      [] backend = "select" -> select_modify(l, fd, oev, nev)
      [] backend = "kqueue" -> kqueue_modify(l, fd, oev, nev)
      [] OTHER -> port_modify(l, fd, oev, nev)

\* One entry of fdchanges.
ReifyOne(l, fd) ==
    LET oev == l.anfds[fd].events
        nev == Wanted(fd, l.active)
        clean == [l EXCEPT !.anfds[fd] = [events |-> nev, reify |-> {}]]
    IN IF "IOFDSET" \in l.anfds[fd].reify \/ oev # nev THEN backend_modify(clean, fd, oev, nev) ELSE clean

\* backend_modify may add to the list while it is walked.
RECURSIVE ReifyFrom(_, _)
ReifyFrom(l, i) == IF i > Len(l.changes) THEN [l EXCEPT !.changes = <<>>] ELSE ReifyFrom(ReifyOne(l, l.changes[i]), i + 1)

Becomes(l) ==
    /\ anfds' = l.anfds /\ fdchanges' = l.changes /\ user' = l.user /\ kern' = l.kern /\ active' = l.active

fd_reify ==
    /\ phase = "calls" /\ backend # "none" /\ Becomes(ReifyFrom(Loop, 1))
    /\ phase' = "poll" /\ bkFed' = ReifyFrom(Loop, 1).fed
    /\ UNCHANGED <<bkWorld, files, opened, ioset, told, bkSteps>>

\* The events a descriptor is asked about in this call, <<fd, event>>.
Asked(l) ==
    CASE backend = "poll" -> UNION {{<<p.fd, e>> : e \in p.events} : p \in ToSet(l.user.polls)}
      [] backend = "select" ->
            {<<fd, READ>> : fd \in {b \in DOMAIN l.user.ri : l.user.ri[b]}}
            \cup {<<fd, WRITE>> : fd \in {b \in DOMAIN l.user.wi : l.user.wi[b]}}
      [] backend = "kqueue" -> Kevent(l).kern
      [] OTHER -> l.kern

\* The descriptors that have something, and what; an error is both events.
Reports(asked, ready, broken) ==
    [fd \in {a[1] : a \in asked} |->
        IF fd \in broken THEN Events ELSE {e \in Events : <<fd, e>> \in asked \cap ready}]
FeedAll(l, reports) ==
    FoldSet(LAMBDA fd, k : fd_event(k, fd, reports[fd]), l, {fd \in DOMAIN reports : reports[fd] # {}})

poll_poll(l, ready, broken) ==
    LET bad == {p.fd : p \in ToSet(l.user.polls)} \cap {fd \in BkFds : ~fd_valid(fd)}
    IN FeedAll(FoldSet(LAMBDA fd, k : fd_kill(k, fd), l, bad), Reports({a \in Asked(l) : a[1] \notin bad}, ready, broken))

select_poll(l, ready, broken) ==
    IF \E a \in Asked(l) : a[1] \in BkFds /\ ~fd_valid(a[1]) THEN fd_ebadf(l)
    ELSE FeedAll(l, Reports(Asked(l), ready, {}))

kqueue_poll(l, ready, broken) ==
    LET did == Kevent(l)
        done == [l EXCEPT !.kern = did.kern, !.user.changes = <<>>]
    IN IF did.errors # <<>> THEN FoldLeft(kqueue_error, done, did.errors)
       ELSE FeedAll(done, Reports(did.kern, ready, {}))

\* Every descriptor that was reported is to be associated again.
port_poll(l, ready, broken) ==
    LET reports == Reports(l.kern, ready, broken)
        hit == {fd \in DOMAIN reports : reports[fd] # {}}
    IN FoldSet(LAMBDA fd, k : fd_change(k, fd, {"IOFDSET"}),
               [FeedAll(l, reports) EXCEPT !.kern = {k \in @ : k[1] \notin hit}], hit)

backend_poll(l, ready, broken) ==
    CASE backend = "poll" -> poll_poll(l, ready, broken)
      [] backend = "select" -> select_poll(l, ready, broken)
      [] backend = "kqueue" -> kqueue_poll(l, ready, broken)
      [] OTHER -> port_poll(l, ready, broken)

Poll ==
    /\ phase = "poll" /\ phase' = "calls"
    /\ \E ready \in SUBSET {<<fd, e>> : fd \in {f \in BkFds : fd_valid(f)}, e \in Events} :
       \E broken \in kSubset(1, {f \in BkFds : fd_valid(f)}) \cup {{}} :
        LET l == backend_poll(Loop, ready, broken)
        IN Becomes(l) /\ bkFed' = l.fed
    /\ told' = TRUE
    /\ UNCHANGED <<bkWorld, files, opened, ioset, bkSteps>>

\* EINTR, and ENOMEM of poll and select.
PollFails ==
    /\ phase = "poll" /\ phase' = "calls" /\ bkWorld.faults
    /\ \/ Becomes([Loop EXCEPT !.user.changes = <<>>, !.kern = IF backend = "kqueue" THEN Kevent(Loop).kern ELSE @])
          /\ bkFed' = {} /\ (backend = "kqueue" => Kevent(Loop).errors = <<>>)
       \/ /\ backend \in {"poll", "select"}
          /\ Becomes(fd_enomem(Loop)) /\ bkFed' = fd_enomem(Loop).fed
    /\ told' = FALSE
    /\ UNCHANGED <<bkWorld, files, opened, ioset, bkSteps>>

-----------------------------------------------------------------------------
(* The program, in its callbacks.                                          *)

Calls == phase = "calls" /\ bkSteps < bkWorld.steps /\ bkSteps' = bkSteps + 1 /\ UNCHANGED <<bkWorld, phase, bkFed, told>>

\* ev_io_start, after ev_io_set if the descriptor is another file now, or none.
ev_io_start(w) ==
    /\ Calls /\ w \notin active
    /\ LET flags == IF ioset[w] = files[w[1]] /\ fd_valid(w[1]) THEN {"REIFY"} ELSE {"IOFDSET", "REIFY"}
       IN Becomes([fd_change(Loop, w[1], flags) EXCEPT !.active = @ \cup {w}])
    /\ ioset' = [ioset EXCEPT ![w] = files[w[1]]]
    /\ UNCHANGED <<files, opened>>

Stop(w) == Calls /\ w \in active /\ Becomes(ev_io_stop(Loop, w)) /\ UNCHANGED <<files, opened, ioset>>

Open(fd) ==
    /\ Calls /\ files[fd] = 0 /\ WatchersOf(fd, active) = {} /\ opened < MaxFiles
    /\ files' = [files EXCEPT ![fd] = opened + 1] /\ opened' = opened + 1
    /\ UNCHANGED <<active, ioset, anfds, fdchanges, user, kern>>

\* The kernel forgets what it was asked about the file.
Close(fd) ==
    /\ Calls /\ files[fd] # 0 /\ WatchersOf(fd, active) = {}
    /\ files' = [files EXCEPT ![fd] = 0] /\ kern' = {k \in kern : k[1] # fd}
    /\ UNCHANGED <<opened, active, ioset, anfds, fdchanges, user>>

\* kqueue_fork and port_fork: a new queue, in the child.
backend_fork ==
    /\ Calls /\ bkWorld.fork /\ backend \in {"kqueue", "port"}
    /\ Becomes(fd_rearm_all([Loop EXCEPT !.kern = {}]))
    /\ UNCHANGED <<files, opened, ioset>>

BkStart ==
    /\ files = [fd \in BkFds |-> 0] /\ opened = 0 /\ active = {}
    /\ ioset = [w \in BkFds \X Events |-> 0]
    /\ anfds = [fd \in BkFds |-> [events |-> {}, reify |-> {}]] /\ fdchanges = <<>>
    /\ user = [polls |-> <<>>, ri |-> <<>>, wi |-> <<>>, changes |-> <<>>] /\ kern = {}
    /\ phase = "calls" /\ bkFed = {} /\ told = FALSE /\ bkSteps = 0

BkInit == bkWorld \in BkWorlds /\ BkStart

BkNext ==
    \/ fd_reify \/ Poll \/ PollFails \/ backend_fork
    \/ \E w \in BkFds \X Events : ev_io_start(w) \/ Stop(w)
    \/ \E fd \in BkFds : Open(fd) \/ Close(fd)

-----------------------------------------------------------------------------
(* What is claimed.                                                        *)

\* When libev waits, it waits for just what the watchers want of the files that
\* are open now, though descriptors were closed and opened again, associations
\* used up, changes refused and the process forked since it last told the kernel
\* (fd_reify, EV__IOFDSET, and what each backend does when oev is nev).  kqueue_fork
\* keeps changes that kqueue_poll was to submit again: a child may wait for more.
KernelAgrees ==
    phase = "poll" => \A fd \in BkFds : fd_valid(fd) \/ WatchersOf(fd, active) = {} =>
        LET asked == {a[2] : a \in {x \in Asked(Loop) : x[1] = fd}}
        IN /\ Wanted(fd, active) \subseteq asked
           /\ asked \subseteq Wanted(fd, active) \/ (backend = "kqueue" /\ bkWorld.fork)

\* A watcher on a descriptor that is not open is stopped and told so by the next
\* poll that goes through; it is not left waiting (POLLNVAL, fd_ebadf, EBADF in
\* kqueue_poll, port_associate_and_check).
BadFdTold ==
    phase = "calls" /\ told => \A w \in active : fd_valid(w[1]) \/ anfds[w[1]].reify # {}

\* A loop runs on a backend the program allowed, or LIBEV_FLAGS did when nothing
\* forbids it; the environment of a process with other privileges has no say, and
\* a program that names none is not given one libev knows to be bad on the system
\* (loop_init, enable_secure, ev_recommended_backends).
BackendAllowed ==
    LET ask == bkWorld.ask
        heeded == ask.env # {"unset"} /\ ~ask.noenv /\ ~ask.secure
    IN /\ backend \in (ask.build \ ask.broken) \cup {"none"}
       /\ ~heeded /\ ask.flags # {} => backend \in ask.flags \cup {"none"}
       /\ heeded /\ ask.env # {} => backend \in ask.env \cup {"none"}
       /\ (IF heeded THEN ask.env ELSE ask.flags) = {} =>
            /\ backend = "kqueue" => ask.system \in {"NetBSD", "FreeBSD"}
            /\ backend = "poll" => ask.system \notin {"Apple", "FreeBSD"}

(***************************************************************************)
(* ev_stat watchers, and the inotify descriptor they share (ev.c).  All of *)
(* them watch the file "/d/f" here.  inotify says what happens to a file   *)
(* or a directory once it is watched; it may also be full, forget events,  *)
(* or see only what this machine does to the file system.  Other processes *)
(* change the files at any time, also in the middle of a callback.         *)
(***************************************************************************)

CONSTANTS
    StatWatchers,
    MaxQueued,      \* bound: the events inotify keeps
    StWorlds        \* local: the file system is one infy_add knows to be local;
                    \* fs_2625: the kernel is new enough; inotify: there is
                    \* inotify at all; watches: how many it allows; watchers,
                    \* changes, calls: bounds, the watchers the program has,
                    \* what happens to the files and what the program does

VARIABLES
    stWorld,
    st,         \* the watchers, inotify and the loop's reference count
    tree,       \* dir and ino: the inodes of /d and /d/f, 0 if not there
    todo,       \* what is left to do for the event being handled: [w, readd]
    racing,     \* the watcher ev_stat_start or stat_timer_cb is at, after lstat
    behind,     \* the watchers put onto inotify when their attr was old
    stSteps     \* changes and calls so far

st_vars == <<stWorld, st, tree, todo, racing, behind, stSteps>>

NoWatcher == [w |-> 0, at |-> "none"]
One(b) == IF b THEN 1 ELSE 0
StActive(s) == {w \in StatWatchers : s.ws[w].active}

\* What lstat says; libev notes a file that is gone as st_nlink = 0.
Attr(old) == IF tree.ino = 0 THEN [old EXCEPT !.there = FALSE] ELSE [id |-> <<tree.ino, tree.ver>>, there |-> TRUE]
SameFile(a, b) == a.there = b.there /\ (a.there => a.id = b.id)

-----------------------------------------------------------------------------
(* inotify: watches [ino, wd, mask], wd in the order they were made;       *)
(* silent, those that were dropped when nothing more could be told.        *)

NewInotify == [watches |-> {}, nextwd |-> 1, queue |-> <<>>, silent |-> {}]

\* An event is put behind the others, unless it is the one that is last.
Queued(k, ev) ==
    IF k.queue # <<>> /\ Last(k.queue) = ev THEN k
    ELSE IF Len(k.queue) >= MaxQueued
    THEN [k EXCEPT !.queue[MaxQueued] = [wd |-> -1, mask |-> "overflow"],
                   !.silent = @ \cup {x.wd : x \in {y \in {ev, Last(k.queue)} : y.mask = "ignored"}}]
    ELSE [k EXCEPT !.queue = Append(@, ev)]
Emit(k, ino, mask) ==
    FoldSet(LAMBDA x, kk : Queued(kk, [wd |-> x.wd, mask |-> mask]), k,
            {x \in k.watches : x.ino = ino /\ mask \in x.mask})

\* The watch is dropped, and that is told whoever asked for what.
Dropped(k, wd) ==
    IF \E x \in k.watches : x.wd = wd
    THEN Queued([k EXCEPT !.watches = {x \in @ : x.wd # wd}], [wd |-> wd, mask |-> "ignored"])
    ELSE k
DropIno(k, ino) == FoldSet(LAMBDA x, kk : Dropped(kk, x.wd), k, {x \in k.watches : x.ino = ino})

\* inotify_add_watch, with IN_MASK_ADD: the wd is -1 when there can be none.
inotify_add_watch(k, ino, mask) ==
    LET old == {x \in k.watches : x.ino = ino}
    IN IF ino = 0 \/ (old = {} /\ Cardinality(k.watches) >= stWorld.watches) THEN [k |-> k, wd |-> -1]
       ELSE IF old # {}
       THEN [k |-> [k EXCEPT !.watches = {x \in @ : x.ino # ino} \cup {[x EXCEPT !.mask = @ \cup mask] : x \in old}],
             wd |-> (CHOOSE x \in old : TRUE).wd]
       ELSE [k |-> [k EXCEPT !.watches = @ \cup {[ino |-> ino, wd |-> k.nextwd, mask |-> mask]}, !.nextwd = @ + 1],
             wd |-> k.nextwd]

-----------------------------------------------------------------------------
(* ev_stat.                                                                *)

stat_timer_again(s, w) ==
    [s EXCEPT !.ws[w].timer = s.ws[w].repeat, !.refs = @ + One(s.ws[w].repeat) - One(s.ws[w].timer)]

\* Re-arm the timer, which does not count as active.
RearmTimer(s, w) ==
    LET rearmed == stat_timer_again([s EXCEPT !.refs = @ + One(s.ws[w].timer)], w)
    IN [rearmed EXCEPT !.refs = @ - One(rearmed.ws[w].timer)]

\* The file, if it is there; else the directory, and the timer goes on.
infy_add(s, w) ==
    LET own == inotify_add_watch(s.k, tree.ino, {"attrib", "delete_self", "move_self", "modify"})
        parent == IF tree.ino = 0 THEN inotify_add_watch(s.k, tree.dir, {"delete_self", "create"}) ELSE own
        repeat == own.wd < 0 \/ ~stWorld.fs_2625 \/ ~stWorld.local
    IN RearmTimer([s EXCEPT !.k = parent.k, !.ws[w].wd = parent.wd, !.ws[w].repeat = repeat], w)

infy_del(s, w) ==
    IF s.ws[w].wd < 0 THEN s ELSE [s EXCEPT !.ws[w].wd = -2, !.k = Dropped(@, s.ws[w].wd)]

ev_stat_stat(s, w) == [s EXCEPT !.ws[w].attr = Attr(@)]

Feed(s, w) == [s EXCEPT !.ws[w].pending = TRUE]

\* infy_init, with the first watcher.
infy_init(s) == IF s.fs_fd = "not yet" THEN [s EXCEPT !.fs_fd = IF stWorld.inotify THEN "open" ELSE "none"] ELSE s

Idle == todo = {} /\ racing = NoWatcher
Outdated(ws) == {w \in ws : ~SameFile(st.ws[w].attr, Attr(st.ws[w].attr))}
StCall == Idle /\ stSteps.calls < stWorld.calls /\ stSteps' = [stSteps EXCEPT !.calls = @ + 1] /\ UNCHANGED <<stWorld, tree, todo, racing>>

\* ev_stat_start, as far as the first look at the file.
ev_stat_start(w) ==
    /\ Idle /\ stSteps.calls < stWorld.calls /\ stSteps' = [stSteps EXCEPT !.calls = @ + 1]
    /\ w \in stWorld.watchers /\ ~st.ws[w].active
    /\ LET now == ev_stat_stat(st, w)
       IN st' = infy_init([now EXCEPT !.ws[w].repeat = TRUE, !.ws[w].timer = FALSE, !.ws[w].wd = -1,
                                      !.ws[w].seen = now.ws[w].attr])
    /\ racing' = [w |-> w, at |-> "start"]
    /\ UNCHANGED <<stWorld, tree, todo, behind>>

\* The rest of it.
ev_stat_start_rest ==
    /\ racing.at = "start"
    /\ LET w == racing.w
           armed == IF st.fs_fd = "open" THEN infy_add(st, w)
                    ELSE [stat_timer_again(st, w) EXCEPT !.refs = @ - 1]
       IN /\ st' = [armed EXCEPT !.ws[w].active = TRUE, !.refs = @ + 1]
          /\ behind' = (behind \ {w}) \cup Outdated({w})
    /\ racing' = NoWatcher
    /\ UNCHANGED <<stWorld, tree, todo, stSteps>>

ev_stat_stop(w) ==
    /\ StCall /\ st.ws[w].active
    /\ LET gone == infy_del([st EXCEPT !.ws[w].pending = FALSE], w)
           timer == st.ws[w].timer
       IN st' = [gone EXCEPT !.ws[w].timer = FALSE, !.ws[w].active = FALSE,
                             !.refs = @ + One(timer) - One(timer) - 1]
    /\ UNCHANGED behind

\* stat_timer_cb: from the first lstat to the comparison.
Compare(s, w) ==
    LET now == ev_stat_stat(s, w)
        differs == ~SameFile(now.ws[w].attr, s.ws[w].attr)
    IN /\ st' = IF differs /\ s.fs_fd # "open" THEN Feed(now, w) ELSE now
       /\ racing' = IF differs /\ s.fs_fd = "open" THEN [w |-> w, at |-> "changed"] ELSE NoWatcher

StatAgain(s, w) == ev_stat_stat(s, w)

\* stat_timer_cb: the rest, if the file has changed.
stat_timer_cb_rest ==
    /\ racing.at = "changed"
    /\ LET w == racing.w
       IN st' = Feed(StatAgain(infy_add(infy_del(st, w), w), w), w) /\ behind' = behind \ {w}
    /\ racing' = NoWatcher
    /\ UNCHANGED <<stWorld, tree, todo, stSteps>>

stat_timer_cb(w) ==
    /\ Idle /\ st.ws[w].active /\ st.ws[w].timer /\ Compare(st, w)
    /\ UNCHANGED <<stWorld, tree, todo, behind, stSteps>>

\* infy_cb: an event of those read() returned, and the watchers it is about.
infy_cb ==
    /\ Idle /\ st.fs_fd = "open" /\ st.k.queue # <<>>
    /\ LET ev == Head(st.k.queue)
       IN todo' = {[w |-> w, readd |-> ev.mask \in {"ignored", "delete_self"}] :
                   w \in {x \in StActive(st) : st.ws[x].wd >= 0 /\ (st.ws[x].wd = ev.wd \/ ev.wd = -1)}}
    /\ st' = [st EXCEPT !.k.queue = Tail(@)]
    /\ UNCHANGED <<stWorld, tree, racing, behind, stSteps>>

\* infy_wd, for one of them.
infy_wd ==
    /\ racing = NoWatcher
    /\ \E t \in todo :
        /\ todo' = todo \ {t}
        /\ Compare(IF t.readd THEN infy_add([st EXCEPT !.ws[t.w].wd = -1], t.w) ELSE st, t.w)
    /\ UNCHANGED <<stWorld, tree, behind, stSteps>>

\* In the child: another descriptor, if there is one, for those inotify watched.
infy_fork ==
    /\ StCall /\ st.fs_fd = "open"
    /\ LET moved == {w \in StActive(st) : st.ws[w].wd >= 0}
           blank == [st EXCEPT !.k = NewInotify, !.ws = [w \in StatWatchers |-> IF w \in moved THEN [@[w] EXCEPT !.wd = -1] ELSE @[w]]]
           Poll1(w, s) == RearmTimer([s EXCEPT !.ws[w].repeat = TRUE], w)
       IN /\ \/ st' = FoldSet(LAMBDA w, s : infy_add(s, w), blank, moved)
             \/ st' = FoldSet(Poll1, [blank EXCEPT !.fs_fd = "none"], moved)
          /\ behind' = behind \cup Outdated(moved)

StInvoke(w) ==
    /\ Idle /\ st.ws[w].pending
    /\ st' = [st EXCEPT !.ws[w].pending = FALSE, !.ws[w].seen = st.ws[w].attr]
    /\ UNCHANGED <<stWorld, tree, todo, racing, behind, stSteps>>

-----------------------------------------------------------------------------
(* The files.                                                              *)

StChange == stSteps.changes < stWorld.changes /\ stSteps' = [stSteps EXCEPT !.changes = @ + 1] /\ UNCHANGED <<stWorld, todo, racing, behind>>

\* Changes of another machine are not told.
Told(k) == IF stWorld.local THEN st' = [st EXCEPT !.k = k] ELSE st' \in {st, [st EXCEPT !.k = k]}

Unlinked(k, ino) == DropIno(Emit(Emit(k, ino, "attrib"), ino, "delete_self"), ino)

Creat ==
    /\ StChange /\ tree.dir # 0 /\ tree.ino = 0
    /\ tree' = [tree EXCEPT !.ino = tree.next, !.next = @ + 1] /\ Told(Emit(st.k, tree.dir, "create"))
Modify ==
    /\ StChange /\ tree.ino # 0
    /\ tree' = [tree EXCEPT !.ver = @ + 1] /\ Told(Emit(st.k, tree.ino, "modify"))
Unlink ==
    /\ StChange /\ tree.ino # 0
    /\ tree' = [tree EXCEPT !.ino = 0] /\ Told(Unlinked(st.k, tree.ino))
\* Another file takes its name, and it is deleted.
Replace ==
    /\ StChange /\ tree.ino # 0
    /\ tree' = [tree EXCEPT !.ino = tree.next, !.next = @ + 1]
    /\ Told(Unlinked(st.k, tree.ino))
\* It gets another name.
MoveAway ==
    /\ StChange /\ tree.ino # 0
    /\ tree' = [tree EXCEPT !.ino = 0] /\ Told(Emit(st.k, tree.ino, "move_self"))
Mkdir ==
    /\ StChange /\ tree.dir = 0
    /\ tree' = [tree EXCEPT !.dir = tree.next, !.next = @ + 1] /\ UNCHANGED st
Rmdir ==
    /\ StChange /\ tree.dir # 0 /\ tree.ino = 0
    /\ tree' = [tree EXCEPT !.dir = 0] /\ Told(Unlinked(st.k, tree.dir))

StStart ==
    /\ tree \in {[dir |-> 1, ino |-> 2, ver |-> 0, next |-> 3], [dir |-> 1, ino |-> 0, ver |-> 0, next |-> 2]}
    /\ LET blank == [id |-> <<0, 0>>, there |-> FALSE]
       IN st = [ws |-> [w \in StatWatchers |-> [active |-> FALSE, wd |-> -1, attr |-> blank, seen |-> blank,
                                                repeat |-> FALSE, timer |-> FALSE, pending |-> FALSE]],
                k |-> NewInotify, fs_fd |-> "not yet", refs |-> 0]
    /\ todo = {} /\ racing = NoWatcher /\ behind = {} /\ stSteps = [changes |-> 0, calls |-> 0]

StInit == stWorld \in StWorlds /\ StStart

StNext ==
    \/ ev_stat_start_rest \/ stat_timer_cb_rest \/ infy_cb \/ infy_wd \/ infy_fork
    \/ \E w \in StatWatchers : ev_stat_start(w) \/ ev_stat_stop(w) \/ stat_timer_cb(w) \/ StInvoke(w)
    \/ Creat \/ Modify \/ Unlink \/ Replace \/ MoveAway \/ Mkdir \/ Rmdir

-----------------------------------------------------------------------------
(* What is claimed.                                                        *)

\* When inotify has nothing more to tell, an ev_stat watcher knows the file as it
\* is, or polls it, and its callback has been called for it, or will be; though
\* watchers share a watch and each drops it, events were forgotten, and the file
\* changed while stat_timer_cb was at it (infy_del, infy_wd, "avoid race").  Not so
\* if the file changed after ev_stat_start has looked at it, or before infy_fork,
\* which does not look: then libev lags behind until it finds another change; nor
\* if inotify had no room left to say that the watch is gone (infy_wd adds it again
\* for IN_IGNORED only).
ChangeNoticed ==
    Idle => \A w \in StActive(st) :
        /\ st.k.queue = <<>> /\ st.ws[w].wd \notin st.k.silent => st.ws[w].timer \/ w \in behind \/ SameFile(st.ws[w].attr, Attr(st.ws[w].attr))
        /\ st.ws[w].pending \/ SameFile(st.ws[w].seen, st.ws[w].attr)

\* However timers come and go with what inotify can do, they do not keep the loop
\* running: its reference count is the number of watchers the program has started
\* (the ev_ref and ev_unref of infy_add, infy_fork, ev_stat_start and ev_stat_stop).
RefsBalance == Idle => st.refs = Cardinality(StActive(st))

\* The loop's structures are in order and its promises kept: watchers are called
\* when and in the order they are due, no wake-up or exit status is lost, timers
\* run in time, every backend asks the kernel for what the watchers want, and no
\* change to a file goes unnoticed.
WatchersSound ==
    /\ [](LoopConsistent /\ NoWakeupLost /\ CalledInTime /\ OnceOnce /\ verify_heap
          /\ KernelAgrees /\ BadFdTold /\ BackendAllowed /\ ChangeNoticed /\ RefsBalance)
    /\ PriorityOrder /\ StatusKept /\ RunsWhatIsDue
=============================================================================
