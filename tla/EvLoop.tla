-------------------------------- MODULE EvLoop --------------------------------
(***************************************************************************)
(* libev's event loop as the programs use it: io watchers on sockets over  *)
(* the epoll backend, timers, and one signal watcher that ends the loop    *)
(* (src/libev/ev.c, src/libev/ev_epoll.c; the signal callback is           *)
(* signal_cb).                                                             *)
(*                                                                         *)
(* The program runs only inside callbacks, where it starts, stops and      *)
(* restarts any watcher, closes sockets (having stopped their watchers)    *)
(* and opens new ones that get the same descriptor.  Any socket may become *)
(* ready at any time.  The signal handler interrupts the loop between any  *)
(* two steps.                                                              *)
(*                                                                         *)
(* Time is kept relative to mn_now, the loop's idea of the current time:   *)
(* lag is how far the clock is ahead of it, left[t] how far ahead a timer  *)
(* is due (ev_at(t) - mn_now, or ev_at(t) when t is not active).           *)
(*                                                                         *)
(* Only pipe_w has priority EV_MAXPRI: pipeEv stands for the pending queue *)
(* of that priority, pendings for that of priority 0.  Left out: what      *)
(* recovers from a fork (generation counters, postfork), descriptors that  *)
(* epoll cannot watch, and failures of epoll_ctl for want of memory.       *)
(***************************************************************************)
EXTENDS Integers, Sequences, FiniteSets, Functions

CONSTANTS
    Fds,            \* socket descriptors
    Once, Repeat,   \* timers: repeat = 0, and repeat = AFTER
    Signal,         \* the signal watcher
    NoWatcher,      \* pending_w; the loop itself
    Main,           \* the program before it runs the loop
    AFTER,          \* ticks of a timeout
    MINTIME,        \* backend_mintime, in ticks
    MaxLag,         \* bound: ticks the loop may be behind the clock
    Scenarios       \* sets of watchers for a program to use

Masks == SUBSET {"R", "W"}
Ios == Fds \X {"R", "W"}
Timers == Once \cup Repeat
Watchers == Ios \cup Timers \cup {Signal}

ASSUME LoopAssumption ==
    /\ AFTER \in Nat \ {0} /\ MINTIME \in 1..AFTER /\ MaxLag \in Nat /\ MaxLag > AFTER
    /\ IsFiniteSet(Fds) /\ IsFiniteSet(Timers)
    /\ Once \cap Repeat = {} /\ Ios \cap Timers = {}
    /\ Signal \notin Ios \cup Timers /\ {NoWatcher, Main} \cap Watchers = {} /\ NoWatcher # Main
    /\ Scenarios \subseteq SUBSET Watchers

VARIABLES
    pc,         \* where ev_run is
    calling,    \* the watcher whose callback runs
    used,       \* the scenario
    active,     \* w->active
    fdset,      \* the io watchers whose events have EV__IOFDSET
    pendings,   \* pendings[0], as a sequence of watchers
    pending,    \* w->pending
    open,       \* descriptors the program has open
    events, reify, emask,   \* anfds[fd]
    kernel,     \* the epoll set: mask of each descriptor, {} when not in it
    got,        \* what epoll_wait has returned
    lag, left, wait,        \* the clock; wait is waittime
    sigflag, sig_pending,   \* signals[signum-1].pending, sig_pending
    wanted, skipped,        \* pipe_write_wanted, pipe_write_skipped
    pipe, pipeEv,           \* the pipe is readable; pipe_w's pending events
    eintr,      \* a signal has interrupted epoll_wait
    loop_done

watchers == <<active, pendings, pending>>
fds == <<fdset, open, events, reify, emask, kernel, got>>
time == <<lag, left, wait>>
signals == <<sigflag, sig_pending, wanted, skipped, pipe, pipeEv, eintr>>
vars == <<pc, calling, used, loop_done, watchers, fds, time, signals>>

-----------------------------------------------------------------------------
(* The pending queue.                                                      *)

\* The sequences that list the watchers of S, each once.
Orders(S) == Bijection(1..Cardinality(S), S)

\* What ev_feed_event adds to the queue.
Fresh(S) == {w \in S : pending[w] = 0}

\* ev_feed_event for the watchers of the sequence s, none of them pending.
feed(s) ==
    /\ pendings' = pendings \o s
    /\ pending' = [w \in Watchers |->
                    IF \E i \in 1..Len(s) : s[i] = w
                    THEN Len(pendings) + CHOOSE i \in 1..Len(s) : s[i] = w
                    ELSE pending[w]]

\* Mutant: the queue keeps the watcher.
clear_pending_flag_only(w) ==
    /\ pending' = [pending EXCEPT ![w] = 0]
    /\ UNCHANGED pendings

clear_pending(w) ==
    /\ pending' = [pending EXCEPT ![w] = 0]
    /\ pendings' = IF pending[w] = 0 THEN pendings
                   ELSE [pendings EXCEPT ![pending[w]] = NoWatcher]

-----------------------------------------------------------------------------
(* io watchers and epoll.                                                  *)

\* What the watchers in anfds[fd].head ask for.
Asked(fd) == {e \in {"R", "W"} : <<fd, e>> \in active}

\* Mutant: a watcher that was set anew is not told apart.
fd_change_ignores_set(fd, flags) == reify' = [reify EXCEPT ![fd] = @ \cup {"reify"}]

fd_change(fd, flags) == reify' = [reify EXCEPT ![fd] = @ \cup {"reify"} \cup flags]

ev_io_start(w) ==
    /\ w \in (used \cap Ios) \ active /\ w[1] \in open
    /\ active' = active \cup {w}
    /\ fd_change(w[1], IF w \in fdset THEN {"fdset"} ELSE {})
    /\ fdset' = fdset \ {w}
    /\ UNCHANGED <<pendings, pending, open, events, emask, kernel, got, left>>

ev_io_stop(w) ==
    /\ w \in Ios /\ (w \in active \/ pending[w] # 0)
    /\ clear_pending(w)
    /\ IF w \in active THEN active' = active \ {w} /\ fd_change(w[1], {})
                       ELSE UNCHANGED <<active, reify>>
    /\ UNCHANGED <<fdset, open, events, emask, kernel, got, left>>

\* The program closes a descriptor: the kernel takes it out of the epoll set.
close(fd) ==
    /\ fd \in open /\ Asked(fd) = {} /\ \A e \in {"R", "W"} : pending[<<fd, e>>] = 0
    /\ open' = open \ {fd}
    /\ kernel' = [kernel EXCEPT ![fd] = {}]
    /\ UNCHANGED <<watchers, fdset, events, reify, emask, got, left>>

\* A new socket gets the descriptor fd, and its watchers are initialised.
socket(fd) ==
    /\ fd \notin open /\ \E e \in {"R", "W"} : <<fd, e>> \in used
    /\ open' = open \cup {fd}
    /\ fdset' = fdset \cup {<<fd, "R">>, <<fd, "W">>}
    /\ UNCHANGED <<watchers, events, reify, emask, kernel, got, left>>

\* What epoll_modify(fd, o, n), n # {}, leaves in the epoll set: ADD fails with
\* EEXIST when fd is in it, MOD with ENOENT, answered by ADD, when it is not.
epoll_modify(fd, o, n) ==
    LET add == o = {} \/ emask[fd] = n IN
    IF add /\ kernel[fd] # {} /\ emask[fd] = n THEN kernel[fd] ELSE n

\* Does fd_reify call backend_modify, which ignores an empty mask?
Modified(fd) ==
    /\ reify[fd] # {}
    /\ Asked(fd) # events[fd] \/ "fdset" \in reify[fd]
    /\ Asked(fd) # {}

fd_reify ==
    /\ events' = [fd \in Fds |-> IF reify[fd] = {} THEN events[fd] ELSE Asked(fd)]
    /\ kernel' = [fd \in Fds |->
                    IF Modified(fd) THEN epoll_modify(fd, events[fd], Asked(fd))
                    ELSE kernel[fd]]
    /\ emask' = [fd \in Fds |-> IF Modified(fd) THEN Asked(fd) ELSE emask[fd]]
    /\ reify' = [fd \in Fds |-> {}]

-----------------------------------------------------------------------------
(* Timers.                                                                 *)

\* Only an active timer is due at a time that does not move with mn_now.
time_update(on) ==
    /\ left' = [t \in Timers |-> IF t \in on THEN left[t] - lag ELSE left[t]]
    /\ lag' = 0

\* The program does not start a timer that has run out without setting it.
ev_timer_start(t) ==
    /\ t \in (used \cap Timers) \ active /\ left[t] >= 0
    /\ active' = active \cup {t}
    /\ UNCHANGED <<pendings, pending, fds, left>>

ev_timer_stop(t) ==
    /\ t \in Timers /\ (t \in active \/ pending[t] # 0)
    /\ clear_pending(t)
    /\ active' = active \ {t}
    /\ UNCHANGED <<fds, left>>

ev_timer_again(t) ==
    /\ t \in used \cap Repeat
    /\ clear_pending(t)
    /\ active' = active \cup {t}
    /\ left' = [left EXCEPT ![t] = AFTER]
    /\ UNCHANGED fds

\* ev_timer_init or ev_timer_set of a timer that is at rest.
ev_timer_set(t) ==
    /\ t \in (used \cap Timers) \ active /\ pending[t] = 0
    /\ left' = [left EXCEPT ![t] = AFTER]
    /\ UNCHANGED <<watchers, fds>>

\* Sequences that list the timers of S as timers_reify feeds them: it takes them
\* from the heap by increasing ev_at and feeds them in reverse.
Reversed(S, at) ==
    {s \in Orders(S) : \A i, j \in 1..Len(s) : i < j => at[s[i]] >= at[s[j]]}

\* Mutant: every timer repeats.
Again_all(S) == S

\* The timers of S, which have expired, that are started again.
Again(S) == S \cap Repeat

\* time_update and timers_reify: a timer that repeats is due again, but not
\* earlier than now.
timers_reify ==
    LET at == [t \in Timers |-> IF t \in active THEN left[t] - lag ELSE left[t]]
        S == {t \in active \cap Timers : at[t] < 0}
    IN
    /\ lag' = 0
    /\ left' = [t \in Timers |->
                 IF t \in Again(S)
                 THEN IF at[t] + AFTER < 0 THEN 0 ELSE at[t] + AFTER ELSE at[t]]
    /\ \E s \in Reversed(Fresh(S), at) : feed(s)
    /\ active' = active \ (S \ Again(S))

-----------------------------------------------------------------------------
(* Signals.                                                                *)

\* Mutant: the handler writes to the pipe only if nothing was skipped.
evpipe_write_trusts_flag ==
    IF sig_pending THEN UNCHANGED <<sig_pending, skipped, pipe>>
    ELSE /\ sig_pending' = TRUE
         /\ skipped' = ~wanted
         /\ pipe' = (pipe \/ (wanted /\ skipped))

evpipe_write ==
    IF sig_pending THEN UNCHANGED <<sig_pending, skipped, pipe>>
    ELSE /\ sig_pending' = TRUE
         /\ skipped' = ~wanted
         /\ pipe' = (pipe \/ wanted)

\* ev_sighandler, in the middle of whatever the loop does.
ev_sighandler ==
    /\ Signal \in active /\ pc # "done"
    /\ sigflag' = TRUE
    /\ evpipe_write
    /\ eintr' = (pc = "blocked")
    /\ UNCHANGED <<pc, calling, used, loop_done, watchers, fds, time, wanted, pipeEv>>

\* pipecb, one step per access to what the handler shares with it.
pipecb ==
    \/ /\ pc = "invoke" /\ pipeEv # {}
       /\ pipe' = (pipe /\ "R" \notin pipeEv)
       /\ pipeEv' = {}
       /\ pc' = "pipe_read"
       /\ UNCHANGED <<watchers, sigflag, sig_pending, skipped>>
    \/ /\ pc = "pipe_read"
       /\ skipped' = FALSE
       /\ pc' = "pipe_flag"
       /\ UNCHANGED <<watchers, sigflag, sig_pending, pipe, pipeEv>>
    \/ /\ pc = "pipe_flag"
       /\ pc' = IF sig_pending THEN "pipe_scan" ELSE "invoke"
       /\ sig_pending' = FALSE
       /\ UNCHANGED <<watchers, sigflag, skipped, pipe, pipeEv>>
    \/ /\ pc = "pipe_scan"
       /\ sigflag' = FALSE
       /\ \E s \in Orders(Fresh(IF sigflag THEN {Signal} ELSE {})) : feed(s)
       /\ pc' = "invoke"
       /\ UNCHANGED <<active, sig_pending, skipped, pipe, pipeEv>>

-----------------------------------------------------------------------------
(* ev_run.                                                                 *)

LoopTop ==
    /\ pc = "top"
    /\ fd_reify
    /\ time_update(active \cap Timers)
    /\ pc' = "wanted"
    /\ UNCHANGED <<watchers, fdset, open, got, wait, signals>>

\* From now on a signal writes to the pipe.
SetWanted ==
    /\ pc = "wanted"
    /\ wanted' = TRUE
    /\ pc' = "wait"
    /\ UNCHANGED <<watchers, fds, time, sigflag, sig_pending, skipped, pipe, pipeEv, eintr>>

\* A loop that has to wait passes at least backend_mintime to the backend.
AtLeastMin(to) == IF to < MINTIME THEN MINTIME ELSE to

\* Is there a reason not to block, and until when may the loop?
WaitTime ==
    /\ pc = "wait"
    /\ wait' = IF skipped \/ active = {} THEN 0
               ELSE LET due == {left[t] : t \in active \cap Timers} \cup {MaxLag}
                        to == CHOOSE d \in due : \A x \in due : d <= x
                    IN AtLeastMin(to)
    /\ pc' = "enter"
    /\ UNCHANGED <<watchers, fds, lag, left, signals>>

Enter ==
    /\ pc = "enter"
    /\ pc' = "blocked"
    /\ eintr' = FALSE
    /\ UNCHANGED <<watchers, fds, time, sigflag, sig_pending, wanted, skipped, pipe, pipeEv>>

\* What epoll_wait may report for fd: what it watches for; on an error, both.
Reports(fd) == IF kernel[fd] = {} THEN {{}} ELSE SUBSET kernel[fd] \cup {{"R", "W"}}

\* epoll_wait returns because something is ready, its time is over or a signal
\* has interrupted it; then nobody needs to write to the pipe any more.
Return ==
    /\ pc = "blocked"
    /\ \/ eintr /\ got' = [fd \in Fds |-> {}] /\ UNCHANGED pipeEv
       \/ /\ got' \in [Fds -> Masks] /\ \A fd \in Fds : got'[fd] \in Reports(fd)
          /\ pipeEv' = IF pipe THEN pipeEv \cup {"R"} ELSE pipeEv
          /\ lag >= wait \/ pipe \/ \E fd \in Fds : got'[fd] # {}
    /\ pc' = "polled"
    /\ UNCHANGED <<watchers, fdset, open, events, reify, emask, kernel, time, sigflag,
                   sig_pending, wanted, skipped, pipe, eintr>>

\* epoll_poll receives an event the last fd_reify did not ask for.
Unasked(fd) == ~(got[fd] \subseteq events[fd])

\* The rest of epoll_poll: correct the epoll set, feed the watchers.
Dispatch ==
    /\ pc = "polled"
    /\ kernel' = [fd \in Fds |-> IF Unasked(fd) THEN events[fd] ELSE kernel[fd]]
    /\ emask' = [fd \in Fds |-> IF Unasked(fd) THEN events[fd] ELSE emask[fd]]
    /\ \E s \in Orders(Fresh({w \in active \cap Ios :
                               reify[w[1]] = {} /\ w[2] \in got[w[1]]})) : feed(s)
    /\ got' = [fd \in Fds |-> {}]
    /\ wanted' = FALSE
    /\ pc' = "skipped"
    /\ UNCHANGED <<active, fdset, open, events, reify, time, sigflag, sig_pending, skipped,
                   pipe, pipeEv, eintr>>

\* A signal that did not write to the pipe wakes pipe_w itself.
FeedSkipped ==
    /\ pc = "skipped"
    /\ pipeEv' = IF skipped THEN pipeEv \cup {"custom"} ELSE pipeEv
    /\ timers_reify
    /\ pc' = "invoke"
    /\ UNCHANGED <<fds, wait, sigflag, sig_pending, wanted, skipped, pipe, eintr>>

\* ev_invoke_pending takes the last entry; signal_cb calls ev_break.
Invoke ==
    /\ pc = "invoke" /\ pipeEv = {} /\ pendings # << >>
    /\ LET w == pendings[Len(pendings)] IN
        /\ pendings' = SubSeq(pendings, 1, Len(pendings) - 1)
        /\ pending' = [x \in Watchers |-> IF x = w THEN 0 ELSE pending[x]]
        /\ calling' = w
        /\ pc' = IF w = NoWatcher THEN "invoke" ELSE "callback"
        /\ loop_done' = (loop_done \/ w = Signal)
    /\ UNCHANGED <<used, active, fds, time, signals>>

LoopEnd ==
    /\ pc = "invoke" /\ pipeEv = {} /\ pendings = << >>
    /\ pc' = IF active = {} \/ loop_done THEN "done" ELSE "top"
    /\ UNCHANGED <<watchers, fds, time, signals>>

\* What the program may do in a callback, and before it runs the loop.
Program ==
    /\ pc \in {"callback", "setup"}
    /\ \/ \E w \in Ios : ev_io_start(w) \/ ev_io_stop(w)
       \/ \E fd \in Fds : close(fd) \/ socket(fd)
       \/ \E t \in Timers : \/ ev_timer_start(t) \/ ev_timer_stop(t)
                            \/ ev_timer_again(t) \/ ev_timer_set(t)
    /\ UNCHANGED <<pc, calling, used, loop_done, lag, wait, signals>>

CallbackReturns ==
    /\ pc \in {"callback", "setup"}
    /\ pc' = IF pc = "setup" THEN "top" ELSE "invoke"
    /\ calling' = NoWatcher
    /\ UNCHANGED <<used, loop_done, watchers, fds, time, signals>>

\* Time passes while the loop blocks and while callbacks run.
Tick ==
    /\ lag < MaxLag /\ pc \in {"blocked", "callback"}
    /\ lag' = lag + 1
    /\ UNCHANGED <<pc, calling, used, loop_done, watchers, fds, left, wait, signals>>

Init ==
    /\ pc = "setup" /\ calling = Main /\ used \in Scenarios
    /\ active = used \cap {Signal}
    /\ fdset = {} /\ pendings = << >> /\ pending = [w \in Watchers |-> 0] /\ open = {}
    /\ events = [fd \in Fds |-> {}] /\ reify = [fd \in Fds |-> {}]
    /\ emask = [fd \in Fds |-> {}] /\ kernel = [fd \in Fds |-> {}]
    /\ got = [fd \in Fds |-> {}]
    /\ lag = 0 /\ left = [t \in Timers |-> AFTER] /\ wait = 0
    /\ sigflag = FALSE /\ sig_pending = FALSE /\ wanted = FALSE /\ skipped = FALSE
    /\ pipe = FALSE /\ pipeEv = {} /\ eintr = FALSE /\ loop_done = FALSE

Loop ==
    \/ /\ \/ LoopTop \/ SetWanted \/ WaitTime \/ Enter \/ Return \/ Dispatch
          \/ FeedSkipped \/ LoopEnd
       /\ UNCHANGED <<calling, used, loop_done>>
    \/ pipecb /\ UNCHANGED <<calling, used, loop_done, fds, time, wanted, eintr>>
    \/ Invoke \/ CallbackReturns

Next ==
    \/ Loop \/ Program \/ ev_sighandler \/ Tick
    \/ pc = "done" /\ UNCHANGED vars

Spec == Init /\ [][Next]_vars

\* The loop runs on, callbacks return, and the clock advances while it does.
FairSpec == Spec /\ WF_vars(Loop) /\ SF_vars(Tick)

-----------------------------------------------------------------------------
(* What is claimed.                                                        *)

TypeOK ==
    /\ active \subseteq used /\ fdset \subseteq Ios /\ open \subseteq Fds
    /\ pendings \in Seq(Watchers \cup {NoWatcher})
    /\ pending \in [Watchers -> Nat]
    /\ events \in [Fds -> Masks] /\ emask \in [Fds -> Masks]
    /\ kernel \in [Fds -> Masks] /\ got \in [Fds -> Masks]
    /\ reify \in [Fds -> SUBSET {"reify", "fdset"}]
    /\ lag \in 0..MaxLag /\ wait \in 0..MaxLag /\ left \in [Timers -> Int]
    /\ pipeEv \subseteq {"R", "custom"}

\* w->pending and the queue agree, whatever callbacks stop, restart or free while
\* the queue is being worked off (ev_feed_event, clear_pending,
\* ev_invoke_pending): no entry is left for a watcher that is not pending.
PendingAgrees ==
    \A w \in Watchers : \A i \in 1..Len(pendings) : pendings[i] = w <=> pending[w] = i

\* When the loop blocks, epoll watches every open socket for exactly what its
\* active watchers wait for, although stopping the last watcher of a descriptor
\* is never told to the kernel and descriptors are reused by new sockets
\* (fd_change, fd_reify, epoll_modify, epoll_poll).
KernelArmed ==
    pc = "blocked" => \A fd \in Fds : Asked(fd) # {} => kernel[fd] = Asked(fd)

\* A signal is never forgotten: as long as sig_pending keeps later ones from
\* waking the loop, something else will (pipe_write_wanted, pipe_write_skipped).
SignalSeen ==
    sig_pending => \/ skipped \/ pipe \/ pipeEv # {}
                   \/ pc \in {"pipe_read", "pipe_flag"}

\* The loop does not block, or blocks no longer, when a signal is to be handled.
NoBlockedSignal == pc = "blocked" /\ sig_pending => pipe \/ wait = 0

\* The watchers the program may be called for: those it has started, and timers
\* that have run out but have not been called yet.
On == {w \in Watchers : w \in active \/ pending[w] # 0}
Contract == INSTANCE EventContract WITH on <- On

\* The loop implements the contract the models of the programs rely on.
ContractKept == Contract!Spec

\* A signal ends the loop (ev_sighandler, pipecb, signal_cb), unless signals keep
\* interrupting epoll_wait for ever.
SignalEndsLoop == (sigflag ~> pc = "done") \/ []<>eintr

\* A timer that does not repeat runs out, or is stopped.
TimersExpire == \A t \in Once : t \in active ~> (t \notin active \/ pc = "done")

\* Signals reach the loop however they interrupt it: one that came is remembered,
\* and the loop does not block while one is to be handled.
SignalsKept == SignalSeen /\ NoBlockedSignal

\* What the programs wait for comes: a signal ends the loop, timers run out.
LoopLive == SignalEndsLoop /\ TimersExpire
=============================================================================
