---------------------------- MODULE EvLoop_proofs ----------------------------
(***************************************************************************)
(* Proofs about EvLoop, for every set of descriptors and timers and every  *)
(* scenario: the pending queue and the epoll set stay in step with the     *)
(* watchers, no signal is lost, and the loop implements EventContract.     *)
(***************************************************************************)
EXTENDS EvLoop, FiniteSetTheorems, SequenceTheorems, TLAPS

\* The leaves are for the SMT solver, unless they cite another prover.
USE SMTT(60)

\* w->pending and the queue point at each other.
QueueOK ==
    /\ pendings \in Seq(Watchers \cup {NoWatcher})
    /\ pending \in [Watchers -> Nat]
    /\ \A w \in Watchers : pending[w] <= Len(pendings)
    /\ PendingAgrees

\* A watcher that waits without being active is a timer that has run out.
QueueInv ==
    /\ QueueOK
    /\ active \subseteq Watchers
    /\ \A w \in Watchers : pending[w] # 0 /\ w \notin active => w \in Once
    /\ sigflag => Signal \in active
    /\ sigflag \in BOOLEAN

\* Who runs: the program inside callbacks and before the loop, or the loop.
CallingInv ==
    /\ calling \in Watchers \cup {NoWatcher, Main}
    /\ calling = Main \/ calling \in Watchers <=> pc \in {"callback", "setup"}

\* The places between fd_reify and the callbacks.
Polling == {"wanted", "wait", "enter", "blocked", "polled"}

\* The epoll set of a descriptor is what anfds says, or will be corrected.
EpollInv ==
    /\ events \in [Fds -> Masks] /\ kernel \in [Fds -> Masks] /\ emask \in [Fds -> Masks]
    /\ reify \in [Fds -> SUBSET {"reify", "fdset"}]
    /\ \A fd \in Fds :
        /\ kernel[fd] # {} => kernel[fd] = emask[fd]
        /\ reify[fd] = {} => events[fd] = Asked(fd)
        /\ pc \in Polling => reify[fd] = {}
        /\ events[fd] # {} /\ kernel[fd] # events[fd] =>
               \/ "fdset" \in reify[fd]
               \/ Asked(fd) = {} /\ (fd \in open => {<<fd, "R">>, <<fd, "W">>} \subseteq fdset)

\* Whoever could overlook a signal is told about it.
WakeInv ==
    /\ SignalSeen
    /\ pc \in {"setup", "top", "wanted", "wait", "enter", "blocked"} => pipeEv = {}
    /\ pc \in {"wait", "enter", "blocked", "polled"} => wanted
    /\ pc \in {"enter", "blocked"} /\ sig_pending => pipe \/ wait = 0

-----------------------------------------------------------------------------
(* Signals.                                                                *)

\* Every step of the loop, the program, the handler and the clock keeps WakeInv.
LEMMA WakeStep == ASSUME WakeInv, [Next]_vars PROVE WakeInv'
<1> USE DEF WakeInv, SignalSeen
<1>1. CASE LoopTop BY <1>1 DEF LoopTop, signals, time_update
<1>2. CASE SetWanted BY <1>2 DEF SetWanted, time
<1>3. CASE WaitTime BY <1>3 DEF WaitTime, signals
<1>4. CASE Enter BY <1>4 DEF Enter, time
<1>5. CASE Return BY <1>5 DEF Return, time
<1>6. CASE Dispatch BY <1>6 DEF Dispatch, time
<1>7. CASE FeedSkipped BY <1>7 DEF FeedSkipped
<1>8. CASE pipecb /\ UNCHANGED <<time, wanted>> BY <1>8 DEF pipecb, time
<1>9. CASE Invoke BY <1>9 DEF Invoke, time, signals
<1>10. CASE LoopEnd BY <1>10 DEF LoopEnd, time, signals
<1>11. CASE CallbackReturns BY <1>11 DEF CallbackReturns, time, signals
<1>12. CASE Program BY <1>12 DEF Program, time, signals
<1>13. CASE ev_sighandler BY <1>13, Zenon DEF ev_sighandler, evpipe_write, time
<1>14. CASE Tick BY <1>14 DEF Tick, signals
<1>15. CASE UNCHANGED vars BY <1>15 DEF vars, time, signals
<1> QED BY <1>1, <1>2, <1>3, <1>4, <1>5, <1>6, <1>7, <1>8, <1>9, <1>10, <1>11, <1>12, <1>13, Zenon,
           <1>14, <1>15 DEF Next, Loop

\* A signal that arrives at whatever moment is not forgotten, and epoll_wait is
\* not entered, or is left, when one is to be handled (evpipe_write, ev_run,
\* pipecb).
THEOREM Wakes == Spec => []SignalsKept
<1>1. Init => WakeInv BY DEF Init, WakeInv, SignalSeen
<1>2. WakeInv => SignalsKept BY DEF WakeInv, NoBlockedSignal, SignalsKept
<1> QED BY <1>1, <1>2, WakeStep, PTL DEF Spec
-----------------------------------------------------------------------------
(* The pending queue.                                                      *)

LEMMA WatchersFinite == IsFiniteSet(Watchers)
<1>1. IsFiniteSet({"R", "W"})
  <2>1. IsFiniteSet({"R"}) BY FS_Singleton
  <2>2. IsFiniteSet({"R"} \cup {"W"}) BY <2>1, FS_AddElement
  <2> QED BY <2>2, {"R"} \cup {"W"} = {"R", "W"}
<1>2. IsFiniteSet(Ios) BY <1>1, FS_Product, LoopAssumption DEF Ios
<1>3. IsFiniteSet(Ios \cup Timers) BY <1>2, FS_Union, LoopAssumption, Zenon
<1> QED BY <1>3, FS_AddElement DEF Watchers

\* An order of S is a sequence that lists every member of S once.
LEMMA OrderedOnce ==
    ASSUME NEW S, S \subseteq Watchers, NEW s \in Orders(S)
    PROVE  /\ s \in Seq(S)
           /\ \A i, j \in 1..Len(s) : s[i] = s[j] => i = j
           /\ \A w \in S : \E i \in 1..Len(s) : s[i] = w
<1> DEFINE n == Cardinality(S)
<1>1. n \in Nat BY WatchersFinite, FS_Subset, FS_CardinalityType
<1>2. s \in [1..n -> S] BY DEF Orders, Bijection, Injection
<1>3. s \in Seq(S) /\ Len(s) = n BY <1>1, <1>2
<1>4. \A i, j \in 1..n : s[i] = s[j] => i = j BY <1>2 DEF Orders, Bijection, Injection, IsInjective
<1>5. \A w \in S : \E i \in 1..n : s[i] = w BY <1>2 DEF Orders, Bijection, Surjection
<1> QED BY <1>3, <1>4, <1>5

\* Feeding keeps the queue in order, and makes the watchers of S pending.
LEMMA FeedKeeps ==
    ASSUME QueueOK, NEW S, S \subseteq Watchers, NEW s \in Orders(Fresh(S)), feed(s)
    PROVE  QueueOK' /\ \A w \in Watchers : pending'[w] # 0 <=> pending[w] # 0 \/ w \in S
<1> USE DEF QueueOK
<1>1. /\ s \in Seq(Watchers) /\ s \in Seq(Watchers \cup {NoWatcher}) 
      /\ \A i \in 1..Len(s) : s[i] \in Watchers /\ pending[s[i]] = 0 /\ s[i] \in S
      /\ \A i, j \in 1..Len(s) : s[i] = s[j] => i = j
      /\ \A w \in Fresh(S) : \E i \in 1..Len(s) : s[i] = w
  <2>1. Fresh(S) \subseteq Watchers BY DEF Fresh
  <2>2. s \in Seq(Fresh(S)) BY <2>1, OrderedOnce
  <2>3. \A i \in 1..Len(s) : s[i] \in Fresh(S) BY <2>2
  <2>4. s \in Seq(Watchers) /\ s \in Seq(Watchers \cup {NoWatcher}) BY <2>1, <2>2
  <2>5. \A i \in 1..Len(s) : s[i] \in Watchers /\ pending[s[i]] = 0 /\ s[i] \in S
    BY <2>1, <2>3 DEF Fresh
  <2>6. \A i, j \in 1..Len(s) : s[i] = s[j] => i = j BY <2>1, OrderedOnce
  <2>7. \A w \in Fresh(S) : \E i \in 1..Len(s) : s[i] = w BY <2>1, OrderedOnce
  <2> QED BY <2>4, <2>5, <2>6, <2>7
<1>2. /\ pendings' \in Seq(Watchers \cup {NoWatcher})
      /\ Len(pendings') = Len(pendings) + Len(s)
      /\ \A i \in 1..Len(pendings) : pendings'[i] = pendings[i]
      /\ \A i \in 1..Len(pendings') : i > Len(pendings) => pendings'[i] = s[i - Len(pendings)]
  BY <1>1 DEF feed
<1>3. Len(s) \in Nat /\ Len(pendings) \in Nat BY <1>1
<1>4. ASSUME NEW w \in Watchers, NEW i \in 1..Len(s), s[i] = w
      PROVE  pending'[w] = Len(pendings) + i
  <2>1. (CHOOSE j \in 1..Len(s) : s[j] = w) = i BY <1>1, <1>4
  <2> QED BY <2>1, <1>4, Zenon DEF feed
<1>5. ASSUME NEW w \in Watchers, ~\E i \in 1..Len(s) : s[i] = w
      PROVE  pending'[w] = pending[w]
  BY <1>5 DEF feed
<1>6. pending' \in [Watchers -> Nat]
  <2>1. \A w \in Watchers : pending'[w] \in Nat BY <1>3, <1>4, <1>5
  <2> QED BY <2>1, Zenon DEF feed
<1>7. \A w \in Watchers : pending'[w] <= Len(pendings')
  <2> TAKE w \in Watchers
  <2>1. CASE \E i \in 1..Len(s) : s[i] = w
    <3>1. PICK i \in 1..Len(s) : s[i] = w BY <2>1
    <3>2. pending'[w] = Len(pendings) + i BY <3>1, <1>4
    <3> QED BY <3>2, <1>2, <1>3
  <2>2. CASE ~\E i \in 1..Len(s) : s[i] = w
    <3>1. pending'[w] = pending[w] BY <2>2, <1>5
    <3>2. pending[w] <= Len(pendings) /\ pending[w] \in Nat OBVIOUS
    <3> QED BY <3>1, <3>2, <1>2, <1>3
  <2> QED BY <2>1, <2>2
<1>8. ASSUME NEW w \in Watchers, NEW k \in 1..Len(pendings')
      PROVE  pendings'[k] = w <=> pending'[w] = k
  <2>1. CASE \E i \in 1..Len(s) : s[i] = w
    <3>1. PICK i \in 1..Len(s) : s[i] = w BY <2>1
    <3>2. pending'[w] = Len(pendings) + i BY <3>1, <1>4
    <3>3. pending[w] = 0 BY <3>1, <1>1, Zenon
    <3>4. CASE k <= Len(pendings)
      BY <3>2, <3>3, <3>4, <1>2, <1>3 DEF PendingAgrees
    <3>5. CASE k > Len(pendings)
      <4>1. k - Len(pendings) \in 1..Len(s) BY <3>5, <1>2, <1>3
      <4>2. pendings'[k] = s[k - Len(pendings)] BY <3>5, <1>2
      <4>3. pendings'[k] = w <=> k - Len(pendings) = i BY <4>1, <4>2, <3>1, <1>1, Zenon
      <4> QED BY <4>3, <3>2, <3>5, <1>3, <1>2
    <3> QED BY <3>4, <3>5, <1>2, <1>3
  <2>2. CASE ~\E i \in 1..Len(s) : s[i] = w
    <3>1. pending'[w] = pending[w] BY <2>2, <1>5
    <3>2. CASE k <= Len(pendings)
      <4>1. k \in 1..Len(pendings) BY <3>2, <1>2, <1>3
      <4>2. pendings'[k] = pendings[k] BY <4>1, <1>2, Zenon
      <4> QED BY <4>1, <4>2, <3>1 DEF PendingAgrees
    <3>3. CASE k > Len(pendings)
      <4>1. k - Len(pendings) \in 1..Len(s) BY <3>3, <1>2, <1>3
      <4> QED BY <4>1, <3>1, <3>3, <2>2, <1>2, <1>3
    <3> QED BY <3>2, <3>3, <1>2, <1>3
  <2> QED BY <2>1, <2>2
<1>9. \A w \in Watchers : pending'[w] # 0 <=> pending[w] # 0 \/ w \in S
  <2> TAKE w \in Watchers
  <2>1. CASE \E i \in 1..Len(s) : s[i] = w BY <2>1, <1>1, <1>3, <1>4
  <2>2. CASE ~\E i \in 1..Len(s) : s[i] = w BY <2>2, <1>1, <1>5 DEF Fresh
  <2> QED BY <2>1, <2>2
<1> QED BY <1>2, <1>6, <1>7, <1>8, <1>9, Zenon DEF PendingAgrees

\* clear_pending takes w, and no other watcher, out of the queue.
LEMMA ClearKeeps ==
    ASSUME QueueOK, NEW w \in Watchers, clear_pending(w)
    PROVE  QueueOK' /\ \A x \in Watchers : pending'[x] # 0 <=> pending[x] # 0 /\ x # w
<1> USE DEF QueueOK, PendingAgrees
<1>1. NoWatcher \notin Watchers BY LoopAssumption
<1>2. CASE pending[w] = 0 BY <1>2 DEF clear_pending
<1>3. CASE pending[w] # 0
  <2>1. pending[w] \in 1..Len(pendings) BY <1>3
  <2>2. /\ pendings' \in Seq(Watchers \cup {NoWatcher}) /\ Len(pendings') = Len(pendings)
        /\ \A i \in 1..Len(pendings) :
              pendings'[i] = IF i = pending[w] THEN NoWatcher ELSE pendings[i]
    BY <1>3, <2>1 DEF clear_pending
  <2>3. /\ pending' \in [Watchers -> Nat]
        /\ \A x \in Watchers : pending'[x] = IF x = w THEN 0 ELSE pending[x]
    BY DEF clear_pending
  <2>4. \A x \in Watchers : pending'[x] <= Len(pendings') BY <2>1, <2>2, <2>3
  <2>5. ASSUME NEW x \in Watchers, NEW i \in 1..Len(pendings)
        PROVE  pendings'[i] = x <=> pending'[x] = i
    <3>1. pendings[i] = x <=> pending[x] = i OBVIOUS
    <3>2. i # 0 OBVIOUS
    <3>3. pendings[pending[w]] = w BY <2>1
    <3> QED BY <1>1, <2>2, <2>3, <3>1, <3>2, <3>3
  <2> QED BY <2>2, <2>3, <2>4, <2>5
<1> QED BY <1>2, <1>3, Zenon

\* ev_invoke_pending takes the last entry.
LEMMA InvokeKeeps ==
    ASSUME QueueOK, Invoke
    PROVE  /\ QueueOK'
           /\ LET w == pendings[Len(pendings)] IN
                /\ calling' = w /\ w \in Watchers \cup {NoWatcher}
                /\ w \in Watchers => pending[w] # 0
                /\ \A x \in Watchers : pending'[x] # 0 <=> pending[x] # 0 /\ x # w
<1> USE DEF QueueOK, PendingAgrees
<1> DEFINE n == Len(pendings)
           w == pendings[n]
<1>1. n \in Nat /\ n > 0 BY DEF Invoke
<1>2. w \in Watchers \cup {NoWatcher} /\ (w \in Watchers => pending[w] = n) BY <1>1
<1>3. /\ pendings' \in Seq(Watchers \cup {NoWatcher}) /\ Len(pendings') = n - 1
      /\ \A i \in 1..(n - 1) : pendings'[i] = pendings[i]
  <2> DEFINE m == n - 1
             q == SubSeq(pendings, 1, m)
  <2>1. pendings' = q BY DEF Invoke
  <2>2. \A i \in 1..m : pendings[i] \in Watchers \cup {NoWatcher} BY <1>1
  <2>3. m \in Nat BY <1>1
  <2>4. /\ q \in Seq(Watchers \cup {NoWatcher})
        /\ Len(q) = IF 1 <= m THEN m - 1 + 1 ELSE 0
        /\ \A i \in 1..(m - 1 + 1) : q[i] = pendings[1 + i - 1]
    <3> HIDE DEF m
    <3>1. 1 \in Int /\ m \in Int BY <2>3
    <3> QED BY <2>2, <3>1, SubSeqProperties
  <2> HIDE DEF m, q
  <2>5. Len(q) = m BY <2>3, <2>4
  <2>6. \A i \in 1..m : q[i] = pendings[i]
    <3> TAKE i \in 1..m
    <3>1. i \in 1..(m - 1 + 1) /\ 1 + i - 1 = i BY <2>3
    <3> QED BY <3>1, <2>4
  <2> QED BY <2>1, <2>4, <2>5, <2>6 DEF m
<1>4. /\ pending' \in [Watchers -> Nat]
      /\ \A x \in Watchers : pending'[x] = IF x = w THEN 0 ELSE pending[x]
      /\ calling' = w
  BY DEF Invoke
<1>5. \A x \in Watchers : x # w => pending[x] # n BY <1>1
<1>6. \A x \in Watchers : pending'[x] <= Len(pendings') BY <1>1, <1>2, <1>3, <1>4, <1>5
<1>7. PendingAgrees' BY <1>1, <1>2, <1>3, <1>4, <1>5
<1> QED BY <1>1, <1>2, <1>3, <1>4, <1>6, <1>7
-----------------------------------------------------------------------------
(* The queue, the watchers and who runs.                                   *)

\* A step of the contract, or one it does not see.
ContractStep == [Contract!Next]_<<On, calling>>

\* What the program does keeps the queue in order.
LEMMA ProgramStep ==
    ASSUME QueueInv, CallingInv, Program
    PROVE  QueueInv' /\ CallingInv' /\ ContractStep
<1> USE DEF QueueInv
<1>1. pc \in {"callback", "setup"} /\ UNCHANGED <<pc, calling, sigflag>> BY DEF Program, signals
<1>2. Ios \subseteq Watchers /\ Timers \subseteq Watchers BY DEF Watchers
<1>3. Signal \notin Ios /\ Signal \notin Timers BY LoopAssumption
<1>4. QueueInv'
  <2>1. ASSUME NEW w \in Ios, ev_io_start(w) PROVE QueueInv'
    BY <1>1, <1>2, <2>1, Zenon DEF ev_io_start, QueueOK, PendingAgrees
  <2>2. ASSUME NEW w \in Ios, ev_io_stop(w) PROVE QueueInv'
    <3>1. QueueOK' /\ \A x \in Watchers : pending'[x] # 0 <=> pending[x] # 0 /\ x # w
      BY <1>2, <2>2, ClearKeeps, Zenon DEF ev_io_stop
    <3>2. active' = active \/ active' = active \ {w} BY <2>2, Zenon DEF ev_io_stop
    <3> QED BY <1>1, <1>3, <3>1, <3>2, Zenon
  <2>3. ASSUME NEW fd \in Fds, close(fd) \/ socket(fd) PROVE QueueInv'
    BY <1>1, <2>3, Zenon DEF close, socket, watchers, QueueOK, PendingAgrees
  <2>4. ASSUME NEW w \in Timers, ev_timer_start(w) \/ ev_timer_set(w) PROVE QueueInv'
    BY <1>1, <1>2, <2>4 DEF ev_timer_start, ev_timer_set, watchers, QueueOK, PendingAgrees
  <2>5. ASSUME NEW w \in Timers, ev_timer_stop(w) \/ ev_timer_again(w) PROVE QueueInv'
    <3>1. QueueOK' /\ \A x \in Watchers : pending'[x] # 0 <=> pending[x] # 0 /\ x # w
      BY <1>2, <2>5, ClearKeeps, Zenon DEF ev_timer_stop, ev_timer_again
    <3>2. active' = active \cup {w} \/ active' = active \ {w}
      BY <2>5, Zenon DEF ev_timer_stop, ev_timer_again
    <3> QED BY <1>1, <1>2, <1>3, <3>1, <3>2, Zenon
  <2> QED BY <2>1, <2>2, <2>3, <2>4, <2>5, Zenon DEF Program
<1>5. CallingInv' BY <1>1 DEF CallingInv
<1>6. calling # NoWatcher BY <1>1, LoopAssumption, Zenon DEF CallingInv
<1>7. Contract!Program BY <1>1, <1>6 DEF Contract!Program, On
<1> QED BY <1>4, <1>5, <1>7 DEF ContractStep, Contract!Next

\* Everything else: the contract sees a call, or nothing.
LEMMA LoopStep ==
    ASSUME QueueInv, CallingInv, [Next]_vars, ~Program
    PROVE  QueueInv' /\ CallingInv' /\ ContractStep
<1> USE DEF QueueInv
<1>0. /\ NoWatcher \notin Watchers /\ Main \notin Watchers /\ NoWatcher # Main
      /\ Ios \subseteq Watchers /\ Timers \subseteq Watchers /\ Signal \in Watchers
      /\ Signal \notin Ios /\ Signal \notin Timers /\ Once \cap Repeat = {}
  BY LoopAssumption, Zenon DEF Watchers
<1>1. ASSUME UNCHANGED <<watchers, sigflag, calling>>,
             pc' = pc \/ {pc, pc'} \cap {"callback", "setup"} = {}
      PROVE  QueueInv' /\ CallingInv' /\ ContractStep
  BY <1>1, Zenon DEF watchers, QueueOK, PendingAgrees, CallingInv, ContractStep, On
<1>2. CASE LoopTop /\ UNCHANGED calling BY <1>1, <1>2, Zenon DEF LoopTop, signals
<1>3. CASE SetWanted /\ UNCHANGED calling BY <1>1, <1>3, Zenon DEF SetWanted
<1>4. CASE WaitTime /\ UNCHANGED calling BY <1>1, <1>4, Zenon DEF WaitTime, signals
<1>5. CASE Enter /\ UNCHANGED calling BY <1>1, <1>5, Zenon DEF Enter
<1>6. CASE Return /\ UNCHANGED calling BY <1>1, <1>6, Zenon DEF Return
<1>7. CASE LoopEnd /\ UNCHANGED calling BY <1>1, <1>7, Zenon DEF LoopEnd, signals
<1>8. CASE Tick BY <1>1, <1>8, Zenon DEF Tick, signals
<1>9. CASE UNCHANGED vars BY <1>1, <1>9, Zenon DEF vars, signals
<1>10. ASSUME NEW S, UNCHANGED calling, {pc, pc'} \cap {"callback", "setup"} = {},
              QueueOK', \A w \in Watchers : pending'[w] # 0 <=> pending[w] # 0 \/ w \in S,
              active' \subseteq active, active \ active' \subseteq S \cap Once,
              sigflag' \in BOOLEAN, sigflag' => sigflag, S \subseteq active,
              Signal \in active => Signal \in active'
       PROVE  QueueInv' /\ CallingInv' /\ ContractStep
  <2>1. On' = On BY <1>10, Zenon DEF On
  <2> QED BY <2>1, <1>10, Zenon DEF CallingInv, ContractStep
<1>11. CASE Dispatch /\ UNCHANGED calling
  <2> DEFINE S == {w \in active \cap Ios : reify[w[1]] = {} /\ w[2] \in got[w[1]]}
  <2>1. PICK s \in Orders(Fresh(S)) : feed(s) BY <1>11, Zenon DEF Dispatch
  <2>2. S \subseteq Watchers /\ S \subseteq active /\ S \subseteq On BY <1>0, Zenon DEF On
  <2> HIDE DEF S
  <2>3. QueueOK' /\ \A w \in Watchers : pending'[w] # 0 <=> pending[w] # 0 \/ w \in S
    BY <2>1, <2>2, FeedKeeps, Zenon
  <2>4. UNCHANGED <<active, sigflag, calling>> /\ {pc, pc'} \cap {"callback", "setup"} = {}
    BY <1>11, Zenon DEF Dispatch
  <2> QED BY <2>2, <2>3, <2>4, <1>10, Zenon
<1>12. CASE FeedSkipped /\ UNCHANGED calling
  <2> DEFINE at == [t \in Timers |-> IF t \in active THEN left[t] - lag ELSE left[t]]
             S == {t \in active \cap Timers : at[t] < 0}
  <2>1. PICK s \in Reversed(Fresh(S), at) : feed(s) BY <1>12, Zenon DEF FeedSkipped, timers_reify
  <2>2. S \subseteq Watchers /\ S \subseteq active /\ S \subseteq On /\ S \subseteq Timers
    BY <1>0, Zenon DEF On
  <2>3. active' = active \ (S \ Again(S)) BY <1>12, Zenon DEF FeedSkipped, timers_reify
  <2> HIDE DEF S, at
  <2>4. s \in Orders(Fresh(S)) BY <2>1, Zenon DEF Reversed
  <2>5. QueueOK' /\ \A w \in Watchers : pending'[w] # 0 <=> pending[w] # 0 \/ w \in S
    BY <2>1, <2>2, <2>4, FeedKeeps, Zenon
  <2>6. /\ active' \subseteq active /\ active \ active' \subseteq S \cap Once
        /\ Signal \in active => Signal \in active'
    BY <2>2, <2>3, <1>0, Zenon DEF Again, Timers
  <2>7. UNCHANGED <<sigflag, calling>> /\ {pc, pc'} \cap {"callback", "setup"} = {}
    BY <1>12, Zenon DEF FeedSkipped
  <2> QED BY <2>2, <2>5, <2>6, <2>7, <1>10, Zenon
<1>13. CASE pipecb /\ UNCHANGED calling
  <2>1. CASE pc = "pipe_scan"
    <3> DEFINE S == IF sigflag THEN {Signal} ELSE {}
    <3>1. PICK s \in Orders(Fresh(S)) : feed(s) BY <2>1, <1>13, Zenon DEF pipecb
    <3>2. S \subseteq Watchers /\ S \subseteq active /\ S \subseteq On BY <1>0, Zenon DEF On
    <3> HIDE DEF S
    <3>3. QueueOK' /\ \A w \in Watchers : pending'[w] # 0 <=> pending[w] # 0 \/ w \in S
      BY <3>1, <3>2, FeedKeeps
    <3>4. /\ UNCHANGED <<active, calling>> /\ {pc, pc'} \cap {"callback", "setup"} = {}
          /\ sigflag' = FALSE
      BY <2>1, <1>13, Zenon DEF pipecb
    <3> QED BY <3>2, <3>3, <3>4, <1>10, Zenon
  <2>2. CASE pc # "pipe_scan" BY <1>1, <1>13, <2>2, Zenon DEF pipecb
  <2> QED BY <2>1, <2>2, Zenon
<1>14. CASE Invoke
  <2> DEFINE w == pendings[Len(pendings)]
  <2>1. /\ QueueOK' /\ calling' = w /\ w \in Watchers \cup {NoWatcher}
        /\ w \in Watchers => pending[w] # 0
        /\ \A x \in Watchers : pending'[x] # 0 <=> pending[x] # 0 /\ x # w
    BY <1>14, InvokeKeeps, Zenon
  <2>2. /\ pc = "invoke" /\ UNCHANGED <<active, sigflag>>
        /\ pc' = IF w = NoWatcher THEN "invoke" ELSE "callback"
    BY <1>14, Zenon DEF Invoke, signals
  <2> HIDE DEF w
  <2>3. QueueInv' BY <2>1, <2>2, Zenon
  <2>4. CallingInv' BY <2>1, <2>2, <1>0, Zenon DEF CallingInv
  <2>5. calling = NoWatcher BY <2>2, <1>0, Zenon DEF CallingInv
  <2>6. CASE w = NoWatcher
    <3>1. On' = On BY <2>1, <2>2, <2>6, <1>0, Zenon DEF On
    <3> QED BY <3>1, <2>1, <2>3, <2>4, <2>5, <2>6, Zenon DEF ContractStep
  <2>7. CASE w \in Watchers
    <3>1. w \in On BY <2>1, <2>7, Zenon DEF On
    <3>2. On' = On \/ On' = On \ (Once \cap {w})
      <4>1. CASE w \in active BY <4>1, <2>1, <2>2, Zenon DEF On
      <4>2. CASE w \notin active
        <5>1. w \in Once BY <4>2, <2>1, <2>7, Zenon
        <5> QED BY <5>1, <4>2, <2>1, <2>2, Zenon DEF On
      <4> QED BY <4>1, <4>2
    <3>3. Contract!Call BY <3>1, <3>2, <2>1, <2>5, Zenon DEF Contract!Call
    <3> QED BY <3>3, <2>3, <2>4, Zenon DEF ContractStep, Contract!Next
  <2> QED BY <2>1, <2>6, <2>7, Zenon
<1>15. CASE CallbackReturns
  <2>1. /\ UNCHANGED <<watchers, sigflag>> /\ calling' = NoWatcher /\ pc \in {"callback", "setup"}
        /\ pc' \notin {"callback", "setup"}
    BY <1>15, Zenon DEF CallbackReturns, signals
  <2>2. QueueInv' BY <2>1, Zenon DEF watchers, QueueOK, PendingAgrees
  <2>3. CallingInv' BY <2>1, <1>0, Zenon DEF CallingInv
  <2>4. calling # NoWatcher BY <2>1, <1>0, Zenon DEF CallingInv
  <2>5. Contract!Program BY <2>1, <2>4, Zenon DEF Contract!Program, On
  <2> QED BY <2>2, <2>3, <2>5, Zenon DEF ContractStep, Contract!Next
<1>16. CASE ev_sighandler
  BY <1>16, Zenon DEF ev_sighandler, watchers, QueueOK, PendingAgrees, CallingInv, ContractStep, On
<1> QED BY <1>2, <1>3, <1>4, <1>5, <1>6, <1>7, <1>8, <1>9, <1>11, <1>12, <1>13, <1>14, <1>15, <1>16, Zenon
    DEF Next, Loop
LEMMA QueueInit == Init => QueueInv /\ CallingInv /\ Contract!Init
<1> SUFFICES ASSUME Init PROVE QueueInv /\ CallingInv /\ Contract!Init OBVIOUS
<1>1. used \subseteq Watchers BY LoopAssumption, Zenon DEF Init
<1>2. pendings = << >> /\ pending = [w \in Watchers |-> 0] /\ active \subseteq used BY Zenon DEF Init
<1>3. QueueOK BY <1>2 DEF QueueOK, PendingAgrees
<1>4. QueueInv BY <1>1, <1>2, <1>3, Zenon DEF QueueInv, Init
<1> QED BY <1>4, Zenon DEF Init, CallingInv, Contract!Init, On

\* The queue and the watchers agree, whatever the callbacks stop and restart
\* while the queue is worked off (ev_feed_event, clear_pending,
\* ev_invoke_pending).
THEOREM Queue == Spec => []PendingAgrees
<1>1. QueueInv /\ CallingInv /\ [Next]_vars => (QueueInv /\ CallingInv)' BY ProgramStep, LoopStep
<1>2. QueueInv => PendingAgrees BY DEF QueueInv, QueueOK
<1> QED BY <1>1, <1>2, QueueInit, PTL DEF Spec

\* The loop implements the contract the models of the programs rely on: it calls
\* one callback at a time, of a watcher that is started or has just run out.
THEOREM ImplementsContract == Spec => ContractKept
<1>1. QueueInv /\ CallingInv /\ [Next]_vars => (QueueInv /\ CallingInv)' BY ProgramStep, LoopStep
<1>2. QueueInv /\ CallingInv /\ [Next]_vars => [Contract!Next]_<<On, calling>>
  BY ProgramStep, LoopStep DEF ContractStep
<1> QED BY <1>1, <1>2, QueueInit, PTL DEF Spec, ContractKept, Contract!Spec

-----------------------------------------------------------------------------
(* The epoll set.                                                          *)

\* What the program does is undone by fd_reify, or noted for it.
LEMMA EpollProgram == ASSUME EpollInv, Program PROVE EpollInv'
<1> USE DEF EpollInv
<1>1. pc \in {"callback", "setup"} /\ UNCHANGED pc BY Zenon DEF Program
<1>2. pc \notin Polling BY <1>1, Zenon DEF Polling
<1>3. ASSUME NEW w \in Ios, ev_io_start(w) PROVE EpollInv'
  <2>1. PICK f \in Fds, e \in {"R", "W"} : w = <<f, e>> BY DEF Ios
  <2>2. w[1] = f /\ w[1] \in Fds BY <2>1, Zenon
  <2>3. /\ reify' = [reify EXCEPT ![f] = @ \cup {"reify"} \cup IF w \in fdset THEN {"fdset"} ELSE {}]
        /\ active' = active \cup {w} /\ fdset' = fdset \ {w} /\ f \in open
        /\ UNCHANGED <<open, events, emask, kernel>>
    BY <1>3, <2>2, Zenon DEF ev_io_start, fd_change
  <2>4. ASSUME NEW fd \in Fds, fd # f
        PROVE  /\ Asked(fd)' = Asked(fd) /\ reify'[fd] = reify[fd]
               /\ \A x \in {<<fd, "R">>, <<fd, "W">>} : x \in fdset' <=> x \in fdset
    BY <2>1, <2>3, <2>4 DEF Asked
  <2>5. /\ reify'[f] # {} /\ reify' \in [Fds -> SUBSET {"reify", "fdset"}]
        /\ "fdset" \in reify'[f] <=> "fdset" \in reify[f] \/ w \in fdset
    BY <2>3, Zenon
  <2>6. w \in {<<f, "R">>, <<f, "W">>} BY <2>1, Zenon
  <2> QED BY <1>1, <1>2, <2>3, <2>4, <2>5, <2>6
<1>4. ASSUME NEW w \in Ios, ev_io_stop(w) PROVE EpollInv'
  <2>1. PICK f \in Fds, e \in {"R", "W"} : w = <<f, e>> BY DEF Ios
  <2>2. w[1] = f /\ w[1] \in Fds BY <2>1
  <2>3. UNCHANGED <<fdset, open, events, emask, kernel>> BY <1>4, Zenon DEF ev_io_stop
  <2>4. CASE w \notin active
    <3>1. UNCHANGED <<active, reify>> BY <1>4, <2>4, Zenon DEF ev_io_stop
    <3> QED BY <2>3, <3>1, <1>1, Zenon DEF Asked
  <2>5. CASE w \in active
    <3>1. /\ reify' = [reify EXCEPT ![f] = @ \cup {"reify"} \cup {}] /\ active' = active \ {w}
      BY <1>4, <2>2, <2>5, Zenon DEF ev_io_stop, fd_change
    <3>2. ASSUME NEW fd \in Fds, fd # f PROVE Asked(fd)' = Asked(fd) /\ reify'[fd] = reify[fd]
      BY <2>1, <3>1, <3>2, Zenon DEF Asked
    <3>3. /\ reify'[f] # {} /\ reify' \in [Fds -> SUBSET {"reify", "fdset"}]
          /\ "fdset" \in reify'[f] <=> "fdset" \in reify[f]
      BY <3>1, Zenon
    <3>4. Asked(f) = {} => Asked(f)' = {} BY <3>1, Zenon DEF Asked
    <3> QED BY <1>1, <1>2, <2>3, <3>2, <3>3, <3>4, Zenon
  <2> QED BY <2>4, <2>5, Zenon
<1>5. ASSUME NEW f \in Fds, close(f) PROVE EpollInv'
  <2>1. /\ kernel' = [kernel EXCEPT ![f] = {}] /\ open' = open \ {f} /\ Asked(f) = {}
        /\ UNCHANGED <<active, fdset, events, reify, emask>>
    BY <1>5, Zenon DEF close, watchers
  <2>2. \A fd \in Fds : Asked(fd)' = Asked(fd) BY <2>1, Zenon DEF Asked
  <2>3. kernel' \in [Fds -> Masks] BY <2>1, Zenon DEF Masks
  <2> QED BY <1>1, <2>1, <2>2, <2>3, Zenon
<1>6. ASSUME NEW f \in Fds, socket(f) PROVE EpollInv'
  <2>1. /\ open' = open \cup {f} /\ fdset' = fdset \cup {<<f, "R">>, <<f, "W">>}
        /\ UNCHANGED <<active, events, reify, emask, kernel>>
    BY <1>6, Zenon DEF socket, watchers
  <2>2. \A fd \in Fds : Asked(fd)' = Asked(fd) BY <2>1, Zenon DEF Asked
  <2> QED BY <1>1, <2>1, <2>2, Zenon
<1>7. ASSUME NEW w \in Timers,
             ev_timer_start(w) \/ ev_timer_stop(w) \/ ev_timer_again(w) \/ ev_timer_set(w)
      PROVE  EpollInv'
  <2>1. UNCHANGED fds /\ (active' = active \/ active' = active \cup {w} \/ active' = active \ {w})
    BY <1>7, Zenon DEF ev_timer_start, ev_timer_stop, ev_timer_again, ev_timer_set, watchers
  <2>2. \A fd \in Fds, e \in {"R", "W"} : <<fd, e>> \in Ios BY Zenon DEF Ios
  <2>3. w \notin Ios BY LoopAssumption, Zenon
  <2>4. \A fd \in Fds : Asked(fd)' = Asked(fd) BY <2>1, <2>2, <2>3, Zenon DEF Asked
  <2> QED BY <1>1, <2>1, <2>4, Zenon DEF fds
<1> QED BY <1>3, <1>4, <1>5, <1>6, <1>7, Zenon DEF Program
\* fd_reify leaves the epoll set of every descriptor as its watchers want it.
LEMMA EpollReify == ASSUME EpollInv, LoopTop PROVE EpollInv'
<1> USE DEF EpollInv
<1>1. fd_reify /\ UNCHANGED <<active, fdset, open>> /\ pc' = "wanted" BY Zenon DEF LoopTop, watchers
<1>2. \A fd \in Fds : Asked(fd)' = Asked(fd) /\ Asked(fd) \in Masks
  BY <1>1, Zenon DEF Asked, Masks
<1>3. \A fd \in Fds : reify'[fd] = {} BY <1>1, Zenon DEF fd_reify
<1>4. ASSUME NEW fd \in Fds
      PROVE  /\ events'[fd] = Asked(fd)
             /\ kernel'[fd] \in Masks /\ emask'[fd] \in Masks
             /\ kernel'[fd] # {} => kernel'[fd] = emask'[fd]
             /\ Asked(fd) # {} => kernel'[fd] = Asked(fd)
  <2>1. events'[fd] = Asked(fd) BY <1>1, Zenon DEF fd_reify
  <2>2. CASE Modified(fd)
    <3>1. emask'[fd] = Asked(fd) /\ kernel'[fd] = epoll_modify(fd, events[fd], Asked(fd))
      BY <1>1, <2>2, Zenon DEF fd_reify
    <3>2. epoll_modify(fd, events[fd], Asked(fd)) = Asked(fd) BY Zenon DEF epoll_modify
    <3> QED BY <2>1, <3>1, <3>2, <1>2, Zenon
  <2>3. CASE ~Modified(fd)
    <3>1. emask'[fd] = emask[fd] /\ kernel'[fd] = kernel[fd] BY <1>1, <2>3, Zenon DEF fd_reify
    <3>2. Asked(fd) # {} => events[fd] = Asked(fd) /\ "fdset" \notin reify[fd]
      BY <2>3, Zenon DEF Modified
    <3>3. Asked(fd) # {} => kernel[fd] = Asked(fd) BY <3>2, Zenon
    <3> QED BY <2>1, <3>1, <3>3, Zenon
  <2> QED BY <2>2, <2>3, Zenon
<1>5. /\ events' \in [Fds -> Masks] /\ kernel' \in [Fds -> Masks] /\ emask' \in [Fds -> Masks]
      /\ reify' \in [Fds -> SUBSET {"reify", "fdset"}]
  BY <1>1, <1>2, <1>4, Zenon DEF fd_reify
<1> QED BY <1>1, <1>2, <1>3, <1>4, <1>5, Zenon

LEMMA EpollStep == ASSUME EpollInv, [Next]_vars PROVE EpollInv'
<1> USE DEF EpollInv
<1>1. ASSUME UNCHANGED <<active, fdset, open, events, reify, emask, kernel>>,
             pc' \in Polling => pc \in Polling
      PROVE  EpollInv'
  BY <1>1, Zenon DEF Asked
<1>2. CASE LoopTop BY <1>2, EpollReify, Zenon
<1>3. CASE SetWanted BY <1>1, <1>3, Zenon DEF SetWanted, watchers, fds, Polling
<1>4. CASE WaitTime BY <1>1, <1>4, Zenon DEF WaitTime, watchers, fds, Polling
<1>5. CASE Enter BY <1>1, <1>5, Zenon DEF Enter, watchers, fds, Polling
<1>6. CASE Return BY <1>1, <1>6, Zenon DEF Return, watchers, Polling
<1>7. CASE Dispatch
  <2>1. /\ UNCHANGED <<active, fdset, open, events, reify>> /\ pc' \notin Polling
        /\ kernel' = [fd \in Fds |-> IF Unasked(fd) THEN events[fd] ELSE kernel[fd]]
        /\ emask' = [fd \in Fds |-> IF Unasked(fd) THEN events[fd] ELSE emask[fd]]
    BY <1>7, Zenon DEF Dispatch, Polling
  <2>2. kernel' \in [Fds -> Masks] /\ emask' \in [Fds -> Masks] BY <2>1, Zenon
  <2>3. ASSUME NEW fd \in Fds
        PROVE  /\ Asked(fd)' = Asked(fd)
               /\ \/ kernel'[fd] = events[fd] /\ emask'[fd] = events[fd]
                  \/ kernel'[fd] = kernel[fd] /\ emask'[fd] = emask[fd]
    BY <2>1, Zenon DEF Asked
  <2> QED BY <2>1, <2>2, <2>3, Zenon
<1>8. CASE FeedSkipped
  <2>1. UNCHANGED fds /\ pc' \notin Polling BY <1>8, Zenon DEF FeedSkipped, Polling
  <2>2. PICK S : S \subseteq Timers /\ active' = active \ (S \ Again(S))
    BY <1>8, Zenon DEF FeedSkipped, timers_reify
  <2>3. \A fd \in Fds, e \in {"R", "W"} : <<fd, e>> \in Ios BY Zenon DEF Ios
  <2>4. Ios \cap Timers = {} BY LoopAssumption, Zenon
  <2>5. \A fd \in Fds : Asked(fd)' = Asked(fd) BY <2>2, <2>3, <2>4, Zenon DEF Asked
  <2> QED BY <2>1, <2>5, Zenon DEF fds
<1>9. CASE pipecb /\ UNCHANGED fds BY <1>1, <1>9, Zenon DEF pipecb, watchers, fds, Polling
<1>10. CASE Invoke BY <1>1, <1>10, Zenon DEF Invoke, fds, Polling
<1>11. CASE LoopEnd BY <1>1, <1>11, Zenon DEF LoopEnd, watchers, fds, Polling
<1>12. CASE CallbackReturns BY <1>1, <1>12, Zenon DEF CallbackReturns, watchers, fds, Polling
<1>13. CASE Program BY <1>13, EpollProgram, Zenon
<1>14. CASE ev_sighandler BY <1>1, <1>14, Zenon DEF ev_sighandler, watchers, fds
<1>15. CASE Tick BY <1>1, <1>15, Zenon DEF Tick, watchers, fds
<1>16. CASE UNCHANGED vars BY <1>1, <1>16, Zenon DEF vars, watchers, fds
<1> QED BY <1>2, <1>3, <1>4, <1>5, <1>6, <1>7, <1>8, <1>9, <1>10, <1>11, <1>12, <1>13, <1>14, Zenon,
           <1>15, <1>16 DEF Next, Loop

\* Whenever the loop blocks, epoll watches every socket for what the program
\* waits for, although libev never tells the kernel that it has stopped watching
\* and descriptors are reused (fd_change, fd_reify, epoll_modify, epoll_poll).
THEOREM Armed == Spec => []KernelArmed
<1>1. Init => EpollInv
  <2> SUFFICES ASSUME Init PROVE EpollInv OBVIOUS
  <2>1. \A fd \in Fds, e \in {"R", "W"} : <<fd, e>> \in Ios BY DEF Ios
  <2>2. active \subseteq {Signal} /\ Signal \notin Ios BY LoopAssumption, Zenon DEF Init
  <2>3. \A fd \in Fds : Asked(fd) = {} BY <2>1, <2>2, Zenon DEF Asked
  <2> QED BY <2>3, Zenon DEF Init, EpollInv, Masks, Polling
<1>2. EpollInv => KernelArmed
  <2> SUFFICES ASSUME EpollInv, pc = "blocked", NEW fd \in Fds, Asked(fd) # {}
               PROVE  kernel[fd] = Asked(fd)
    BY Zenon DEF KernelArmed
  <2>1. reify[fd] = {} BY Zenon DEF EpollInv, Polling
  <2> QED BY <2>1, Zenon DEF EpollInv
<1> QED BY <1>1, <1>2, EpollStep, PTL DEF Spec
=============================================================================
