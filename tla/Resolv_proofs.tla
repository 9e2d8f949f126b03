---------------------------- MODULE Resolv_proofs ----------------------------
(***************************************************************************)
(* Proofs about Resolv for any number of clients and any contexts: the     *)
(* slots of resolv.c and the queue of libudns agree, the queue stays in    *)
(* the order of its deadlines, the client is given what the answers        *)
(* brought (LookupsSound), the timer is armed in time while nobody sets    *)
(* the clock back (TimerArmedForward), and the lookups are those of        *)
(* NameLookup (LookupSpec).                                                *)
(***************************************************************************)
EXTENDS Resolv, TLAPS

\* The leaves are for the SMT solver, unless they cite another prover.
USE SMTT(60)

\* Query ids are pairwise different, and the queue is in the order of the deadlines.
Distinct(queue) == \A i, j \in DOMAIN queue : queue[i].id = queue[j].id => i = j
Sorted(queue) == \A i, j \in DOMAIN queue : i < j => queue[i].deadline <= queue[j].deadline

\* No query that was sent is overdue by more than bound allows.
Low(queue, bound) ==
    \A i \in DOMAIN queue : queue[i].deadline = Epoch \/ queue[i].deadline >= bound

\* A lookup in progress: its client waits, and what its answers brought is in it.
Progress ==
    \A c \in Clients :
        /\ lookup[c].life = "live" => client[c] = "waiting"
        /\ lookup[c].life = "live" => got[c] = Range(lookup[c].responses)
        /\ client[c] = "idle" => got[c] = {}

\* What dnsc_utmexp says of the timer and the queue.
NoTimer == utm.exp = Never /\ utm.timer = Never /\ qactive = <<>>
AtOnce ==
    /\ utm.exp = Epoch /\ utm.timer \in -dnsc.late .. 0
    /\ Low(qactive, utm.timer - dnsc.late)
AtDeadline ==
    /\ utm.exp >= -dnsc.late /\ Low(qactive, -dnsc.late)
    /\ utm.timer = Never \/ utm.timer \in -dnsc.late .. utm.exp
    /\ stepsBack = 0 => utm.timer = utm.exp

TimerInv ==
    /\ Low(qactive, -2 * dnsc.late)
    /\ running \in {"loop", "io"} => NoTimer \/ AtOnce \/ AtDeadline
    /\ running = "loop" => /\ qactive = <<>> => utm.exp = Never
                           /\ utm.exp >= -dnsc.late => utm.exp = Head(qactive).deadline
    /\ running = "timeouts" => utm.timer = Never /\ (stepsBack = 0 => utm.exp <= 0)

RInv == TypeOK /\ ActiveMatches /\ QueueSorted /\ Progress /\ PrefersIPv4 /\ TimerInv

-----------------------------------------------------------------------------
(***************************************************************************)
(* The queue of libudns.                                                   *)
(***************************************************************************)

LEMMA SeqLen == ASSUME NEW S, NEW s \in Seq(S) PROVE Len(s) \in Nat /\ DOMAIN s = 1 .. Len(s)
OBVIOUS

LEMMA SeqElement == ASSUME NEW S, NEW s \in Seq(S), NEW i \in DOMAIN s PROVE s[i] \in S
OBVIOUS

LEMMA SeqOfFunction ==
    ASSUME NEW S, NEW n \in Nat, NEW F, F \in [1 .. n -> S]
    PROVE  F \in Seq(S) /\ Len(F) = n
OBVIOUS

LEMMA HeadFirst ==
    ASSUME NEW S, NEW s \in Seq(S), s # <<>>
    PROVE  1 \in DOMAIN s /\ Head(s) = s[1]
OBVIOUS

\* r holds queries of queue and queries that are due in a second or later.
Carried(r, queue) ==
    \A i \in DOMAIN r : r[i].deadline >= 1 \/ \E j \in DOMAIN queue : r[i].deadline = queue[j].deadline

\* The queue is a list of queries, each once, in the order of the deadlines.
QueueOK(queue) == queue \in Seq(Queries) /\ Distinct(queue) /\ Sorted(queue)

\* qlist_remove takes out the one query with the id.
LEMMA RemoveProperties ==
    ASSUME NEW queue, QueueOK(queue), NEW id \in Ids(queue)
    PROVE  /\ QueueOK(qlist_remove(queue, id))
           /\ Ids(qlist_remove(queue, id)) = Ids(queue) \ {id}
           /\ Carried(qlist_remove(queue, id), queue)
<1> DEFINE n  == Len(queue)
           at == CHOOSE i \in DOMAIN queue : queue[i].id = id
           from(i) == IF i < at THEN i ELSE i + 1
           r  == [i \in 1 .. (n - 1) |-> queue[from(i)]]
<1>1. n \in Nat /\ DOMAIN queue = 1 .. n
  BY SeqLen DEF QueueOK
<1>2. at \in 1 .. n /\ queue[at].id = id
  BY <1>1 DEF Ids
<1>3. qlist_remove(queue, id) = r
  BY DEF qlist_remove
<1> HIDE DEF at
<1>4. \A i \in 1 .. (n - 1) : from(i) \in 1 .. n /\ from(i) # at
  BY <1>1, <1>2
<1>5. r \in [1 .. (n - 1) -> Queries]
  BY <1>1, <1>4, SeqElement DEF QueueOK
<1>6. r \in Seq(Queries) /\ Len(r) = n - 1 /\ DOMAIN r = 1 .. (n - 1)
  <2>1. n - 1 \in Nat
    BY <1>1, <1>2
  <2>2. DOMAIN r = 1 .. (n - 1)
    OBVIOUS
  <2> HIDE DEF r
  <2> QED BY <2>1, <2>2, <1>5, SeqOfFunction
<1>7. \A i \in DOMAIN r : r[i] = queue[from(i)]
  BY <1>6
<1>8. \A i, j \in DOMAIN r : i < j => from(i) < from(j)
  BY <1>6, <1>2
<1>9. \A i, j \in DOMAIN r : from(i) = from(j) => i = j
  BY <1>6, <1>2
<1>10. \A j \in 1 .. n : j # at => \E i \in DOMAIN r : from(i) = j
  <2> TAKE j \in 1 .. n
  <2> HAVE j # at
  <2>1. CASE j < at
    BY <2>1, <1>2, <1>6
  <2>2. CASE j > at
    <3>1. j - 1 \in DOMAIN r /\ from(j - 1) = j
      BY <2>2, <1>1, <1>2, <1>6
    <3> QED BY <3>1
  <2> QED BY <2>1, <2>2, <1>2
<1> HIDE DEF r, from
<1>11. Distinct(r)
  BY <1>1, <1>4, <1>6, <1>7, <1>9 DEF Distinct, QueueOK
<1>12. Sorted(r)
  BY <1>1, <1>4, <1>6, <1>7, <1>8, Zenon DEF Sorted, QueueOK
<1>13. Ids(r) = Ids(queue) \ {id}
  <2>1. ASSUME NEW i \in DOMAIN r
        PROVE  r[i].id \in Ids(queue) /\ r[i].id # id
    BY <1>1, <1>2, <1>4, <1>6, <1>7, ZenonT(30) DEF Ids, QueueOK, Distinct
  <2>2. ASSUME NEW j \in DOMAIN queue, queue[j].id # id
        PROVE  queue[j].id \in Ids(r)
    BY <1>1, <1>2, <1>7, <1>10, <2>2 DEF Ids
  <2> QED BY <2>1, <2>2 DEF Ids
<1>14. Carried(r, queue)
  BY <1>1, <1>4, <1>6, <1>7, Zenon DEF Carried
<1> QED BY <1>3, <1>6, <1>11, <1>12, <1>13, <1>14 DEF QueueOK

\* qlist_insert_after puts a query with a new id behind position p: in order, if nothing
\* up to p is due after it and everything behind p is.
LEMMA InsertProperties ==
    ASSUME NEW queue, QueueOK(queue), NEW q \in Queries, q.id \notin Ids(queue),
           NEW p \in 0 .. Len(queue),
           \A j \in 1 .. p : queue[j].deadline <= q.deadline,
           \A j \in (p + 1) .. Len(queue) : q.deadline <= queue[j].deadline
    PROVE  LET r == qlist_insert_after(queue, q, p)
           IN  /\ QueueOK(r) /\ Ids(r) = Ids(queue) \cup {q.id}
               /\ \A i \in DOMAIN r : r[i] = q \/ \E j \in DOMAIN queue : r[i] = queue[j]
               /\ Len(r) = Len(queue) + 1
<1> DEFINE n == Len(queue)
           from(i) == IF i <= p THEN i ELSE i - 1
           r == [i \in 1 .. (n + 1) |-> IF i = p + 1 THEN q ELSE queue[from(i)]]
<1>1. n \in Nat /\ DOMAIN queue = 1 .. n /\ p \in 0 .. n
  BY SeqLen DEF QueueOK
<1>3. qlist_insert_after(queue, q, p) = r
  BY DEF qlist_insert_after
<1>4. \A i \in 1 .. (n + 1) : i # p + 1 => from(i) \in 1 .. n
  BY <1>1
<1>5. r \in [1 .. (n + 1) -> Queries]
  BY <1>1, <1>4, SeqElement, Zenon DEF QueueOK
<1>6. r \in Seq(Queries) /\ Len(r) = n + 1 /\ DOMAIN r = 1 .. (n + 1)
  BY <1>1, <1>5, SeqOfFunction
<1>7. r[p + 1] = q /\ \A i \in DOMAIN r : i # p + 1 => r[i] = queue[from(i)]
  BY <1>1, <1>6
<1>8. \A i, j \in DOMAIN r : i < j /\ i # p + 1 /\ j # p + 1 => from(i) < from(j)
  BY <1>1, <1>6
<1>9. \A i, j \in DOMAIN r : i # p + 1 /\ j # p + 1 /\ from(i) = from(j) => i = j
  BY <1>1, <1>6
<1>10. \A j \in 1 .. n : \E i \in DOMAIN r : i # p + 1 /\ from(i) = j
  <2> TAKE j \in 1 .. n
  <2>1. CASE j <= p
    <3>1. j \in DOMAIN r /\ j # p + 1 /\ from(j) = j
      BY <2>1, <1>1, <1>6
    <3> QED BY <3>1
  <2>2. CASE j > p
    <3>1. j + 1 \in DOMAIN r /\ j + 1 # p + 1 /\ from(j + 1) = j
      BY <2>2, <1>1, <1>6
    <3> QED BY <3>1, Zenon
  <2> QED BY <2>1, <2>2, <1>1
<1>11. \A i \in DOMAIN r : /\ i < p + 1 => from(i) \in 1 .. p
                           /\ i > p + 1 => from(i) \in (p + 1) .. n
  BY <1>1, <1>6
<1>12. p + 1 \in DOMAIN r
  BY <1>1, <1>6
<1> HIDE DEF r, from
<1>13. \A i \in DOMAIN r : i # p + 1 => from(i) \in DOMAIN queue /\ r[i].id # q.id
  BY <1>1, <1>4, <1>6, <1>7, Zenon DEF Ids
<1>14. Distinct(r)
  BY <1>7, <1>9, <1>13 DEF Distinct, QueueOK
<1>15. Sorted(r)
  <2>1. SUFFICES ASSUME NEW i \in DOMAIN r, NEW j \in DOMAIN r, i < j
                 PROVE  r[i].deadline <= r[j].deadline
    BY DEF Sorted
  <2>2. CASE i = p + 1
    BY <1>1, <1>6, <1>7, <1>11, <2>1, <2>2
  <2>3. CASE j = p + 1
    BY <1>1, <1>6, <1>7, <1>11, <2>1, <2>3
  <2>4. CASE i # p + 1 /\ j # p + 1
    BY <1>7, <1>8, <1>13, <2>1, <2>4 DEF QueueOK, Sorted
  <2> QED BY <2>2, <2>3, <2>4
<1>16. Ids(r) = Ids(queue) \cup {q.id}
  <2>1. ASSUME NEW i \in DOMAIN r
        PROVE  r[i].id \in Ids(queue) \/ r[i].id = q.id
    BY <1>7, <1>13 DEF Ids
  <2>2. ASSUME NEW j \in DOMAIN queue
        PROVE  queue[j].id \in Ids(r)
    BY <1>1, <1>7, <1>10 DEF Ids
  <2>3. q.id \in Ids(r)
    BY <1>7, <1>12, Zenon DEF Ids
  <2> QED BY <2>1, <2>2, <2>3 DEF Ids
<1>17. \A i \in DOMAIN r : r[i] = q \/ \E j \in DOMAIN queue : r[i] = queue[j]
  BY <1>7, <1>13
<1> QED BY <1>3, <1>6, <1>14, <1>15, <1>16, <1>17 DEF QueueOK

\* What is known of the constants the context fixes.
LEMMA ContextType ==
    ASSUME TypeOK
    PROVE  /\ dnsc.nserv \in Nat /\ dnsc.nsrch \in Nat /\ dnsc.ntries \in Nat \ {0}
           /\ \A t \in 0 .. (dnsc.ntries - 1) : dnsc.timeout * 2 ^ t \in Nat \ {0}
           /\ dnsc.late \in Nat /\ -2 * dnsc.late > Epoch + 1
           /\ dnsc.clients \subseteq Clients /\ dnsc.stepsBack \in Nat
BY UdnsAssumption, ResolvAssumption DEF TypeOK

-----------------------------------------------------------------------------
(***************************************************************************)
(* What an operation does to the queue.                                    *)
(***************************************************************************)

\* A query keeps its place in the queue, or ends.
Asked ==
    /\ QueueOK(qactive') /\ Ids(qactive') = Ids(qactive) /\ Carried(qactive', qactive)
    /\ UNCHANGED <<lookup, client, got>>

Ended == \E q \in Queries, n \in 0..1 : q.id \in Ids(qactive) /\ dns_end_query(q, n)

\* While libudns runs, its queue is one of queries, each once, in order.
LEMMA QueueFacts ==
    ASSUME RInv, running # "down"
    PROVE  QueueOK(qactive)
BY DEF RInv, TypeOK, ActiveMatches, QueueSorted, QueueOK, Distinct, Sorted

\* An element of the queue.
LEMMA QueueElement ==
    ASSUME TypeOK, NEW i \in DOMAIN qactive
    PROVE  qactive[i] \in Queries /\ qactive[i].id \in Ids(qactive) /\ qactive[i].deadline \in Int
<1>1. qactive[i] \in Queries
  BY SeqElement DEF TypeOK
<1> QED BY <1>1 DEF Queries, Ids

LEMMA QueueHead ==
    ASSUME TypeOK, qactive # <<>>
    PROVE  1 \in DOMAIN qactive /\ Head(qactive) = qactive[1]
BY HeadFirst DEF TypeOK

\* A query that was never sent.
LEMMA NewType ==
    ASSUME TypeOK, NEW id \in Clients \X Families
    PROVE  New(id) \in Queries /\ New(id).id = id /\ New(id).deadline = Epoch
<1>1. Epoch \in Int /\ dnsc.nsrch \in 0 .. dnsc.nsrch /\ 0 \in 0 .. (dnsc.ntries - 1) /\ 0 \in 0 .. dnsc.nserv
  BY ContextType DEF Epoch
<1> QED BY <1>1 DEF New, Queries

\* ReplyFailure while another server is awaited: the query is changed in its place.
LEMMA ReplaceProperties ==
    ASSUME NEW queue, QueueOK(queue), NEW q \in Queries, NEW left \in Queries,
           left.id = q.id, left.deadline = q.deadline, NEW k \in DOMAIN queue, queue[k] = q
    PROVE  LET r == [i \in DOMAIN queue |-> IF queue[i].id = q.id THEN left ELSE queue[i]]
           IN  QueueOK(r) /\ Ids(r) = Ids(queue) /\ Carried(r, queue)
<1> DEFINE r == [i \in DOMAIN queue |-> IF queue[i].id = q.id THEN left ELSE queue[i]]
<1>1. Len(queue) \in Nat /\ DOMAIN queue = 1 .. Len(queue) /\ DOMAIN r = DOMAIN queue
  BY SeqLen DEF QueueOK
<1>2. r \in [1 .. Len(queue) -> Queries]
  BY <1>1, SeqElement DEF QueueOK
<1>3. \A i \in DOMAIN queue : r[i].id = queue[i].id /\ r[i].deadline = queue[i].deadline
  BY <1>1 DEF QueueOK, Distinct
<1> HIDE DEF r
<1>4. r \in Seq(Queries)
  BY <1>1, <1>2, SeqOfFunction
<1>5. Distinct(r) /\ Sorted(r)
  BY <1>1, <1>3, Zenon DEF QueueOK, Distinct, Sorted
<1>6. Ids(r) = Ids(queue)
  BY <1>1, <1>3, Zenon DEF Ids
<1>7. Carried(r, queue)
  BY <1>1, <1>3 DEF Carried
<1> QED BY <1>4, <1>5, <1>6, <1>7 DEF QueueOK, r

-----------------------------------------------------------------------------
(***************************************************************************)
(* A query is asked again or ends, in dns_timeouts or dns_ioevent.         *)
(***************************************************************************)

\* What is due later than a second from now does not lower the bound.
LEMMA CarriedLow ==
    ASSUME NEW r, NEW queue, NEW bound \in Int, bound <= 1, Carried(r, queue), Low(queue, bound),
           \A i \in DOMAIN r : r[i].deadline \in Int
    PROVE  Low(r, bound)
BY DEF Carried, Low

\* Times are integers.
LEMMA Times ==
    ASSUME TypeOK
    PROVE  Epoch \in Int /\ Never \in Int /\ utm \in [exp : Int, timer : Int]
<1>1. Epoch \in Int /\ Never \in Int
  BY DEF Epoch, Never
<1>2. utm \in [exp : Int, timer : Int]
  BY DEF TypeOK
<1> QED BY <1>1, <1>2

\* The bounds of Low that occur.
LEMMA Bounds ==
    ASSUME TypeOK
    PROVE  /\ dnsc.late \in Nat /\ -dnsc.late \in Int /\ -2 * dnsc.late \in Int
           /\ -2 * dnsc.late > Epoch + 1 /\ -2 * dnsc.late <= -dnsc.late /\ -dnsc.late <= 0
           /\ utm.exp \in Int /\ utm.timer \in Int
           /\ Epoch = -1000 /\ Never = -2000
<1>1. dnsc.late \in Nat /\ -2 * dnsc.late > Epoch + 1
  BY ContextType
<1>2. utm.exp \in Int /\ utm.timer \in Int
  BY DEF TypeOK
<1>3. Epoch = -1000 /\ Never = -2000
  BY DEF Epoch, Never
<1>4. \A n \in Nat : -n \in Int /\ -2 * n \in Int /\ -2 * n <= -n /\ -n <= 0
  OBVIOUS
<1> QED BY <1>1, <1>2, <1>3, <1>4

\* The queue alone changes, and not to one with earlier deadlines.
LEMMA TimerCarried ==
    ASSUME TypeOK, TypeOK', TimerInv, running \in {"io", "timeouts"}, qactive # <<>>,
           UNCHANGED <<dnsc, utm, running, stepsBack>>, Carried(qactive', qactive)
    PROVE  TimerInv'
<1>1. \A i \in DOMAIN qactive' : qactive'[i].deadline \in Int
  <2>1. qactive' \in Seq(Queries')
    BY DEF TypeOK
  <2>2. \A i \in DOMAIN qactive' : qactive'[i] \in Queries'
    BY <2>1, SeqElement
  <2> QED BY <2>2 DEF Queries
<1>2. \A b \in Int : b <= 1 /\ Low(qactive, b) => Low(qactive', b)
  BY <1>1, CarriedLow
<1>3. Low(qactive, -2 * dnsc.late)'
  BY <1>2, Bounds DEF TimerInv
<1>4. CASE running = "io"
  <2>1. CASE AtOnce
    <3>1. utm.timer - dnsc.late \in Int /\ utm.timer - dnsc.late <= 1
      <4>1. utm.timer \in -dnsc.late .. 0
        BY <2>1 DEF AtOnce
      <4> QED BY <4>1, Bounds
    <3>2. AtOnce'
      BY <1>2, <2>1, <3>1 DEF AtOnce
    <3> QED BY <1>3, <1>4, <3>2 DEF TimerInv
  <2>2. CASE AtDeadline
    <3>1. AtDeadline'
      BY <1>2, <2>2, Bounds DEF AtDeadline
    <3> QED BY <1>3, <1>4, <3>1 DEF TimerInv
  <2> QED BY <1>4, <2>1, <2>2 DEF TimerInv, NoTimer
<1>5. CASE running = "timeouts"
  BY <1>3, <1>5 DEF TimerInv
<1> QED BY <1>4, <1>5

\* A query that was asked again is still the one of its lookup.
LEMMA AskedKeeps ==
    ASSUME RInv, running \in {"io", "timeouts"}, UNCHANGED <<dnsc, utm, running, stepsBack>>,
           qactive # <<>>, Asked
    PROVE  RInv'
<1>1. Queries' = Queries
  BY DEF Queries, Servers
<1>2. TypeOK'
  BY <1>1 DEF RInv, TypeOK, Asked, QueueOK
<1>3. ActiveMatches'
  BY Zenon DEF RInv, ActiveMatches, Asked, QueueOK, Distinct
<1>4. QueueSorted'
  BY DEF Asked, QueueOK, Sorted, QueueSorted
<1>5. Progress' /\ PrefersIPv4'
  BY Zenon DEF RInv, Progress, PrefersIPv4, Asked
<1>6. TimerInv'
  BY <1>2, TimerCarried DEF RInv, Asked
<1> QED BY <1>2, <1>3, <1>4, <1>5, <1>6 DEF RInv

LEMMA RangeNothing ==
    ASSUME NEW S, NEW s \in Seq(S), NEW f \in S
    PROVE  s \o [i \in 1..0 |-> f] = s
OBVIOUS

LEMMA RangeOne ==
    ASSUME NEW S, NEW s \in Seq(S), NEW f \in S
    PROVE  s \o <<f>> \in Seq(S) /\ Range(s \o <<f>>) = Range(s) \cup {f}
<1>2. s \o <<f>> = Append(s, f)
  OBVIOUS
<1>3. Append(s, f) \in Seq(S) /\ Len(Append(s, f)) = Len(s) + 1 /\ Len(s) \in Nat
  OBVIOUS
<1>4. \A i \in 1..Len(s) : Append(s, f)[i] = s[i]
  OBVIOUS
<1>5. Append(s, f)[Len(s) + 1] = f
  OBVIOUS
<1>6. DOMAIN s = 1 .. Len(s) /\ DOMAIN Append(s, f) = 1 .. (Len(s) + 1)
  BY <1>3, SeqLen
<1>7. Range(Append(s, f)) = Range(s) \cup {f}
  <2>1. ASSUME NEW i \in 1 .. (Len(s) + 1)
        PROVE  Append(s, f)[i] \in Range(s) \cup {f}
    <3>1. CASE i \in 1 .. Len(s)
      BY <1>4, <1>6, <3>1 DEF Range
    <3>2. CASE i = Len(s) + 1
      BY <1>5, <3>2
    <3> QED BY <1>3, <3>1, <3>2
  <2>2. ASSUME NEW i \in 1 .. Len(s)
        PROVE  s[i] \in Range(Append(s, f))
    <3>1. i \in 1 .. (Len(s) + 1) /\ Append(s, f)[i] = s[i]
      BY <1>3, <1>4
    <3> QED BY <1>6, <3>1 DEF Range
  <2>3. f \in Range(Append(s, f))
    <3>1. Len(s) + 1 \in 1 .. (Len(s) + 1)
      BY <1>3
    <3> QED BY <1>5, <1>6, <3>1 DEF Range
  <2> QED BY <1>6, <2>1, <2>2, <2>3, Zenon DEF Range
<1> QED BY <1>2, <1>3, <1>7, Zenon

\* choose_ipv4_first picks by what the responses hold, whatever their order.
LEMMA Chosen ==
    ASSUME NEW s \in Seq(Families)
    PROVE  /\ choose_ipv4_first(s) \in Answers
           /\ choose_ipv4_first(s) = IF "A" \in Range(s) THEN "A"
                                     ELSE IF "AAAA" \in Range(s) THEN "AAAA" ELSE "NULL"
<1>1. CASE "A" \in Range(s)
  BY <1>1 DEF choose_ipv4_first, Answers, Families
<1>2. CASE "A" \notin Range(s) /\ s = <<>>
  BY <1>2 DEF choose_ipv4_first, Answers, Range
<1>3. CASE "A" \notin Range(s) /\ s # <<>>
  <2>1. 1 \in DOMAIN s /\ s[1] \in Families
    BY <1>3, HeadFirst, SeqElement
  <2>2. s[1] \in Range(s)
    BY <2>1 DEF Range
  <2>3. s[1] = "AAAA"
    BY <1>3, <2>1, <2>2 DEF Families
  <2> QED BY <1>3, <2>2, <2>3 DEF choose_ipv4_first, Answers, Families
<1> QED BY <1>1, <1>2, <1>3

\* What dns_end_query does, for the lookup the query belongs to.
LEMMA EndEffect ==
    ASSUME RInv, running # "down", NEW q \in Queries, NEW n \in 0..1, q.id \in Ids(qactive), dns_end_query(q, n)
    PROVE  \E c \in Clients, f \in Families, responses \in Seq(Families) :
              /\ q.id = <<c, f>> /\ lookup[c].life = "live" /\ f \in lookup[c].queries
              /\ client[c] = "waiting"
              /\ QueueOK(qactive') /\ Ids(qactive') = Ids(qactive) \ {<<c, f>>}
              /\ Carried(qactive', qactive)
              /\ got' = [got EXCEPT ![c] = Range(responses)]
              /\ \/ /\ lookup[c].queries \ {f} = {}
                    /\ lookup' = [lookup EXCEPT ![c] = [life |-> "freed", queries |-> {}, responses |-> responses]]
                    /\ client' = [client EXCEPT ![c] = choose_ipv4_first(responses)]
                 \/ /\ lookup[c].queries \ {f} # {}
                    /\ lookup' = [lookup EXCEPT ![c] = [life |-> "live", queries |-> lookup[c].queries \ {f},
                                                        responses |-> responses]]
                    /\ client' = client
<1> DEFINE c == q.id[1]
           f == q.id[2]
           added == lookup[c].responses \o [i \in 1..n |-> f]
           l == [lookup[c] EXCEPT !.queries = @ \ {f}, !.responses = @ \o [i \in 1..n |-> f]]
<1>1. TypeOK /\ QueueOK(qactive)
  BY QueueFacts DEF RInv
<1>2. c \in Clients /\ f \in Families /\ q.id = <<c, f>>
  BY DEF Queries
<1>3. lookup[c].life = "live" /\ f \in lookup[c].queries
  BY <1>2, Zenon DEF RInv, ActiveMatches
<1>4. client[c] = "waiting" /\ got[c] = Range(lookup[c].responses)
  BY <1>2, <1>3, Zenon DEF RInv, Progress
<1>5. lookup[c] \in Lookups /\ lookup[c].responses \in Seq(Families) /\ lookup[c].queries \subseteq Families
  BY <1>1, <1>2, Zenon DEF TypeOK, Lookups
<1>6. /\ qactive' = qlist_remove(qactive, q.id)
      /\ QueueOK(qactive') /\ Ids(qactive') = Ids(qactive) \ {<<c, f>>} /\ Carried(qactive', qactive)
  BY <1>1, <1>2, RemoveProperties, Zenon DEF dns_end_query
<1>7. added \in Seq(Families) /\ Range(added) = IF n > 0 THEN got[c] \cup {f} ELSE got[c]
  <2>1. CASE n = 0
    BY <1>2, <1>4, <1>5, <2>1, RangeNothing
  <2>2. CASE n = 1
    <3> DEFINE old == lookup[c].responses
    <3>1. old \in Seq(Families) /\ f \in Families /\ got[c] = Range(old)
      BY <1>2, <1>4, <1>5, Zenon
    <3>2. added = old \o <<f>>
      <4>1. [i \in 1..n |-> f] = <<f>>
        BY <2>2
      <4> QED BY <4>1, Zenon
    <3> HIDE DEF old, f, added
    <3>3. added \in Seq(Families) /\ Range(added) = Range(old) \cup {f}
      BY <3>1, <3>2, RangeOne
    <3> QED BY <2>2, <3>1, <3>3
  <2> QED BY <2>1, <2>2
<1>8. l = [life |-> "live", queries |-> lookup[c].queries \ {f}, responses |-> added]
  <2>1. PICK rest \in SUBSET Families : rest = lookup[c].queries \ {f}
    BY <1>5, Zenon
  <2>2. l = [lookup[c] EXCEPT !.queries = rest, !.responses = added]
    BY <1>5, <2>1, Zenon DEF Lookups
  <2> HIDE DEF l, added
  <2> QED BY <1>3, <1>5, <1>7, <2>1, <2>2, Zenon DEF Lookups
<1>9. /\ lookup' = [lookup EXCEPT ![c] = IF lookup[c].queries \ {f} = {} THEN Freed(l) ELSE l]
      /\ client' = IF lookup[c].queries \ {f} = {}
                   THEN [client EXCEPT ![c] = choose_ipv4_first(l.responses)] ELSE client
      /\ got' = IF n > 0 THEN [got EXCEPT ![c] = @ \cup {f}] ELSE got
  BY Zenon DEF dns_end_query, dns_query_cb, all_queries_are_null
<1>10. got' = [got EXCEPT ![c] = Range(added)]
  BY <1>1, <1>2, <1>7, <1>9, Zenon DEF TypeOK
<1> HIDE DEF added, l, c, f
<1>11. CASE lookup[c].queries \ {f} = {}
  <2>1. Freed(l) = [life |-> "freed", queries |-> {}, responses |-> added]
    BY <1>8, <1>11 DEF Freed
  <2>2. l.responses = added
    BY <1>8
  <2> QED BY <1>2, <1>3, <1>4, <1>6, <1>7, <1>9, <1>10, <1>11, <2>1, <2>2, Zenon
<1>12. CASE lookup[c].queries \ {f} # {}
  BY <1>2, <1>3, <1>4, <1>6, <1>7, <1>8, <1>9, <1>10, <1>12, Zenon
<1> QED BY <1>11, <1>12, Zenon

\* A query that ended is no longer one of its lookup, and the last one of a lookup
\* answers its client.
LEMMA EndedKeeps ==
    ASSUME RInv, running \in {"io", "timeouts"}, UNCHANGED <<dnsc, utm, running, stepsBack>>, Ended
    PROVE  RInv'
<1>1. PICK q \in Queries, n \in 0..1 : q.id \in Ids(qactive) /\ dns_end_query(q, n)
  BY DEF Ended
<1>2. PICK c \in Clients, f \in Families, responses \in Seq(Families) :
              /\ q.id = <<c, f>> /\ lookup[c].life = "live" /\ f \in lookup[c].queries
              /\ client[c] = "waiting"
              /\ QueueOK(qactive') /\ Ids(qactive') = Ids(qactive) \ {<<c, f>>}
              /\ Carried(qactive', qactive)
              /\ got' = [got EXCEPT ![c] = Range(responses)]
              /\ \/ /\ lookup[c].queries \ {f} = {}
                    /\ lookup' = [lookup EXCEPT ![c] = [life |-> "freed", queries |-> {}, responses |-> responses]]
                    /\ client' = [client EXCEPT ![c] = choose_ipv4_first(responses)]
                 \/ /\ lookup[c].queries \ {f} # {}
                    /\ lookup' = [lookup EXCEPT ![c] = [life |-> "live", queries |-> lookup[c].queries \ {f},
                                                        responses |-> responses]]
                    /\ client' = client
  <2>1. running # "down"
    OBVIOUS
  <2> QED BY <1>1, <2>1, EndEffect, Zenon
<1>3. Queries' = Queries
  BY DEF Queries, Servers
<1>4. TypeOK
  BY DEF RInv
<1>5. lookup[c].queries \in SUBSET Families /\ Range(responses) \in SUBSET Families
  BY <1>4, SeqElement DEF TypeOK, Lookups, Range
<1>6. choose_ipv4_first(responses) \in ClientStates /\ choose_ipv4_first(responses) \notin {"idle", "waiting"}
  BY Chosen DEF ClientStates, Answers, Families
<1>7. lookup' \in [Clients -> Lookups]
  <2>1. [life |-> "freed", queries |-> {}, responses |-> responses] \in Lookups
    BY DEF Lookups
  <2>2. [life |-> "live", queries |-> lookup[c].queries \ {f}, responses |-> responses] \in Lookups
    BY <1>5, Zenon DEF Lookups
  <2> QED BY <1>2, <1>4, <2>1, <2>2, Zenon DEF TypeOK
<1>8. client' \in [Clients -> ClientStates]
  BY <1>2, <1>4, <1>6, Zenon DEF TypeOK
<1>9. got' \in [Clients -> SUBSET Families]
  BY <1>2, <1>4, <1>5, Zenon DEF TypeOK
<1>10. TypeOK'
  BY <1>2, <1>3, <1>4, <1>7, <1>8, <1>9, Zenon DEF TypeOK, QueueOK
<1>11. \A d \in Clients : d # c => lookup'[d] = lookup[d] /\ client'[d] = client[d] /\ got'[d] = got[d]
  BY <1>2, <1>4, ZenonT(30) DEF TypeOK
<1>12. /\ got'[c] = Range(responses) /\ lookup'[c].responses = responses
       /\ lookup'[c].queries = lookup[c].queries \ {f}
       /\ lookup'[c].life = IF lookup[c].queries \ {f} = {} THEN "freed" ELSE "live"
       /\ client'[c] = IF lookup[c].queries \ {f} = {} THEN choose_ipv4_first(responses) ELSE "waiting"
  BY <1>2, <1>4 DEF TypeOK
<1>13. ActiveMatches'
  <2>1. Distinct(qactive')
    BY <1>2, Zenon DEF QueueOK
  <2>2. Ids(qactive) = {id \in Clients \X Families :
                          lookup[id[1]].life = "live" /\ id[2] \in lookup[id[1]].queries}
    BY Zenon DEF RInv, ActiveMatches
  <2>3. ASSUME NEW d \in Clients, NEW g \in Families
        PROVE  <<d, g>> \in Ids(qactive') <=> lookup'[d].life = "live" /\ g \in lookup'[d].queries
    <3>1. <<d, g>> \in Ids(qactive) <=> lookup[d].life = "live" /\ g \in lookup[d].queries
      BY <2>2, Zenon
    <3>2. CASE d # c
      BY <1>2, <1>11, <3>1, <3>2, Zenon
    <3>3. CASE d = c
      BY <1>2, <1>12, <3>1, <3>3, Zenon
    <3> QED BY <3>2, <3>3, Zenon
  <2>4. Ids(qactive') \subseteq Clients \X Families
    BY <1>2, <2>2, Zenon
  <2>5. Ids(qactive') = {id \in Clients \X Families :
                          lookup'[id[1]].life = "live" /\ id[2] \in lookup'[id[1]].queries}
    BY <2>3, <2>4
  <2> QED BY <2>1, <2>5, Zenon DEF ActiveMatches, Distinct, Ids
<1>14. QueueSorted'
  BY <1>2, Zenon DEF QueueOK, Sorted, QueueSorted
<1>15. Progress'
  BY <1>6, <1>11, <1>12 DEF RInv, Progress
<1>16. PrefersIPv4'
  <2>1. SUFFICES ASSUME NEW d \in Clients, client'[d] \in Answers
                 PROVE  client'[d] = IF "A" \in got'[d] THEN "A"
                                     ELSE IF "AAAA" \in got'[d] THEN "AAAA" ELSE "NULL"
    BY Zenon DEF PrefersIPv4
  <2>2. CASE d # c
    BY <1>11, <2>1, <2>2, Zenon DEF RInv, PrefersIPv4
  <2>3. CASE d = c
    BY <1>12, <2>1, <2>3, Chosen, Zenon DEF Answers, Families
  <2> QED BY <2>2, <2>3, Zenon
<1>17. TimerInv'
  <2>1. qactive # <<>>
    BY <1>1 DEF Ids
  <2> QED BY <1>2, <1>4, <1>10, <2>1, TimerCarried, Zenon DEF RInv
<1> QED BY <1>10, <1>13, <1>14, <1>15, <1>16, <1>17 DEF RInv

-----------------------------------------------------------------------------
(***************************************************************************)
(* The timer.                                                              *)
(***************************************************************************)

\* dnsc_utmexp is right about the timer, and the queue has no earlier deadlines.
UtmFits(queue) ==
    \/ utm.exp = Never /\ utm.timer = Never /\ Low(queue, -dnsc.late)
    \/ /\ utm.exp = Epoch /\ utm.timer \in -dnsc.late .. 0
       /\ Low(queue, utm.timer - dnsc.late)
    \/ /\ utm.exp >= -dnsc.late /\ Low(queue, -dnsc.late)
       /\ utm.timer = Never \/ utm.timer \in -dnsc.late .. utm.exp
       /\ stepsBack = 0 => utm.timer = utm.exp

\* _dns_request_utm after the queue is complete, from a state in which dnsc_utmexp is
\* right about the timer: the timer is asked for at once or for the first deadline.
LEMMA RequestUtm ==
    ASSUME TypeOK, TypeOK', QueueSorted', UNCHANGED <<dnsc, stepsBack>>,
           NEW now \in BOOLEAN, utm' = dns_request_utm(qactive', now, utm),
           UtmFits(qactive'),
           running' = "loop"
    PROVE  TimerInv'
<1>1. CASE qactive' = <<>>
  <2>1. utm'.exp = Never /\ utm'.timer = Never
    BY <1>1, Bounds DEF dns_request_utm, UtmFits
  <2>2. \A b : Low(qactive', b)
    BY <1>1 DEF Low
  <2>3. NoTimer'
    BY <1>1, <2>1 DEF NoTimer
  <2>4. ~(utm'.exp >= -dnsc'.late)
    BY <2>1, Bounds
  <2> QED BY <1>1, <2>1, <2>2, <2>3, <2>4, Zenon DEF TimerInv
<1>2. CASE qactive' # <<>>
  <2> DEFINE d == Head(qactive').deadline
  <2>1. d \in Int /\ \A i \in DOMAIN qactive' : qactive'[i].deadline \in Int /\ d <= qactive'[i].deadline
    <3>0. qactive' \in Seq(Queries')
      BY DEF TypeOK
    <3>1. \A i \in DOMAIN qactive' : qactive'[i].deadline \in Int
      <4>1. \A i \in DOMAIN qactive' : qactive'[i] \in Queries'
        BY <3>0, SeqElement
      <4> QED BY <4>1, Zenon DEF Queries
    <3>2. 1 \in DOMAIN qactive' /\ Head(qactive') = qactive'[1]
      BY <1>2, <3>0, HeadFirst
    <3>3. \A i \in DOMAIN qactive' : i \in Nat /\ 1 <= i
      BY <3>0, SeqLen
    <3> QED BY <3>1, <3>2, <3>3 DEF QueueSorted
  <2>2. CASE ~now \/ d <= 0
    <3>1. utm' = IF utm.exp = Epoch THEN utm ELSE [exp |-> Epoch, timer |-> 0]
      BY <1>2, <2>2, Zenon DEF dns_request_utm
    <3>2. AtOnce'
      <4>1. CASE utm.exp = Epoch
        BY <3>1, <4>1, Bounds DEF AtOnce, UtmFits
      <4>2. CASE utm.exp # Epoch
        BY <3>1, <4>2, Bounds DEF AtOnce, UtmFits
      <4> QED BY <4>1, <4>2
    <3>3. Low(qactive, -2 * dnsc.late)'
      <4>1. utm'.timer \in -dnsc.late .. 0 /\ Low(qactive', utm'.timer - dnsc.late)
        BY <3>2 DEF AtOnce
      <4>2. -2 * dnsc.late <= utm'.timer - dnsc.late
        BY <4>1, Bounds
      <4> QED BY <2>1, <4>1, <4>2, Bounds DEF Low
    <3>4. utm'.exp = Epoch /\ ~(Epoch >= -dnsc.late)
      BY <3>1, Bounds
    <3> QED BY <1>2, <3>2, <3>3, <3>4, Zenon DEF TimerInv
  <2>3. CASE now /\ d > 0
    <3>1. utm' = IF utm.exp = d THEN utm ELSE [exp |-> d, timer |-> d]
      BY <1>2, <2>1, <2>3, Bounds DEF dns_request_utm
    <3>2. Low(qactive', -dnsc.late) /\ Low(qactive', -2 * dnsc.late)
      BY <2>1, <2>3, Bounds DEF Low
    <3>3. utm'.exp = d
      BY <3>1
    <3>4. AtDeadline'
      <4> HIDE DEF d
      <4>0. d \in Int /\ d > 0 /\ d >= -dnsc.late
        BY <2>1, <2>3, Bounds
      <4>1. CASE utm.exp = d
        <5>1. utm' = utm /\ d # Never /\ d # Epoch
          BY <3>1, <4>0, <4>1, Bounds
        <5>2. /\ utm.timer = Never \/ utm.timer \in -dnsc.late .. utm.exp
              /\ stepsBack = 0 => utm.timer = utm.exp
          BY <4>1, <5>1, Zenon DEF UtmFits
        <5> QED BY <3>2, <4>0, <4>1, <5>1, <5>2, Zenon DEF AtDeadline
      <4>2. CASE utm.exp # d
        <5>1. utm'.exp = d /\ utm'.timer = d
          BY <3>1, <4>2
        <5> QED BY <3>2, <4>0, <5>1, Bounds DEF AtDeadline
      <4> QED BY <4>1, <4>2
    <3> QED BY <1>2, <3>2, <3>3, <3>4 DEF TimerInv
  <2> QED BY <2>1, <2>2, <2>3
<1> QED BY <1>1, <1>2

\* The state a call from the loop or from dns_ioevent finds.
LEMMA UtmKnown ==
    ASSUME TypeOK, TimerInv, running \in {"loop", "io"}
    PROVE  UtmFits(qactive)
<1>1. CASE NoTimer
  BY <1>1 DEF NoTimer, Low, UtmFits
<1>2. CASE AtOnce
  BY <1>2, Zenon DEF AtOnce, UtmFits
<1>3. CASE AtDeadline
  BY <1>3, Zenon DEF AtDeadline, UtmFits
<1> QED BY <1>1, <1>2, <1>3, Zenon DEF TimerInv

LEMMA FitsOn ==
    ASSUME TypeOK, UtmFits(qactive), NEW queue, \A b \in Int : b <= 1 /\ Low(qactive, b) => Low(queue, b)
    PROVE  UtmFits(queue)
<1>1. -dnsc.late \in Int /\ -dnsc.late <= 1
  BY Bounds
<1>2. utm.timer \in -dnsc.late .. 0 => utm.timer - dnsc.late \in Int /\ utm.timer - dnsc.late <= 1
  BY Bounds
<1> QED BY <1>1, <1>2, Zenon DEF UtmFits

-----------------------------------------------------------------------------
(***************************************************************************)
(* The client's calls.                                                     *)
(***************************************************************************)

LEMMA Deadlines ==
    ASSUME NEW queue, QueueOK(queue)
    PROVE  \A i \in DOMAIN queue : queue[i].deadline \in Int
<1>1. \A i \in DOMAIN queue : queue[i] \in Queries
  BY SeqElement DEF QueueOK
<1> QED BY <1>1, Zenon DEF Queries

\* dns_submit_dn puts a query that was never sent at the head.
LEMMA SubmitProperties ==
    ASSUME TypeOK, NEW queue, QueueOK(queue), Low(queue, -2 * dnsc.late),
           NEW c \in Clients, NEW f \in Families, NEW submitted, <<c, f>> \notin Ids(queue)
    PROVE  LET r == Submit(queue, c, f, submitted)
           IN  /\ QueueOK(r)
               /\ Ids(r) = IF f \in submitted THEN Ids(queue) \cup {<<c, f>>} ELSE Ids(queue)
               /\ \A b \in Int : Low(queue, b) => Low(r, b)
<1> DEFINE r == Submit(queue, c, f, submitted)
           q == New(<<c, f>>)
<1>1. CASE f \notin submitted
  BY <1>1, Zenon DEF Submit
<1>2. CASE f \in submitted
  <2>1. q \in Queries /\ q.id = <<c, f>> /\ q.deadline = Epoch
    BY NewType, Zenon
  <2>2. r = qlist_insert_after(queue, q, 0)
    BY <1>2 DEF Submit
  <2>3. Len(queue) \in Nat /\ DOMAIN queue = 1 .. Len(queue)
    BY SeqLen DEF QueueOK
  <2>4. \A j \in 1 .. Len(queue) : Epoch <= queue[j].deadline
    <3>1. PICK b \in Int : b = -2 * dnsc.late /\ b > Epoch + 1 /\ Epoch \in Int
      BY Bounds
    <3>2. \A j \in 1 .. Len(queue) : queue[j].deadline \in Int
      BY <2>3, Deadlines, Zenon
    <3>3. \A j \in 1 .. Len(queue) : queue[j].deadline = Epoch \/ queue[j].deadline >= b
      BY <2>3, <3>1, Zenon DEF Low
    <3> QED BY <3>1, <3>2, <3>3
  <2> HIDE DEF q, r
  <2>5. \A j \in 1 .. 0 : queue[j].deadline <= q.deadline
    OBVIOUS
  <2>6. 0 \in 0 .. Len(queue) /\ (0 + 1) .. Len(queue) = 1 .. Len(queue)
    BY <2>3
  <2>7. \A j \in (0 + 1) .. Len(queue) : q.deadline <= queue[j].deadline
    BY <2>1, <2>4, <2>6, Zenon
  <2>8. /\ QueueOK(r) /\ Ids(r) = Ids(queue) \cup {q.id}
        /\ \A i \in DOMAIN r : r[i] = q \/ \E j \in DOMAIN queue : r[i] = queue[j]
    BY <2>1, <2>2, <2>5, <2>6, <2>7, InsertProperties
  <2>9. \A b \in Int : Low(queue, b) => Low(r, b)
    BY <2>1, <2>8, Zenon DEF Low
  <2> QED BY <1>2, <2>1, <2>8, <2>9, Zenon DEF r
<1> QED BY <1>1, <1>2, Zenon

\* dns_cancel takes a query out.
LEMMA CancelProperties ==
    ASSUME TypeOK, NEW queue, QueueOK(queue), NEW c, NEW f,
           f \in lookup[c].queries => <<c, f>> \in Ids(queue)
    PROVE  LET r == Cancel(queue, c, f)
           IN  /\ QueueOK(r)
               /\ Ids(r) = IF f \in lookup[c].queries THEN Ids(queue) \ {<<c, f>>} ELSE Ids(queue)
               /\ \A b \in Int : b <= 1 /\ Low(queue, b) => Low(r, b)
<1> DEFINE r == Cancel(queue, c, f)
<1>1. CASE f \notin lookup[c].queries
  BY <1>1, Zenon DEF Cancel
<1>2. CASE f \in lookup[c].queries
  <2>1. r = qlist_remove(queue, <<c, f>>)
    BY <1>2, Zenon DEF Cancel
  <2> HIDE DEF r
  <2>2. QueueOK(r) /\ Ids(r) = Ids(queue) \ {<<c, f>>} /\ Carried(r, queue)
    BY <1>2, <2>1, RemoveProperties, Zenon
  <2>3. \A b \in Int : b <= 1 /\ Low(queue, b) => Low(r, b)
    BY <2>2, Deadlines, CarriedLow, Zenon
  <2> QED BY <1>2, <2>2, <2>3, Zenon DEF r
<1> QED BY <1>1, <1>2, Zenon

\* The ids of the queue, client by client.
LEMMA MatchByPair ==
    ASSUME NEW ids, ids \subseteq Clients \X Families, NEW l,
           \A c \in Clients, f \in Families :
               <<c, f>> \in ids <=> l[c].life = "live" /\ f \in l[c].queries
    PROVE  ids = {id \in Clients \X Families : l[id[1]].life = "live" /\ id[2] \in l[id[1]].queries}
OBVIOUS

\* resolv_query: the new lookup has the queries that were submitted.
LEMMA QueryKeeps ==
    ASSUME RInv, NEW c \in Clients, NEW submitted \in SUBSET Families, resolv_query(c, submitted), dnsc' = dnsc
    PROVE  RInv'
<1> DEFINE q4 == Submit(qactive, c, "A", submitted)
           q6 == Submit(q4, c, "AAAA", submitted)
           fresh == [life |-> "live", queries |-> submitted, responses |-> <<>>]
           l == IF submitted = {} THEN Freed(fresh) ELSE fresh
<1>1. /\ running = "loop" /\ client[c] = "idle" /\ UNCHANGED <<running, got, stepsBack>>
      /\ client' = [client EXCEPT ![c] = "waiting"] /\ lookup' = [lookup EXCEPT ![c] = l]
      /\ qactive' = q6 /\ utm' = IF submitted = {} THEN utm ELSE dns_request_utm(q6, FALSE, utm)
  BY Zenon DEF resolv_query
<1>2. TypeOK /\ QueueOK(qactive) /\ Low(qactive, -2 * dnsc.late)
  <2>1. running # "down"
    BY <1>1, Zenon
  <2> QED BY <2>1, QueueFacts, Zenon DEF RInv, TimerInv
<1>3. lookup[c].life # "live" /\ got[c] = {}
  BY <1>1, Zenon DEF RInv, Progress
<1>4. Ids(qactive) = {id \in Clients \X Families :
                        lookup[id[1]].life = "live" /\ id[2] \in lookup[id[1]].queries}
  BY <1>1, Zenon DEF RInv, ActiveMatches
<1>5. \A f \in Families : <<c, f>> \notin Ids(qactive)
  BY <1>3, <1>4, Zenon
<1>6. /\ QueueOK(q4)
      /\ Ids(q4) = IF "A" \in submitted THEN Ids(qactive) \cup {<<c, "A">>} ELSE Ids(qactive)
      /\ \A b \in Int : Low(qactive, b) => Low(q4, b)
  BY <1>2, <1>5, SubmitProperties, Zenon DEF Families
<1> HIDE DEF q4
<1>7. Low(q4, -2 * dnsc.late) /\ <<c, "AAAA">> \notin Ids(q4)
  BY <1>2, <1>5, <1>6, Bounds DEF Families
<1>8. /\ QueueOK(q6)
      /\ Ids(q6) = IF "AAAA" \in submitted THEN Ids(q4) \cup {<<c, "AAAA">>} ELSE Ids(q4)
      /\ \A b \in Int : Low(q4, b) => Low(q6, b)
  BY <1>2, <1>6, <1>7, SubmitProperties, Zenon DEF Families
<1>9. Ids(q6) = Ids(qactive) \cup {<<c, f>> : f \in submitted}
  BY <1>6, <1>8, Zenon DEF Families
<1> HIDE DEF q6
<1>10. l \in Lookups /\ l.queries = submitted /\ l.responses = <<>>
       /\ l.life = IF submitted = {} THEN "freed" ELSE "live"
  <2>1. fresh \in Lookups
    BY DEF Lookups
  <2>2. Freed(fresh) = [life |-> "freed", queries |-> submitted, responses |-> <<>>]
    BY DEF Freed
  <2>3. [life |-> "freed", queries |-> submitted, responses |-> <<>>] \in Lookups
    BY DEF Lookups
  <2> QED BY <2>1, <2>2, <2>3
<1> HIDE DEF l
<1>11. Queries' = Queries
  BY Zenon DEF Queries, Servers
<1>12. utm' \in [exp : Int, timer : Int]
  <2>1. Epoch \in Int /\ Never \in Int /\ utm \in [exp : Int, timer : Int]
    BY <1>2, Times
  <2> QED BY <1>1, <2>1 DEF dns_request_utm
<1>13. TypeOK'
  BY <1>1, <1>2, <1>8, <1>10, <1>11, <1>12, Zenon DEF TypeOK, QueueOK, ClientStates
<1>14. \A d \in Clients : d # c => lookup'[d] = lookup[d] /\ client'[d] = client[d]
  BY <1>1, <1>2, Zenon DEF TypeOK
<1>15. lookup'[c] = l /\ client'[c] = "waiting"
  BY <1>1, <1>2, Zenon DEF TypeOK
<1>16. ActiveMatches'
  <2>1. ASSUME NEW d \in Clients, NEW f \in Families
        PROVE  <<d, f>> \in Ids(qactive') <=> lookup'[d].life = "live" /\ f \in lookup'[d].queries
    <3>1. <<d, f>> \in Ids(qactive) <=> lookup[d].life = "live" /\ f \in lookup[d].queries
      BY <1>4, Zenon
    <3>2. CASE d # c
      BY <1>1, <1>9, <1>14, <3>1, <3>2, Zenon
    <3>3. CASE d = c
      BY <1>1, <1>5, <1>9, <1>10, <1>15, <3>3, Zenon
    <3> QED BY <3>2, <3>3, Zenon
  <2>2. Ids(qactive') \subseteq Clients \X Families
    BY <1>1, <1>4, <1>9
  <2>3. Ids(qactive') = {id \in Clients \X Families : lookup'[id[1]].life = "live" /\ id[2] \in lookup'[id[1]].queries}
    BY <2>1, <2>2, MatchByPair, Zenon
  <2> QED BY <1>1, <1>8, <2>3, Zenon DEF ActiveMatches, Distinct, QueueOK, Ids
<1>17. QueueSorted'
  BY <1>1, <1>8, Zenon DEF QueueSorted, QueueOK, Sorted
<1>18. Progress' /\ PrefersIPv4'
  <2>1. Range(<<>>) = {}
    BY DEF Range
  <2>2. Progress'
    <3> SUFFICES ASSUME NEW d \in Clients
                 PROVE  /\ lookup'[d].life = "live" => client'[d] = "waiting"
                        /\ lookup'[d].life = "live" => got'[d] = Range(lookup'[d].responses)
                        /\ client'[d] = "idle" => got'[d] = {}
      BY Zenon DEF Progress
    <3>1. CASE d = c
      BY <1>1, <1>3, <1>10, <1>15, <2>1, <3>1, Zenon
    <3>2. CASE d # c
      <4>1. lookup'[d] = lookup[d] /\ client'[d] = client[d] /\ got'[d] = got[d]
        BY <1>1, <1>14, <3>2, Zenon
      <4> QED BY <4>1, Zenon DEF RInv, Progress
    <3> QED BY <3>1, <3>2, Zenon
  <2>3. PrefersIPv4'
    BY <1>1, <1>14, <1>15, Zenon DEF RInv, PrefersIPv4, Answers, Families
  <2> QED BY <2>2, <2>3
<1>19. TimerInv'
  <2>1. CASE submitted = {}
    <3>1. qactive' = qactive /\ utm' = utm
      BY <1>1, <2>1, Zenon DEF q6, q4, Submit
    <3> QED BY <1>1, <3>1, Zenon DEF RInv, TimerInv, NoTimer, AtOnce, AtDeadline
  <2>2. CASE submitted # {}
    <3>1. utm' = dns_request_utm(qactive', FALSE, utm) /\ running' = "loop"
      BY <1>1, <2>2, Zenon
    <3>2. \A b \in Int : Low(qactive, b) => Low(qactive', b)
      BY <1>1, <1>6, <1>8, Zenon
    <3>3. UtmFits(qactive)
      BY <1>1, <1>2, UtmKnown, Zenon DEF RInv
    <3>4. UtmFits(qactive')
      BY <1>2, <3>2, <3>3, FitsOn
    <3> QED BY <1>1, <1>2, <1>13, <1>17, <3>1, <3>4, RequestUtm, Zenon
  <2> QED BY <2>1, <2>2
<1> QED BY <1>13, <1>16, <1>17, <1>18, <1>19 DEF RInv

\* resolv_cancel: the lookup is released, and libudns holds none of its queries.
LEMMA CancelKeeps ==
    ASSUME RInv, NEW c \in Clients, resolv_cancel(c), dnsc' = dnsc
    PROVE  RInv'
<1> DEFINE q4 == Cancel(qactive, c, "A")
           q6 == Cancel(q4, c, "AAAA")
           queries == lookup[c].queries
<1>1. /\ running = "loop" /\ client[c] = "waiting" /\ lookup[c].life = "live"
      /\ UNCHANGED <<running, got, stepsBack>>
      /\ client' = [client EXCEPT ![c] = "cancelled"] /\ lookup' = [lookup EXCEPT ![c] = Freed(@)]
      /\ qactive' = q6 /\ utm' = dns_request_utm(q6, FALSE, utm)
  BY Zenon DEF resolv_cancel
<1>2. TypeOK /\ QueueOK(qactive)
  <2>1. running # "down"
    BY <1>1, Zenon
  <2> QED BY <2>1, QueueFacts DEF RInv
<1>3. Ids(qactive) = {id \in Clients \X Families :
                        lookup[id[1]].life = "live" /\ id[2] \in lookup[id[1]].queries}
  BY <1>1, Zenon DEF RInv, ActiveMatches
<1>4. queries \subseteq Families /\ \A f \in queries : <<c, f>> \in Ids(qactive)
  BY <1>1, <1>2, <1>3, Zenon DEF TypeOK, Lookups
<1>5. /\ QueueOK(q4)
      /\ Ids(q4) = IF "A" \in queries THEN Ids(qactive) \ {<<c, "A">>} ELSE Ids(qactive)
      /\ \A b \in Int : b <= 1 /\ Low(qactive, b) => Low(q4, b)
  BY <1>2, <1>4, CancelProperties, Zenon
<1> HIDE DEF q4
<1>6. "AAAA" \in queries => <<c, "AAAA">> \in Ids(q4)
  BY <1>4, <1>5, Zenon
<1>7. /\ QueueOK(q6)
      /\ Ids(q6) = IF "AAAA" \in queries THEN Ids(q4) \ {<<c, "AAAA">>} ELSE Ids(q4)
      /\ \A b \in Int : b <= 1 /\ Low(q4, b) => Low(q6, b)
  BY <1>2, <1>5, <1>6, CancelProperties, Zenon
<1> HIDE DEF q6
<1>8. Ids(q6) = Ids(qactive) \ {<<c, f>> : f \in queries}
  BY <1>4, <1>5, <1>7, Zenon DEF Families
<1>9. Freed(lookup[c]) \in Lookups /\ Freed(lookup[c]).life = "freed"
  BY <1>2, Zenon DEF TypeOK, Freed, Lookups
<1>10. Queries' = Queries
  BY DEF Queries, Servers
<1>11. utm' \in [exp : Int, timer : Int]
  <2>1. Epoch \in Int /\ Never \in Int /\ utm \in [exp : Int, timer : Int]
    BY <1>2, Times
  <2> QED BY <1>1, <2>1 DEF dns_request_utm
<1>12. TypeOK'
  BY <1>1, <1>2, <1>7, <1>9, <1>10, <1>11, Zenon DEF TypeOK, QueueOK, ClientStates
<1>13. \A d \in Clients : d # c => lookup'[d] = lookup[d] /\ client'[d] = client[d]
  BY <1>1, <1>2, Zenon DEF TypeOK
<1>14. lookup'[c] = Freed(lookup[c]) /\ client'[c] = "cancelled"
  BY <1>1, <1>2, Zenon DEF TypeOK
<1>15. ActiveMatches'
  <2>1. ASSUME NEW d \in Clients, NEW f \in Families
        PROVE  <<d, f>> \in Ids(qactive') <=> lookup'[d].life = "live" /\ f \in lookup'[d].queries
    <3>1. <<d, f>> \in Ids(qactive) <=> lookup[d].life = "live" /\ f \in lookup[d].queries
      BY <1>3, Zenon
    <3>2. CASE d # c
      BY <1>1, <1>8, <1>13, <3>1, <3>2, Zenon
    <3>3. CASE d = c
      BY <1>1, <1>8, <1>9, <1>14, <3>1, <3>3, Zenon
    <3> QED BY <3>2, <3>3, Zenon
  <2>2. Ids(qactive') \subseteq Clients \X Families
    BY <1>1, <1>3, <1>8, Zenon
  <2>3. Ids(qactive') = {id \in Clients \X Families : lookup'[id[1]].life = "live" /\ id[2] \in lookup'[id[1]].queries}
    BY <2>1, <2>2, MatchByPair, Zenon
  <2> QED BY <1>1, <1>7, <2>3, Zenon DEF ActiveMatches, Distinct, QueueOK, Ids
<1>16. QueueSorted'
  BY <1>1, <1>7, Zenon DEF QueueSorted, QueueOK, Sorted
<1>17. Progress'
  BY <1>1, <1>9, <1>13, <1>14 DEF RInv, Progress
<1>18. PrefersIPv4'
  BY <1>1, <1>13, <1>14, Zenon DEF RInv, PrefersIPv4, Answers, Families
<1>19. TimerInv'
  <2>1. \A b \in Int : b <= 1 /\ Low(qactive, b) => Low(qactive', b)
    BY <1>1, <1>5, <1>7, Zenon
  <2>2. UtmFits(qactive)
    BY <1>1, <1>2, UtmKnown, Zenon DEF RInv
  <2>3. UtmFits(qactive')
    BY <1>2, <2>1, <2>2, FitsOn
  <2>4. running' = "loop" /\ utm' = dns_request_utm(qactive', FALSE, utm)
    BY <1>1, Zenon
  <2> QED BY <1>1, <1>2, <1>12, <1>16, <2>3, <2>4, RequestUtm, Zenon
<1> QED BY <1>12, <1>15, <1>16, <1>17, <1>18, <1>19 DEF RInv

\* resolv_cancel of a lookup that was never submitted: libudns has nothing of it.
LEMMA UnsubmittedKeeps ==
    ASSUME RInv, NEW c \in Clients, CancelUnsubmitted(c), dnsc' = dnsc
    PROVE  RInv'
<1>1. /\ running = "loop" /\ client[c] = "waiting" /\ lookup[c].life = "freed"
      /\ client' = [client EXCEPT ![c] = "cancelled"] /\ running' \in {"loop", "aborted"}
      /\ UNCHANGED <<lookup, qactive, utm, got, stepsBack>>
  BY Zenon DEF CancelUnsubmitted
<1>2. TypeOK
  BY DEF RInv
<1>3. Queries' = Queries
  BY DEF Queries, Servers
<1>4. \A d \in Clients : client'[d] = IF d = c THEN "cancelled" ELSE client[d]
  BY <1>1, <1>2, Zenon DEF TypeOK
<1>5. TypeOK'
  BY <1>1, <1>2, <1>3, Zenon DEF TypeOK, ClientStates
<1>6. ActiveMatches' /\ QueueSorted'
  BY <1>1 DEF RInv, ActiveMatches, QueueSorted, Ids
<1>7. Progress' /\ PrefersIPv4'
  BY <1>1, <1>4 DEF RInv, Progress, PrefersIPv4, Answers, Families
<1>8. TimerInv'
  BY <1>1, Zenon DEF RInv, TimerInv, NoTimer, AtOnce, AtDeadline
<1> QED BY <1>5, <1>6, <1>7, <1>8 DEF RInv

-----------------------------------------------------------------------------
(***************************************************************************)
(* The event loop and the clocks.                                          *)
(***************************************************************************)

\* What a step leaves as it is that changes no query and no lookup.
LEMMA SameRecords ==
    ASSUME RInv, UNCHANGED <<dnsc, lookup, client, qactive, got, stepsBack>>,
           running # "down", running' \in {"loop", "timeouts", "io"}, utm' \in [exp : Int, timer : Int]
    PROVE  TypeOK' /\ ActiveMatches' /\ QueueSorted' /\ Progress' /\ PrefersIPv4'
<1>1. Queries' = Queries
  BY Zenon DEF Queries, Servers
<1>2. TypeOK'
  BY <1>1, Zenon DEF RInv, TypeOK
<1>3. ActiveMatches' /\ QueueSorted'
  BY DEF RInv, ActiveMatches, QueueSorted, Ids
<1>4. Progress'
  BY Zenon DEF RInv, Progress
<1>5. PrefersIPv4'
  BY Zenon DEF RInv, PrefersIPv4
<1> QED BY <1>2, <1>3, <1>4, <1>5, Zenon

\* dns_request_utm asks for a time.
LEMMA UtmType ==
    ASSUME TypeOK, NEW now
    PROVE  dns_request_utm(qactive, now, utm) \in [exp : Int, timer : Int]
<1>1. Epoch \in Int /\ Never \in Int /\ utm \in [exp : Int, timer : Int]
  BY Times
<1>2. qactive # <<>> => Head(qactive).deadline \in Int
  BY QueueHead, QueueElement
<1> QED BY <1>1, <1>2 DEF dns_request_utm

\* resolv_timeout_cb: the timer that ran out is not the one dnsc_utmexp is about.
LEMMA TimeoutCbKeeps ==
    ASSUME RInv, resolv_timeout_cb, dnsc' = dnsc
    PROVE  RInv'
<1>1. /\ running = "loop" /\ utm.timer # Never /\ utm.timer <= 0
      /\ utm' = [utm EXCEPT !.timer = Never]
      /\ running' = IF qactive = <<>> THEN "loop" ELSE "timeouts"
      /\ UNCHANGED <<lookup, client, qactive, got, stepsBack>>
  BY DEF resolv_timeout_cb
<1>2. TypeOK /\ TimerInv
  BY DEF RInv
<1>3. utm'.exp = utm.exp /\ utm'.timer = Never /\ utm' \in [exp : Int, timer : Int]
  <2>1. utm \in [exp : Int, timer : Int] /\ Never \in Int
    BY <1>2, Times
  <2> QED BY <1>1, <2>1
<1>4. qactive # <<>> /\ running' = "timeouts"
  BY <1>1, <1>2, Bounds DEF TimerInv, NoTimer, AtOnce, AtDeadline
<1>5. stepsBack = 0 => utm.exp <= 0
  BY <1>1, <1>2, Bounds DEF TimerInv, NoTimer, AtOnce, AtDeadline
<1>6. TimerInv'
  BY <1>1, <1>2, <1>3, <1>4, <1>5 DEF TimerInv
<1> QED BY <1>1, <1>3, <1>4, <1>6, SameRecords DEF RInv

\* The end of dns_timeouts: nothing is due, so what dnsc_utmexp said is over.
LEMMA TimeoutsDoneKeeps ==
    ASSUME RInv, TimeoutsDone, dnsc' = dnsc
    PROVE  RInv'
<1>1. /\ running = "timeouts" /\ ~Due /\ utm' = dns_request_utm(qactive, TRUE, utm) /\ running' = "loop"
      /\ UNCHANGED <<lookup, client, qactive, got, stepsBack>>
  BY DEF TimeoutsDone
<1>2. TypeOK /\ TimerInv /\ QueueSorted
  BY DEF RInv
<1>3. TypeOK' /\ ActiveMatches' /\ QueueSorted' /\ Progress' /\ PrefersIPv4'
  BY <1>1, <1>2, UtmType, SameRecords, Zenon
<1>4. utm.timer = Never /\ (stepsBack = 0 => utm.exp <= 0)
  BY <1>1, <1>2, Zenon DEF TimerInv
<1>5. TimerInv'
  <2>1. CASE qactive = <<>>
    <3>1. utm'.exp = Never /\ utm'.timer = Never
      BY <1>1, <1>2, <1>4, <2>1, Bounds DEF dns_request_utm
    <3>2. ~(utm'.exp >= -dnsc'.late)
      BY <1>2, <3>1, Bounds
    <3>3. NoTimer'
      BY <1>1, <2>1, <3>1, Zenon DEF NoTimer
    <3>4. \A b : Low(qactive', b)
      BY <1>1, <2>1 DEF Low
    <3> QED BY <1>1, <3>1, <3>2, <3>3, <3>4, Zenon DEF TimerInv
  <2>2. CASE qactive # <<>>
    <3> DEFINE d == Head(qactive).deadline
    <3>1. d \in Int /\ d > 0
      BY <1>1, <1>2, <2>2, QueueHead, QueueElement DEF Due
    <3>2. \A i \in DOMAIN qactive : qactive[i].deadline \in Int /\ d <= qactive[i].deadline
      <4>1. 1 \in DOMAIN qactive /\ Head(qactive) = qactive[1]
        BY <1>2, <2>2, QueueHead
      <4>2. \A i \in DOMAIN qactive : qactive[i].deadline \in Int /\ i \in Nat /\ 1 <= i
        BY <1>2, QueueElement, SeqLen DEF TypeOK
      <4> QED BY <1>2, <4>1, <4>2 DEF QueueSorted
    <3>3. utm' = IF utm.exp = d THEN utm ELSE [exp |-> d, timer |-> d]
      BY <1>1, <1>2, <2>2, <3>1, Bounds DEF dns_request_utm
    <3> HIDE DEF d
    <3>4. Low(qactive, -dnsc.late) /\ Low(qactive, -2 * dnsc.late)
      BY <1>2, <3>1, <3>2, Bounds DEF Low
    <3>5. utm'.exp = d /\ (utm'.timer = Never \/ utm'.timer = d) /\ (stepsBack = 0 => utm'.timer = d)
      BY <1>4, <3>1, <3>3
    <3>6. d >= -dnsc.late /\ (utm'.timer = Never \/ utm'.timer \in -dnsc.late .. d)
      BY <1>2, <3>1, <3>5, Bounds
    <3>7. AtDeadline'
      BY <1>1, <3>4, <3>5, <3>6, Zenon DEF AtDeadline
    <3> QED BY <1>1, <2>2, <3>4, <3>5, <3>7, Zenon DEF TimerInv, d
  <2> QED BY <2>1, <2>2
<1> QED BY <1>3, <1>5 DEF RInv

\* resolv_sock_cb calls dns_ioevent.
LEMMA SockCbKeeps ==
    ASSUME RInv, resolv_sock_cb, dnsc' = dnsc
    PROVE  RInv'
<1>1. /\ running = "loop" /\ running' = "io"
      /\ UNCHANGED <<lookup, client, qactive, utm, got, stepsBack>>
  BY DEF resolv_sock_cb
<1>2. utm' \in [exp : Int, timer : Int]
  BY <1>1 DEF RInv, TypeOK
<1>3. TimerInv'
  BY <1>1, Zenon DEF RInv, TimerInv, NoTimer, AtOnce, AtDeadline
<1> QED BY <1>1, <1>2, <1>3, SameRecords, Zenon DEF RInv

\* The end of dns_ioevent.
LEMMA IoDoneKeeps ==
    ASSUME RInv, IoDone, dnsc' = dnsc
    PROVE  RInv'
<1>1. /\ running = "io" /\ utm' = dns_request_utm(qactive, TRUE, utm) /\ running' = "loop"
      /\ UNCHANGED <<lookup, client, qactive, got, stepsBack>>
  BY DEF IoDone
<1>2. TypeOK /\ TimerInv
  BY DEF RInv
<1>3. TypeOK' /\ ActiveMatches' /\ QueueSorted' /\ Progress' /\ PrefersIPv4'
  BY <1>1, <1>2, UtmType, SameRecords, Zenon
<1>4. UtmFits(qactive')
  BY <1>1, <1>2, UtmKnown
<1>5. TimerInv'
  BY <1>1, <1>2, <1>3, <1>4, RequestUtm, Zenon
<1> QED BY <1>3, <1>5 DEF RInv

\* The clock is moved: every deadline but those of queries that were never sent.
LEMMA ShiftProperties ==
    ASSUME TypeOK, QueueOK(qactive), Low(qactive, -2 * dnsc.late), NEW by \in {-1, 1}, ShiftQueue(by)
    PROVE  /\ QueueOK(qactive') /\ Ids(qactive') = Ids(qactive) /\ DOMAIN qactive' = DOMAIN qactive
           /\ \A i \in DOMAIN qactive : qactive'[i].deadline = IF qactive[i].deadline = Epoch THEN Epoch
                                                               ELSE qactive[i].deadline + by
<1> DEFINE r == [i \in DOMAIN qactive |-> [qactive[i] EXCEPT !.deadline = Shift(@, by)]]
<1>9. qactive' = r
  BY DEF ShiftQueue
<1>1. Len(qactive) \in Nat /\ DOMAIN qactive = 1 .. Len(qactive) /\ DOMAIN r = DOMAIN qactive
  BY SeqLen DEF QueueOK
<1>2. \A i \in DOMAIN qactive : qactive[i] \in Queries
  BY SeqElement DEF QueueOK
<1>3. ASSUME NEW i \in DOMAIN qactive
      PROVE  /\ qactive[i].deadline \in Int
             /\ qactive[i].deadline = Epoch \/ qactive[i].deadline > Epoch + 1
             /\ Shift(qactive[i].deadline, by) = IF qactive[i].deadline = Epoch THEN Epoch
                                               ELSE qactive[i].deadline + by
             /\ Shift(qactive[i].deadline, by) \in Int
  <2>1. qactive[i].deadline \in Int
    BY <1>2, Zenon DEF Queries
  <2>2. PICK b \in Int : b = -2 * dnsc.late /\ b > Epoch + 1
    BY Bounds
  <2>3. qactive[i].deadline = Epoch \/ qactive[i].deadline >= b
    BY <2>2, Zenon DEF Low
  <2> QED BY <2>1, <2>2, <2>3, Bounds DEF Shift
<1>4. \A i \in DOMAIN qactive : /\ r[i] \in Queries /\ r[i].id = qactive[i].id
                              /\ r[i].deadline = Shift(qactive[i].deadline, by)
  BY <1>2, <1>3 DEF Queries
<1> HIDE DEF r
<1>5. r \in Seq(Queries)
  <2>1. r \in [1 .. Len(qactive) -> Queries]
    BY <1>1, <1>4, Zenon DEF r
  <2> QED BY <1>1, <2>1, SeqOfFunction, Zenon
<1>6. Distinct(r)
  BY <1>1, <1>4, Zenon DEF QueueOK, Distinct
<1>7. Sorted(r)
  <2>1. SUFFICES ASSUME NEW i \in DOMAIN qactive, NEW j \in DOMAIN qactive, i < j
                 PROVE  r[i].deadline <= r[j].deadline
    BY <1>1, Zenon DEF Sorted
  <2>2. qactive[i].deadline <= qactive[j].deadline
    BY <2>1, Zenon DEF QueueOK, Sorted
  <2> QED BY <1>3, <1>4, <2>2, Bounds
<1>8. Ids(r) = Ids(qactive)
  BY <1>1, <1>4, Zenon DEF Ids
<1> QED BY <1>1, <1>3, <1>4, <1>5, <1>6, <1>7, <1>8, <1>9, Zenon DEF QueueOK

\* What moving the clock leaves as it is.
LEMMA ShiftKeeps ==
    ASSUME RInv, running = "loop", NEW by \in {-1, 1}, ShiftQueue(by),
           UNCHANGED <<dnsc, lookup, client, running, got>>,
           utm' \in [exp : Int, timer : Int], stepsBack' \in 0 .. dnsc.stepsBack
    PROVE  /\ TypeOK' /\ ActiveMatches' /\ QueueSorted' /\ Progress' /\ PrefersIPv4'
           /\ DOMAIN qactive' = DOMAIN qactive
           /\ \A i \in DOMAIN qactive : qactive'[i].deadline = IF qactive[i].deadline = Epoch THEN Epoch
                                                               ELSE qactive[i].deadline + by
<1>1. TypeOK /\ QueueOK(qactive) /\ Low(qactive, -2 * dnsc.late)
  BY QueueFacts, Zenon DEF RInv, TimerInv
<1>2. /\ QueueOK(qactive') /\ Ids(qactive') = Ids(qactive) /\ DOMAIN qactive' = DOMAIN qactive
      /\ \A i \in DOMAIN qactive : qactive'[i].deadline = IF qactive[i].deadline = Epoch THEN Epoch
                                                          ELSE qactive[i].deadline + by
  BY <1>1, ShiftProperties, Zenon
<1>3. Queries' = Queries
  BY Zenon DEF Queries, Servers
<1>4. TypeOK'
  BY <1>1, <1>2, <1>3, Zenon DEF TypeOK, QueueOK
<1>5. ActiveMatches'
  BY <1>2, Zenon DEF RInv, ActiveMatches, QueueOK, Distinct
<1>6. QueueSorted'
  BY <1>2, Zenon DEF QueueSorted, QueueOK, Sorted
<1>7. Progress' /\ PrefersIPv4'
  BY Zenon DEF RInv, Progress, PrefersIPv4
<1> QED BY <1>2, <1>4, <1>5, <1>6, <1>7, Zenon

\* The first deadline is the earliest.
LEMMA FirstEarliest ==
    ASSUME TypeOK, QueueSorted, qactive # <<>>
    PROVE  /\ 1 \in DOMAIN qactive /\ Head(qactive) = qactive[1] /\ Head(qactive).deadline \in Int
           /\ \A i \in DOMAIN qactive : /\ qactive[i].deadline \in Int
                                        /\ Head(qactive).deadline <= qactive[i].deadline
<1>1. 1 \in DOMAIN qactive /\ Head(qactive) = qactive[1]
  BY QueueHead
<1>2. \A i \in DOMAIN qactive : qactive[i].deadline \in Int /\ i \in Nat /\ 1 <= i
  BY QueueElement, SeqLen DEF TypeOK
<1> QED BY <1>1, <1>2 DEF QueueSorted

\* A second passes.
LEMMA TickKeeps ==
    ASSUME RInv, Tick, dnsc' = dnsc
    PROVE  RInv'
<1>1. /\ running = "loop" /\ NextEvent > -dnsc.late /\ ShiftQueue(-1)
      /\ utm' = [exp |-> Shift(utm.exp, -1), timer |-> Shift(utm.timer, -1)]
      /\ UNCHANGED <<lookup, client, running, got, stepsBack>>
  BY Zenon DEF Tick
<1>2. TypeOK /\ TimerInv /\ QueueSorted
  BY DEF RInv
<1>3. utm.exp \in Int /\ utm.timer \in Int
  BY <1>2, Zenon DEF TypeOK
<1>4. Shift(utm.exp, -1) \in Int /\ Shift(utm.timer, -1) \in Int
  BY <1>2, <1>3, Bounds DEF Shift
<1>5. /\ TypeOK' /\ ActiveMatches' /\ QueueSorted' /\ Progress' /\ PrefersIPv4'
      /\ DOMAIN qactive' = DOMAIN qactive
      /\ \A i \in DOMAIN qactive : qactive'[i].deadline = IF qactive[i].deadline = Epoch THEN Epoch
                                                          ELSE qactive[i].deadline + -1
  <2>1. utm' \in [exp : Int, timer : Int] /\ stepsBack' \in 0 .. dnsc.stepsBack
    BY <1>1, <1>2, <1>4, Zenon DEF TypeOK
  <2> QED BY <1>1, <2>1, ShiftKeeps, Zenon
<1>6. qactive # <<>> /\ qactive' # <<>>
  <2>1. ASSUME qactive = <<>> PROVE FALSE
    <3>1. utm.exp = Never /\ (NoTimer \/ AtOnce \/ AtDeadline)
      BY <1>1, <1>2, <2>1, Zenon DEF TimerInv
    <3>2. Never # Epoch /\ ~(Never >= -dnsc.late)
      BY <1>2, Bounds
    <3>3. utm.timer = Never
      BY <3>1, <3>2, Zenon DEF NoTimer, AtOnce, AtDeadline
    <3>4. NextEvent = Never
      BY <2>1, <3>3, Zenon DEF NextEvent
    <3> QED BY <1>1, <1>2, <3>4, Bounds
  <2>2. 1 \in DOMAIN qactive
    BY <1>2, <2>1, QueueHead
  <2> QED BY <1>5, <2>1, <2>2
<1>7. /\ Head(qactive).deadline \in Int
      /\ \A i \in DOMAIN qactive : qactive[i].deadline \in Int /\ Head(qactive).deadline <= qactive[i].deadline
  BY <1>2, <1>6, FirstEarliest
<1>8. Head(qactive').deadline = IF Head(qactive).deadline = Epoch THEN Epoch ELSE Head(qactive).deadline + -1
  <2>1. 1 \in DOMAIN qactive /\ Head(qactive) = qactive[1]
    BY <1>2, <1>6, QueueHead
  <2>2. Head(qactive') = qactive'[1]
    <3>1. qactive' \in Seq(Queries')
      BY <1>5, Zenon DEF TypeOK
    <3> QED BY <1>6, <3>1, HeadFirst
  <2> QED BY <1>5, <2>1, <2>2, Zenon
<1>9. CASE AtOnce
  <2>1. utm.exp = Epoch /\ utm.timer \in -dnsc.late .. 0 /\ utm.timer > -dnsc.late
    BY <1>1, <1>2, <1>9, Bounds DEF AtOnce, NextEvent
  <2>2. utm'.exp = Epoch /\ utm'.timer = utm.timer - 1
    BY <1>1, <1>2, <2>1, Bounds DEF Shift
  <2>3. Low(qactive', utm'.timer - dnsc.late)
    <3>1. PICK b \in Int : b = utm.timer - dnsc.late /\ utm'.timer - dnsc.late = b - 1
      BY <1>2, <2>2, Bounds
    <3>2. Low(qactive, b)
      BY <1>9, <3>1 DEF AtOnce
    <3>3. Low(qactive', b - 1)
      BY <1>5, <1>7, <3>2, Bounds DEF Low
    <3> QED BY <3>1, <3>3, Zenon
  <2>4. AtOnce'
    BY <1>2, <2>1, <2>2, <2>3, Bounds DEF AtOnce
  <2>5. Low(qactive', -2 * dnsc.late)
    <3>1. PICK b \in Int : b = utm'.timer - dnsc.late /\ b >= -2 * dnsc.late
      BY <1>2, <2>1, <2>2, Bounds
    <3>2. \A i \in DOMAIN qactive' : qactive'[i].deadline \in Int
      BY <1>5, <1>7, Bounds
    <3>3. Low(qactive', b)
      BY <2>3, <3>1, Zenon
    <3> QED BY <1>2, <3>1, <3>2, <3>3, Bounds DEF Low
  <2>6. ~(utm'.exp >= -dnsc.late) /\ utm'.exp # Never
    BY <1>2, <2>2, Bounds
  <2> QED BY <1>1, <1>6, <2>4, <2>5, <2>6, <1>5, Zenon DEF TimerInv, RInv
<1>10. CASE AtDeadline
  <2>1. utm.exp = Head(qactive).deadline
    BY <1>1, <1>2, <1>10, Zenon DEF TimerInv, AtDeadline
  <2>2. utm.exp > -dnsc.late
    <3>1. CASE utm.timer = Never
      BY <1>1, <1>6, <2>1, <3>1, Zenon DEF NextEvent
    <3>2. CASE utm.timer # Never
      <4>1. utm.timer > -dnsc.late /\ utm.timer \in -dnsc.late .. utm.exp
        BY <1>1, <1>10, <3>2, Zenon DEF NextEvent, AtDeadline
      <4> QED BY <1>2, <1>3, <4>1, Bounds
    <3> QED BY <3>1, <3>2
  <2>3. utm'.exp = utm.exp - 1 /\ utm'.exp >= -dnsc.late
    BY <1>1, <1>2, <2>2, Bounds DEF Shift
  <2>4. utm'.timer = IF utm.timer = Never THEN Never ELSE utm.timer - 1
    BY <1>1, <1>2, <1>10, Bounds DEF Shift, AtDeadline
  <2>5. utm.timer # Never => utm.timer > -dnsc.late
    BY <1>1, Zenon DEF NextEvent
  <2>6. /\ utm'.timer = Never \/ utm'.timer \in -dnsc.late .. utm'.exp
        /\ stepsBack = 0 => utm'.timer = utm'.exp
    BY <1>2, <1>10, <2>3, <2>4, <2>5, Bounds DEF AtDeadline
  <2>7. \A i \in DOMAIN qactive' : qactive'[i].deadline \in Int /\ qactive'[i].deadline >= utm'.exp
    BY <1>2, <1>5, <1>7, <2>1, <2>2, <2>3, Bounds
  <2>8. Low(qactive', -dnsc.late) /\ Low(qactive', -2 * dnsc.late)
    BY <1>2, <1>3, <2>3, <2>7, Bounds DEF Low
  <2>9. AtDeadline'
    BY <1>1, <2>3, <2>6, <2>8, Zenon DEF AtDeadline
  <2>10. utm'.exp = Head(qactive').deadline
    BY <1>2, <1>8, <2>1, <2>2, <2>3, Bounds
  <2> QED BY <1>1, <1>5, <1>6, <2>8, <2>9, <2>10, Zenon DEF TimerInv, RInv
<1> QED BY <1>1, <1>2, <1>6, <1>9, <1>10, Zenon DEF TimerInv, NoTimer

\* The clock is set back.
LEMMA StepBackKeeps ==
    ASSUME RInv, StepBack, dnsc' = dnsc
    PROVE  RInv'
<1>1. /\ running = "loop" /\ stepsBack < dnsc.stepsBack /\ ShiftQueue(1)
      /\ utm' = [utm EXCEPT !.exp = Shift(@, 1)] /\ stepsBack' = stepsBack + 1
      /\ UNCHANGED <<lookup, client, running, got>>
  BY DEF StepBack
<1>2. TypeOK /\ TimerInv /\ QueueSorted
  BY DEF RInv
<1>3. utm \in [exp : Int, timer : Int] /\ Shift(utm.exp, 1) \in Int
  BY <1>2, Bounds DEF TypeOK, Shift
<1>4. utm'.exp = Shift(utm.exp, 1) /\ utm'.timer = utm.timer /\ utm' \in [exp : Int, timer : Int]
  BY <1>1, <1>3
<1>5. stepsBack' \in 0 .. dnsc.stepsBack /\ stepsBack' # 0
  BY <1>1, <1>2, ContextType DEF TypeOK
<1>6. /\ TypeOK' /\ ActiveMatches' /\ QueueSorted' /\ Progress' /\ PrefersIPv4'
      /\ DOMAIN qactive' = DOMAIN qactive
      /\ \A i \in DOMAIN qactive : qactive'[i].deadline = IF qactive[i].deadline = Epoch THEN Epoch
                                                          ELSE qactive[i].deadline + 1
  BY <1>1, <1>4, <1>5, ShiftKeeps
<1>7. \A i \in DOMAIN qactive : qactive[i].deadline \in Int
  BY <1>2, QueueElement, Zenon
<1>8. ASSUME NEW b \in Int, Low(qactive, b)
      PROVE  Low(qactive', b)
  BY <1>6, <1>7, <1>8, Bounds DEF Low
<1>9. Low(qactive', -2 * dnsc.late)
  BY <1>2, <1>8, Bounds DEF TimerInv
<1>10. CASE NoTimer
  <2>1. qactive' = <<>>
    <3>1. qactive' \in Seq(Queries') /\ DOMAIN qactive' = {}
      BY <1>6, <1>10 DEF TypeOK, NoTimer
    <3> QED BY <3>1, HeadFirst
  <2>2. utm'.exp = Never /\ utm'.timer = Never
    BY <1>4, <1>10, Zenon DEF NoTimer, Shift
  <2>3. ~(utm'.exp >= -dnsc.late)
    BY <1>2, <2>2, Bounds
  <2> QED BY <1>1, <1>6, <1>9, <2>1, <2>2, <2>3 DEF RInv, TimerInv, NoTimer
<1>11. ASSUME qactive # <<>>
       PROVE  /\ qactive' # <<>>
              /\ Head(qactive').deadline = IF Head(qactive).deadline = Epoch THEN Epoch
                                           ELSE Head(qactive).deadline + 1
  <2>1. 1 \in DOMAIN qactive /\ Head(qactive) = qactive[1]
    BY <1>2, <1>11, QueueHead
  <2>2. qactive' # <<>>
    BY <1>6, <2>1
  <2>3. Head(qactive') = qactive'[1]
    <3>1. qactive' \in Seq(Queries')
      BY <1>6, Zenon DEF TypeOK
    <3> QED BY <2>2, <3>1, HeadFirst
  <2> QED BY <1>6, <2>1, <2>2, <2>3, Zenon
<1>12. CASE AtOnce
  <2>1. utm'.exp = Epoch /\ utm'.timer = utm.timer
    BY <1>4, <1>12, Zenon DEF AtOnce, Shift
  <2>2. utm.timer - dnsc.late \in Int
    BY <1>2, Bounds
  <2>3. AtOnce'
    BY <1>8, <1>12, <2>1, <2>2, Zenon DEF AtOnce
  <2>4. qactive # <<>>
    BY <1>1, <1>2, <1>12, Bounds DEF TimerInv, AtOnce
  <2>5. ~(utm'.exp >= -dnsc.late)
    BY <1>2, <2>1, Bounds
  <2> QED BY <1>1, <1>6, <1>9, <1>11, <2>3, <2>4, <2>5 DEF RInv, TimerInv
<1>13. CASE AtDeadline
  <2>1. qactive # <<>> /\ utm.exp = Head(qactive).deadline
    BY <1>1, <1>2, <1>13, Bounds DEF TimerInv, AtDeadline
  <2>2. utm'.exp = utm.exp + 1 /\ utm.exp # Epoch
    BY <1>2, <1>4, <1>13, Bounds DEF AtDeadline, Shift
  <2>3. Low(qactive', -dnsc.late)
    BY <1>2, <1>8, <1>13, Bounds DEF AtDeadline
  <2>4. utm'.exp >= -dnsc.late /\ (utm'.timer = Never \/ utm'.timer \in -dnsc.late .. utm'.exp)
    BY <1>2, <1>4, <1>13, <2>2, Bounds DEF AtDeadline
  <2>5. AtDeadline'
    BY <1>5, <2>3, <2>4, Zenon DEF AtDeadline
  <2>6. qactive' # <<>> /\ utm'.exp = Head(qactive').deadline
    BY <1>11, <2>1, <2>2
  <2> QED BY <1>1, <1>6, <1>9, <2>5, <2>6 DEF RInv, TimerInv
<1> QED BY <1>1, <1>2, <1>10, <1>12, <1>13 DEF TimerInv

\* After dns_close there is nothing left.
LEMMA ShutdownKeeps ==
    ASSUME RInv, resolv_shutdown, dnsc' = dnsc
    PROVE  RInv'
<1>1. /\ running' = "down" /\ qactive' = <<>> /\ utm' = [exp |-> Never, timer |-> Never]
      /\ UNCHANGED <<lookup, client, got, stepsBack>>
  BY Zenon DEF resolv_shutdown
<1>2. TypeOK
  BY DEF RInv
<1>3. TypeOK'
  BY <1>1, <1>2, Bounds DEF TypeOK
<1>4. ActiveMatches' /\ QueueSorted'
  BY <1>1 DEF ActiveMatches, QueueSorted
<1>5. Progress' /\ PrefersIPv4'
  BY <1>1, Zenon DEF RInv, Progress, PrefersIPv4
<1>6. TimerInv'
  BY <1>1 DEF TimerInv, Low
<1> QED BY <1>3, <1>4, <1>5, <1>6 DEF RInv

-----------------------------------------------------------------------------
(***************************************************************************)
(* Asking a server: the place in the queue and the server to ask are least *)
(* numbers.                                                                *)
(***************************************************************************)

Wf == INSTANCE WellFoundedInduction

\* A set of naturals that is not empty has a least element.
LEMMA Least ==
    ASSUME NEW T, T \subseteq Nat, T # {}
    PROVE  \E x \in T : \A y \in T : x <= y
<1>1. Wf!IsWellFoundedOn(Wf!OpToRel(<, Nat), Nat)
  BY Wf!NatLessThanWellFounded, Zenon
<1>2. PICK x \in T : \A y \in T : ~ (<<y, x>> \in Wf!OpToRel(<, Nat))
  BY <1>1, Wf!WFMin, Zenon
<1>3. \A y \in T : ~ (y < x)
  BY <1>2, Zenon DEF Wf!OpToRel
<1> QED BY <1>3

\* So the walk of dns_send_this from the tail stops somewhere: behind the last query
\* that is not due after the new one, or at the head.
LEMMA LastNotAfter ==
    ASSUME NEW n \in Nat, NEW S, S \subseteq 1 .. n
    PROVE  \E p \in 0 .. n : (p > 0 => p \in S) /\ \A j \in (p + 1) .. n : j \notin S
<1>1. CASE S = {}
  BY <1>1
<1>2. CASE S # {}
  <2> DEFINE T == {k \in Nat : n - k \in S}
  <2>1. T # {}
    <3>1. PICK x \in S : TRUE
      BY <1>2, Zenon
    <3>2. n - x \in Nat /\ n - (n - x) = x
      BY <3>1
    <3> QED BY <3>1, <3>2
  <2>2. PICK k \in T : \A y \in T : k <= y
    BY <2>1, Least, Zenon
  <2>3. n - k \in S /\ n - k \in 1 .. n
    BY <2>2
  <2>4. ASSUME NEW j \in (n - k + 1) .. n, j \in S
        PROVE  FALSE
    <3>1. n - j \in Nat /\ n - (n - j) = j
      BY <2>3, <2>4
    <3>2. n - j \in T
      BY <2>4, <3>1, Zenon
    <3>3. k <= n - j
      BY <2>2, <3>2, Zenon
    <3> QED BY <2>3, <2>4, <3>3
  <2> QED BY <2>3, <2>4
<1> QED BY <1>1, <1>2, Zenon

\* dns_send_this puts the query behind the last one that is not due after it.
LEMMA InsertByDeadline ==
    ASSUME NEW queue, QueueOK(queue), NEW q \in Queries, q.id \notin Ids(queue)
    PROVE  LET r == insert_by_deadline(queue, q)
           IN  /\ QueueOK(r) /\ Ids(r) = Ids(queue) \cup {q.id}
               /\ \A i \in DOMAIN r : r[i] = q \/ \E j \in DOMAIN queue : r[i] = queue[j]
<1> DEFINE n == Len(queue)
           Here(p) == /\ p > 0 => queue[p].deadline <= q.deadline
                      /\ \A j \in (p + 1) .. n : queue[j].deadline > q.deadline
           at == CHOOSE p \in 0 .. n : Here(p)
           S == {j \in 1 .. n : queue[j].deadline <= q.deadline}
<1>1. n \in Nat /\ DOMAIN queue = 1 .. n
  BY SeqLen DEF QueueOK
<1>2. q.deadline \in Int /\ \A j \in 1 .. n : queue[j].deadline \in Int
  <2>1. \A j \in 1 .. n : queue[j] \in Queries
    BY <1>1, SeqElement DEF QueueOK
  <2> QED BY <2>1, Zenon DEF Queries
<1>3. \E p \in 0 .. n : Here(p)
  <2> SUFFICES \E p \in 0 .. n : (p > 0 => p \in S) /\ \A j \in (p + 1) .. n : j \notin S
    <3>1. PICK p \in 0 .. n : (p > 0 => p \in S) /\ \A j \in (p + 1) .. n : j \notin S
      BY Zenon
    <3>2. \A j \in (p + 1) .. n : j \in 1 .. n
      BY <1>1
    <3>3. Here(p)
      BY <1>2, <3>1, <3>2
    <3> QED BY <3>3, Zenon
  <2>1. S \subseteq 1 .. n
    BY Zenon
  <2> HIDE DEF S
  <2> QED BY <1>1, <2>1, LastNotAfter, Zenon
<1>4. at \in 0 .. n /\ Here(at)
  BY <1>3, Zenon
<1> HIDE DEF at
<1>5. \A j \in 1 .. at : queue[j].deadline <= q.deadline
  <2> TAKE j \in 1 .. at
  <2>1. j \in 1 .. n /\ at \in 1 .. n
    BY <1>1, <1>4
  <2>2. queue[at].deadline <= q.deadline
    BY <1>4, <2>1
  <2>3. j < at => queue[j].deadline <= queue[at].deadline
    BY <1>1, <2>1, Zenon DEF QueueOK, Sorted
  <2> QED BY <1>2, <2>1, <2>2, <2>3
<1>6. \A j \in (at + 1) .. n : q.deadline <= queue[j].deadline
  <2> TAKE j \in (at + 1) .. n
  <2>1. j \in 1 .. n
    BY <1>1, <1>4
  <2> QED BY <1>2, <1>4, <2>1
<1>7. insert_by_deadline(queue, q) = qlist_insert_after(queue, q, at)
  BY Zenon DEF insert_by_deadline, at
<1> HIDE DEF Here
<1> QED BY <1>4, <1>5, <1>6, <1>7, InsertProperties

\* A query whose round is not known to be one of those it has.
Asking == [id : Clients \X Families, deadline : Int, srch : 0 .. dnsc.nsrch,
           try : Nat, servi : Nat,
           wait : SUBSET Servers, skip : SUBSET Servers, noedns : SUBSET Servers]

\* dns_find_serv changes servi only, to a server or to the end of the list.
LEMMA FindServ ==
    ASSUME TypeOK, NEW q \in Asking
    PROVE  \E s \in 0 .. dnsc.nserv : dns_find_serv(q) = [q EXCEPT !.servi = s]
<1> DEFINE left == {s \in Servers : s >= q.servi /\ s \notin q.skip}
<1>1. left \subseteq Nat /\ left \subseteq 0 .. dnsc.nserv
  BY ContextType DEF Servers
<1>2. CASE left = {}
  BY <1>2, ContextType DEF dns_find_serv
<1>3. CASE left # {}
  <2>1. \E s \in left : \A r \in left : s <= r
    BY <1>1, <1>3, Least, Zenon
  <2>2. (CHOOSE s \in left : \A r \in left : s <= r) \in left
    BY <2>1, Zenon
  <2> QED BY <1>1, <1>3, <2>2, Zenon DEF dns_find_serv
<1> QED BY <1>2, <1>3

\* The query a packet went out for waits a second or more, in its place in the queue.
LEMMA SentProperties ==
    ASSUME TypeOK, NEW queue, QueueOK(queue), NEW q \in Queries, q.id \in Ids(queue), NEW s \in Servers
    PROVE  LET r == Sent(queue, q, s)
           IN  QueueOK(r) /\ Ids(r) = Ids(queue) /\ Carried(r, queue)
<1> DEFINE more == [q EXCEPT !.wait = @ \cup {s}]
           asked == dns_find_serv(more)
           wait == IF Found(asked) THEN 1 ELSE dnsc.timeout * 2 ^ q.try
           timed == [asked EXCEPT !.deadline = wait]
           rest == qlist_remove(queue, q.id)
           r == insert_by_deadline(rest, timed)
<1>1. more \in Asking /\ more.id = q.id /\ more.try = q.try
  BY ContextType DEF Queries, Asking, Servers
<1>2. PICK t \in 0 .. dnsc.nserv : asked = [more EXCEPT !.servi = t]
  BY <1>1, FindServ, Zenon
<1>3. wait \in Nat \ {0}
  BY ContextType DEF Queries
<1>4. timed \in Queries /\ timed.id = q.id /\ timed.deadline = wait
  <2> HIDE DEF wait
  <2>1. more \in Queries /\ more.id = q.id
    BY DEF Queries
  <2> HIDE DEF more
  <2>2. asked \in Queries /\ asked.id = q.id
    BY <1>2, <2>1 DEF Queries
  <2> HIDE DEF asked
  <2> QED BY <1>3, <2>2 DEF Queries
<1>5. QueueOK(rest) /\ Ids(rest) = Ids(queue) \ {q.id} /\ Carried(rest, queue)
  BY RemoveProperties, Zenon
<1> HIDE DEF rest, timed
<1>6. /\ QueueOK(r) /\ Ids(r) = Ids(rest) \cup {q.id}
      /\ \A i \in DOMAIN r : r[i] = timed \/ \E j \in DOMAIN rest : r[i] = rest[j]
  BY <1>4, <1>5, InsertByDeadline
<1> HIDE DEF r
<1>7. Ids(r) = Ids(queue)
  BY <1>5, <1>6, Zenon
<1>8. Carried(r, queue)
  BY <1>3, <1>4, <1>5, <1>6 DEF Carried
<1>9. Sent(queue, q, s) = r
  BY DEF Sent, r, timed, rest
<1> QED BY <1>6, <1>7, <1>8, <1>9, Zenon

\* dns_send with a server left to ask.
LEMMA SendProperties ==
    ASSUME TypeOK, NEW queue, QueueOK(queue), NEW q \in Queries, q.id \in Ids(queue), CanSend(q)
    PROVE  LET r == dns_send(queue, q)
           IN  QueueOK(r) /\ Ids(r) = Ids(queue) /\ Carried(r, queue)
<1> DEFINE again == [q EXCEPT !.servi = 0, !.try = @ + 1]
           at == NextServer(q)
           next == [at EXCEPT !.servi = @ + 1]
<1>1. q \in Asking /\ again \in Asking /\ again.id = q.id
  <2>1. q \in Asking
    BY ContextType DEF Queries, Asking
  <2>2. PICK n \in Nat : n = q.try + 1
    BY <2>1 DEF Asking
  <2>3. again = [q EXCEPT !.servi = 0, !.try = n]
    BY <2>1, <2>2 DEF Asking
  <2> QED BY <2>1, <2>3, Zenon DEF Asking
<1>2. PICK t \in 0 .. dnsc.nserv : dns_find_serv(q) = [q EXCEPT !.servi = t]
  BY <1>1, FindServ
<1>3. PICK u \in 0 .. dnsc.nserv : dns_find_serv(again) = [again EXCEPT !.servi = u]
  BY <1>1, FindServ, Zenon
<1>4. at \in Asking /\ at.id = q.id
  <2> HIDE DEF again
  <2>1. dns_find_serv(q) \in Asking /\ dns_find_serv(q).id = q.id
    BY <1>1, <1>2, ContextType DEF Asking
  <2>2. dns_find_serv(again) \in Asking /\ dns_find_serv(again).id = q.id
    BY <1>1, <1>3, ContextType DEF Asking
  <2>3. at \in {dns_find_serv(q), dns_find_serv(again)}
    BY DEF NextServer, again
  <2> QED BY <2>1, <2>2, <2>3, Zenon
<1>5. at.servi < dnsc.nserv /\ at.try < dnsc.ntries
  BY Zenon DEF CanSend, Found
<1> HIDE DEF at
<1>6. at.servi \in Servers
  BY <1>4, <1>5, ContextType DEF Servers, Asking
<1>7. next \in Queries /\ next.id = q.id
  BY <1>4, <1>5, ContextType DEF Queries, Asking
<1>8. dns_send(queue, q) = Sent(queue, next, at.servi)
  BY DEF dns_send, at
<1> HIDE DEF next
<1> QED BY <1>6, <1>7, <1>8, SentProperties, Zenon

\* dns_send asks the next server or ends the query.
LEMMA SendStep ==
    ASSUME RInv, running # "down", NEW q \in Queries, q.id \in Ids(qactive), Send(q)
    PROVE  Asked \/ Ended
<1>1. TypeOK /\ QueueOK(qactive)
  BY QueueFacts DEF RInv
<1>2. CASE CanSend(q) /\ qactive' = dns_send(qactive, q) /\ UNCHANGED <<lookup, client, got>>
  BY <1>1, <1>2, SendProperties, Zenon DEF Asked
<1>3. CASE dns_end_query(q, 0)
  BY <1>3 DEF Ended
<1> QED BY <1>2, <1>3 DEF Send

\* dns_ioevent with a reply of server s to query q.
LEMMA IoReplyStep ==
    ASSUME RInv, running = "io", NEW q \in Range(qactive), NEW s \in Servers, IoReply(q, s)
    PROVE  Asked \/ Ended
<1>1. TypeOK /\ QueueOK(qactive)
  BY QueueFacts, Zenon DEF RInv
<1>2. PICK k \in DOMAIN qactive : qactive[k] = q
  BY Zenon DEF Range
<1>3. q \in Queries /\ q.id \in Ids(qactive) /\ s \in q.wait
  BY <1>1, <1>2, QueueElement, Zenon DEF IoReply
<1>4. Replied(q, s) \in Queries /\ Replied(q, s).id = q.id /\ Replied(q, s).deadline = q.deadline
      /\ Replied(q, s).srch = q.srch
  BY <1>3 DEF Replied, Queries
<1>5. CASE ReplyAnswer(q, s)
  BY <1>3, <1>4, <1>5, Zenon DEF ReplyAnswer, Ended
<1>6. CASE ReplyNothing(q, s)
  <2>1. CASE q.srch > 0
    <3>1. PICK d \in Int, n \in 0 .. dnsc.nsrch : d = q.deadline /\ n = q.srch - 1
      BY <1>1, <1>3, <2>1, ContextType DEF Queries
    <3>2. NextSearch(Replied(q, s)) = [New(q.id) EXCEPT !.deadline = d, !.srch = n]
      BY <1>4, <3>1 DEF NextSearch
    <3>3. New(q.id) \in Queries /\ New(q.id).id = q.id
      BY <1>1, <1>3, NewType, Zenon DEF Queries
    <3>4. NextSearch(Replied(q, s)) \in Queries /\ NextSearch(Replied(q, s)).id = q.id
      BY <3>2, <3>3, ZenonT(30) DEF Queries
    <3>5. Send(NextSearch(Replied(q, s)))
      BY <1>6, <2>1, Zenon DEF ReplyNothing
    <3> QED BY <1>3, <3>4, <3>5, SendStep, Zenon
  <2>2. CASE ~(q.srch > 0)
    BY <1>3, <1>6, <2>2 DEF ReplyNothing, Ended
  <2> QED BY <2>1, <2>2
<1>7. CASE ReplyFormErr(q, s)
  <2> DEFINE plain == [Replied(q, s) EXCEPT !.noedns = @ \cup {s}]
  <2>1. plain \in Queries /\ plain.id = q.id
    BY <1>4 DEF Queries
  <2>2. CASE qactive' = Sent(qactive, plain, s) /\ UNCHANGED <<lookup, client, got>>
    <3> HIDE DEF plain
    <3> QED BY <1>1, <1>3, <2>1, <2>2, SentProperties, Zenon DEF Asked
  <2>3. CASE dns_end_query(q, 0)
    BY <1>3, <2>3 DEF Ended
  <2> QED BY <1>7, <2>2, <2>3 DEF ReplyFormErr
<1>8. CASE ReplyFailure(q, s)
  <2> DEFINE left == [Replied(q, s) EXCEPT !.skip = @ \cup {s}]
  <2>1. left \in Queries /\ left.id = q.id /\ left.deadline = q.deadline
    BY <1>4 DEF Queries
  <2>2. CASE left.wait = {}
    <3>1. Send(left)
      BY <1>8, <2>2 DEF ReplyFailure
    <3> HIDE DEF left
    <3> QED BY <1>3, <2>1, <3>1, SendStep, Zenon
  <2>3. CASE left.wait # {}
    <3>1. /\ qactive' = [i \in DOMAIN qactive |-> IF qactive[i].id = q.id THEN left ELSE qactive[i]]
          /\ UNCHANGED <<lookup, client, got>>
      BY <1>8, <2>3 DEF ReplyFailure
    <3> HIDE DEF left
    <3> QED BY <1>1, <1>2, <1>3, <2>1, <3>1, ReplaceProperties, ZenonT(30) DEF Asked
  <2> QED BY <2>2, <2>3
<1> QED BY <1>5, <1>6, <1>7, <1>8, Zenon DEF IoReply

\* dns_timeouts with the query at the head.
LEMMA TimeoutsStepStep ==
    ASSUME RInv, TimeoutsStep
    PROVE  Asked \/ Ended
<1>1. TypeOK /\ running # "down" /\ qactive # <<>> /\ Send(Head(qactive))
  BY DEF RInv, TimeoutsStep, Due
<1>2. Head(qactive) \in Queries /\ Head(qactive).id \in Ids(qactive)
  BY <1>1, QueueHead, QueueElement, Zenon
<1> QED BY <1>1, <1>2, SendStep, Zenon

-----------------------------------------------------------------------------
(***************************************************************************)
(* The theorems.                                                           *)
(***************************************************************************)

LEMMA InitHolds == Init => RInv
<1> SUFFICES ASSUME Init PROVE RInv
  OBVIOUS
<1>1. Never \in Int /\ Never = -2000 /\ dnsc \in Contexts
  BY DEF Never, Init
<1>2. [life |-> "none", queries |-> {}, responses |-> <<>>] \in Lookups
  BY DEF Lookups
<1>3. TypeOK
  <2>1. dnsc.stepsBack \in Nat
    BY <1>1, ResolvAssumption
  <2> QED BY <1>1, <1>2, <2>1 DEF Init, TypeOK, ClientStates
<1>4. ActiveMatches
  <2>1. Ids(qactive) = {}
    BY DEF Init, Ids
  <2>2. \A c \in Clients : lookup[c].life = "none"
    BY Zenon DEF Init
  <2>3. {id \in Clients \X Families : lookup[id[1]].life = "live" /\ id[2] \in lookup[id[1]].queries} = {}
    BY <2>2, Zenon
  <2> QED BY <2>1, <2>3 DEF Init, ActiveMatches
<1>5. QueueSorted
  BY DEF Init, QueueSorted
<1>6. Progress /\ PrefersIPv4
  BY Zenon DEF Init, Progress, PrefersIPv4, Answers, Families
<1>7. TimerInv
  <2>1. ~(utm.exp >= -dnsc.late)
    BY <1>1, <1>3, Bounds DEF Init
  <2> QED BY <2>1 DEF Init, TimerInv, NoTimer, Low
<1> QED BY <1>3, <1>4, <1>5, <1>6, <1>7 DEF RInv

\* Every step keeps the invariant.
LEMMA StepKeeps == RInv /\ [Next]_vars => RInv'
<1> SUFFICES ASSUME RInv, [Next]_vars
             PROVE  RInv'
  OBVIOUS
<1>1. CASE UNCHANGED vars
  <2>1. Queries' = Queries
    BY <1>1, ZenonT(30) DEF vars, Queries, Servers
  <2>2. TypeOK' /\ ActiveMatches' /\ QueueSorted'
    BY <1>1, <2>1 DEF vars, RInv, TypeOK, ActiveMatches, QueueSorted, Ids
  <2>3. Progress' /\ PrefersIPv4'
    BY <1>1, Zenon DEF vars, RInv, Progress, PrefersIPv4
  <2>4. TimerInv'
    BY <1>1, Zenon DEF vars, RInv, TimerInv, NoTimer, AtOnce, AtDeadline
  <2> QED BY <2>2, <2>3, <2>4, Zenon DEF RInv
<1>2. CASE Next
  <2>1. dnsc' = dnsc /\ Step
    BY <1>2 DEF Next
  <2>2. ASSUME NEW c \in dnsc.clients, NEW submitted \in SUBSET Families, resolv_query(c, submitted)
        PROVE  RInv'
    <3>1. c \in Clients
      BY ContextType, Zenon DEF RInv
    <3> QED BY <2>1, <2>2, <3>1, QueryKeeps, Zenon
  <2>3. ASSUME NEW c \in Clients, resolv_cancel(c)
        PROVE  RInv'
    BY <2>1, <2>3, CancelKeeps, Zenon
  <2>4. ASSUME NEW c \in Clients, CancelUnsubmitted(c)
        PROVE  RInv'
    BY <2>1, <2>4, UnsubmittedKeeps
  <2>5. CASE resolv_timeout_cb
    BY <2>1, <2>5, TimeoutCbKeeps
  <2>6. CASE TimeoutsStep
    <3>1. running \in {"io", "timeouts"} /\ UNCHANGED <<utm, running, stepsBack>> /\ qactive # <<>>
      BY <2>6, Zenon DEF TimeoutsStep, Due
    <3> QED BY <2>1, <2>6, <3>1, TimeoutsStepStep, AskedKeeps, EndedKeeps, Zenon
  <2>7. CASE TimeoutsDone
    BY <2>1, <2>7, TimeoutsDoneKeeps
  <2>8. CASE resolv_sock_cb
    BY <2>1, <2>8, SockCbKeeps
  <2>9. CASE IoDone
    BY <2>1, <2>9, IoDoneKeeps
  <2>10. ASSUME NEW q \in Range(qactive), NEW s \in Servers, IoReply(q, s)
         PROVE  RInv'
    <3>1. running = "io" /\ UNCHANGED <<utm, running, stepsBack>>
      BY <2>10, Zenon DEF IoReply
    <3>2. qactive # <<>>
      BY DEF Range
    <3> QED BY <2>1, <2>10, <3>1, <3>2, IoReplyStep, AskedKeeps, EndedKeeps, Zenon
  <2>11. CASE Tick
    BY <2>1, <2>11, TickKeeps
  <2>12. CASE StepBack
    BY <2>1, <2>12, StepBackKeeps
  <2>13. CASE resolv_shutdown
    BY <2>1, <2>13, ShutdownKeeps
  <2> QED
    BY <2>1, <2>2, <2>3, <2>4, <2>5, <2>6, <2>7, <2>8, <2>9, <2>10, <2>11, <2>12, <2>13, ZenonT(30) DEF Step
<1> QED BY <1>1, <1>2

\* The invariant holds in every state the resolver reaches.
THEOREM RInvHolds == Spec => []RInv
BY InitHolds, StepKeeps, PTL DEF Spec

\* The slots of resolv.c are the queries libudns holds, which are in the order of their
\* deadlines, and a client is given an IPv4 address if the A query brought one.
THEOREM LookupsSoundHolds == Spec => []LookupsSound
<1>1. RInv => LookupsSound
  BY DEF RInv, LookupsSound
<1> QED BY <1>1, RInvHolds, PTL

\* Unless the clock is set back, libudns never holds a query without a timer that ends
\* by the first deadline.
THEOREM TimerArmedForwardHolds == Spec => []TimerArmedForward
<1>1. RInv => TimerArmedForward
  <2> SUFFICES ASSUME RInv, stepsBack = 0, running = "loop", qactive # <<>>
               PROVE  utm.timer # Never /\ (utm.timer <= 0 \/ utm.timer <= Head(qactive).deadline)
    BY Zenon DEF TimerArmedForward, TimerArmed
  <2>1. TypeOK /\ TimerInv
    BY DEF RInv
  <2>2. CASE AtOnce
    BY <2>1, <2>2, Bounds DEF AtOnce
  <2>3. CASE AtDeadline
    <3>1. utm.exp = Head(qactive).deadline /\ utm.timer = utm.exp /\ utm.exp >= -dnsc.late
      BY <2>1, <2>3, Zenon DEF TimerInv, AtDeadline
    <3>2. utm.exp \in Int /\ ~(Never >= -dnsc.late)
      BY <2>1, Bounds
    <3> QED BY <3>1, <3>2
  <2> QED BY <2>1, <2>2, <2>3, Zenon DEF TimerInv, NoTimer
<1> QED BY <1>1, RInvHolds, PTL

\* Every variable keeps its type.
THEOREM TypesHold == Spec => []TypeOK
<1>1. RInv => TypeOK
  BY DEF RInv
<1> QED BY <1>1, RInvHolds, PTL

\* resolv.c does what NameLookup says: a lookup is answered at most once, and never
\* after it was cancelled.
THEOREM LookupSpecHolds == Spec => LookupSpec
<1>1. Init => Lookup!Init
  BY Zenon DEF Init, Lookup!Init
<1>2. RInv /\ [Next]_vars => [Lookup!Next]_client
  <2> SUFFICES ASSUME RInv, Next
               PROVE  Lookup!Next \/ client' = client
    BY DEF vars
  <2>1. dnsc' = dnsc /\ Step /\ client \in [Clients -> ClientStates]
    BY Zenon DEF Next, RInv, TypeOK
  <2>2. ASSUME NEW c \in dnsc.clients, NEW submitted \in SUBSET Families, resolv_query(c, submitted)
        PROVE  Lookup!Next
    <3>1. c \in Clients
      BY ContextType, Zenon DEF RInv
    <3>2. client[c] = "idle" /\ client' = [client EXCEPT ![c] = "waiting"]
      BY <2>2, Zenon DEF resolv_query
    <3> QED BY <3>1, <3>2, Zenon DEF Lookup!Next, Lookup!Becomes
  <2>3. ASSUME NEW c \in Clients, resolv_cancel(c) \/ CancelUnsubmitted(c)
        PROVE  Lookup!Next
    <3>1. client[c] = "waiting" /\ client' = [client EXCEPT ![c] = "cancelled"]
      BY <2>3, Zenon DEF resolv_cancel, CancelUnsubmitted
    <3> QED BY <3>1, Zenon DEF Lookup!Next, Lookup!Becomes
  <2>4. ASSUME Asked \/ Ended, running # "down"
        PROVE  Lookup!Next \/ client' = client
    <3>1. CASE Asked
      BY <3>1, Zenon DEF Asked
    <3>2. CASE Ended
      <4>1. PICK q \in Queries, n \in 0..1 : q.id \in Ids(qactive) /\ dns_end_query(q, n)
        BY <3>2, Zenon DEF Ended
      <4>2. PICK c \in Clients, responses \in Seq(Families) :
                /\ client[c] = "waiting"
                /\ client' = [client EXCEPT ![c] = choose_ipv4_first(responses)] \/ client' = client
        BY <2>4, <4>1, EndEffect, ZenonT(30)
      <4>3. choose_ipv4_first(responses) \in Answers
        BY Chosen, Zenon
      <4> QED BY <4>2, <4>3, Zenon DEF Lookup!Next, Lookup!Becomes
    <3> QED BY <2>4, <3>1, <3>2
  <2>5. CASE TimeoutsStep
    <3>1. running # "down"
      BY <2>5 DEF TimeoutsStep
    <3> QED BY <2>4, <2>5, <3>1, TimeoutsStepStep
  <2>6. ASSUME NEW q \in Range(qactive), NEW s \in Servers, IoReply(q, s)
        PROVE  Lookup!Next \/ client' = client
    <3>1. running = "io"
      BY <2>6, Zenon DEF IoReply
    <3> QED BY <2>4, <2>6, <3>1, IoReplyStep, Zenon
  <2>7. CASE \/ resolv_timeout_cb \/ TimeoutsDone \/ resolv_sock_cb \/ IoDone
             \/ Tick \/ StepBack \/ resolv_shutdown
    BY <2>7, Zenon DEF resolv_timeout_cb, TimeoutsDone, resolv_sock_cb, IoDone, Tick, StepBack, resolv_shutdown
  <2> QED BY <2>1, <2>2, <2>3, <2>5, <2>6, <2>7, Zenon DEF Step
<1> QED BY <1>1, <1>2, RInvHolds, PTL DEF Spec, LookupSpec, Lookup!Spec
=============================================================================
