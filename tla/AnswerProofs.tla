---------------------------- MODULE AnswerProofs ----------------------------
(***************************************************************************)
(* Proofs about the answers of a slave: which answers an ASDU gets, the    *)
(* queues of the CS 101 slave in which they wait (SlaveRequests), the      *)
(* files it sends (FileServer) and the two queues of the CS 104 slave with *)
(* entries of different sizes, its answers (HighPrioQueue) and its events  *)
(* (MessageRing).                                                          *)
(***************************************************************************)
EXTENDS SlaveRequests, FileServer, HighPrioQueue, MessageRing, FiniteSetTheorems,
        SequenceTheorems, WellFoundedInduction, TLAPS

(***************************************************************************)
(* SlaveRequests: the answers to an ASDU                                   *)
(***************************************************************************)
\* What the switch of handleASDU may leave: an ASDU with an unknown cause has that answer,
\* one the slave takes an answer of its own, and all others none.
Switched(c, a) ==
  /\ c \in [sent : {<<>>, <<"UNKNOWN_COT">>, <<"ACT_CON">>, <<"ACT_CON-">>},
            taken : {"none", "slave", "handler"}, ends : BOOLEAN]
  /\ ~Legal(a) => c.sent = <<"UNKNOWN_COT">> /\ c.taken # "handler" /\ ~c.ends
  /\ Legal(a) => (c.sent # <<>> <=> c.taken = "slave")
  /\ c.ends => c.taken = "none"

\* Every case of the CS 104 slave's dispatch gives a result of that form.
LEMMA Switched104 ==
  ASSUME NEW a \in Asdus
  PROVE  Switched(Switch104(a), a)
<1> USE DEF Switched, Switch104, Case, Invalid, responseCOTUnknown
<1>1. CASE a.type \in {"C_IC", "C_CI", "C_RD", "C_RP", "C_CD"}
  BY <1>1 DEF InterrogationCommand104, ReadCommand104, ResetAndDelay104, Offered
<1>2. CASE a.type = "C_CS"
  BY <1>2 DEF ClockSync104
<1>3. CASE a.type \in {"C_TS", "C_TS_TA"}
  BY <1>3 DEF MirrorTestCommand
<1>4. CASE a.type = "other"
  BY <1>4 DEF Legal, LegalCauses, Asdus
<1> QED
  BY <1>1, <1>2, <1>3, <1>4 DEF Asdus, Types

\* The same of the CS 101 slave's dispatch.
LEMMA Switched101 ==
  ASSUME NEW a \in Asdus, stack = "cs101"
  PROVE  Switched(Switch101(a), a)
<1> USE DEF Switched, Switch101, Case, Invalid, responseCOTUnknown, Guarded101, Offered
<1>1. CASE a.type \in {"C_IC", "C_CI"}
  BY <1>1 DEF InterrogationCommand101
<1>2. CASE a.type \in {"C_RD", "C_RP", "C_CD"}
  BY <1>2 DEF ReadCommand101, ResetAndDelay101
<1>3. CASE a.type = "C_CS"
  BY <1>3 DEF ClockSync101
<1>4. CASE a.type = "C_TS"
  BY <1>4 DEF MirrorTestCommand
<1>5. CASE a.type \in {"C_TS_TA", "other"}
  BY <1>5 DEF Legal, LegalCauses, Asdus
<1> QED
  BY <1>1, <1>2, <1>3, <1>4, <1>5 DEF Asdus, Types

\* What AnsweredOnce says of the result of handleASDU for an ASDU.
Answered(c, a) ==
  /\ Len(c.sent) \in 0..2
  /\ Len(c.sent) = 0 => c.ends \/ c.taken \in {"plugin", "handler", "asduHandler"}
  /\ Legal(a) => Len(c.sent) + (IF c.taken \in {"none", "slave"} THEN 0 ELSE 1) <= 1
  /\ ~Legal(a) => c.taken = "plugin" \/ c.sent[1] = "UNKNOWN_COT"

\* What follows the switch, the answer to an unknown type or cause, completes such a result.
LEMMA Finished ==
  ASSUME NEW a \in Asdus, NEW c, Switched(c, a)
  PROVE  Answered(Finish(c, a), a)
<1> DEFINE f == Finish(c, a)
<1> SUFFICES Answered(f, a)
  OBVIOUS
<1> HIDE DEF f
<1>0. /\ Len(<<>>) = 0 /\ \A x : Len(<<x>>) = 1 /\ <<x>>[1] = x
      /\ \A x, y : Len(<<x, y>>) = 2 /\ <<x, y>>[1] = x
  OBVIOUS
<1>1. CASE c.ends \/ c.taken # "none"
  <2>1. f = c
    BY <1>1 DEF f, Finish
  <2>2. \/ c.sent = <<>> /\ Legal(a) /\ c.taken # "slave"
        \/ c.sent = <<"UNKNOWN_COT">> /\ ~Legal(a)
        \/ Legal(a) /\ c.taken = "slave" /\ \E x : c.sent = <<x>>
    BY DEF Switched
  <2>3. c.taken \in {"none", "slave", "handler"}
    BY DEF Switched
  <2>4. CASE c.sent = <<>> /\ Legal(a) /\ c.taken # "slave"
    BY <1>0, <1>1, <2>1, <2>3, <2>4 DEF Answered
  <2>5. CASE c.sent = <<"UNKNOWN_COT">> /\ ~Legal(a)
    BY <1>0, <2>1, <2>5 DEF Answered
  <2>6. CASE Legal(a) /\ c.taken = "slave" /\ \E x : c.sent = <<x>>
    BY <1>0, <2>1, <2>6 DEF Answered
  <2> QED
    BY <2>2, <2>4, <2>5, <2>6
<1>2. CASE ~c.ends /\ c.taken = "none" /\ "asdu" \in installed /\ a.taker = "asduHandler"
  <2>1. /\ f.taken = "asduHandler" /\ f.sent = c.sent
        /\ c.sent = IF Legal(a) THEN <<>> ELSE <<"UNKNOWN_COT">>
    BY <1>2 DEF f, Switched, Finish
  <2> QED
    BY <1>0, <2>1 DEF Answered
<1>3. CASE ~c.ends /\ c.taken = "none" /\ ~("asdu" \in installed /\ a.taker = "asduHandler")
  <2>1. c.sent = IF Legal(a) THEN <<>> ELSE <<"UNKNOWN_COT">>
    BY <1>3 DEF Switched
  <2>2. f.sent = Append(c.sent, "UNKNOWN_TYPE_ID") /\ f.taken = "none"
    BY <1>3 DEF f, Switched, Finish
  <2>3. f.sent = IF Legal(a) THEN <<"UNKNOWN_TYPE_ID">>
                             ELSE <<"UNKNOWN_COT", "UNKNOWN_TYPE_ID">>
    BY <2>1, <2>2
  <2> QED
    BY <1>0, <2>2, <2>3 DEF Answered
<1> QED
  BY <1>1, <1>2, <1>3

\* Every ASDU a plugin, a handler or the slave meets ends answered.
LEMMA AllAnswered ==
  ASSUME NEW a \in Asdus
  PROVE  Answered(handleASDU104(a), a) /\ (stack = "cs101" => Answered(handleASDU101(a), a))
<1>1. ASSUME PluginTakes(a)
      PROVE  Answered(Case(<<>>, "plugin"), a)
  BY DEF Answered, Case
<1> QED
  BY <1>1, Switched104, Switched101, Finished DEF handleASDU104, handleASDU101

\* For any size of the queues and any set of handlers, handleASDU leaves no ASDU without an
\* answer or a taker, and answers none twice but the one with an unknown cause.
THEOREM AnswerCorrect == RequestsSpec => []AnsweredOnce
<1>1. RequestsInit => AnsweredOnce
  BY DEF RequestsInit, NoAsdu, AnsweredOnce
<1>2. ASSUME AnsweredOnce, [RequestsNext]_requestVars
      PROVE  AnsweredOnce'
  <2>1. ASSUME NEW a \in Asdus, NEW c, Answered(c, a), Became(c, a)
        PROVE  AnsweredOnce'
    BY <2>1 DEF Became, AnsweredOnce, Answered
  <2>2. ASSUME NEW a \in Asdus, Handle104(a) \/ HandleReceivedData(a)
        PROVE  AnsweredOnce'
    BY <2>1, <2>2, AllAnswered DEF Handle104, HandleReceivedData
  <2>3. CASE AsduDone
    BY <2>3 DEF AsduDone, NoAsdu, AnsweredOnce
  <2>4. ASSUME UNCHANGED outcome
        PROVE  AnsweredOnce'
    BY <1>2, <2>4 DEF AnsweredOnce
  <2> QED
    BY <1>2, <2>2, <2>3, <2>4 DEF RequestsNext, requestVars, EnqueueUserData, FlushQueues,
       GetClass1Data, GetClass2Data, GetUserData, Gather
<1> QED
  BY <1>1, <1>2, PTL DEF RequestsSpec

(***************************************************************************)
(* SlaveRequests: the rings of the CS 101 slave                            *)
(***************************************************************************)
\* Where the i-th oldest entry of a ring of size n is, whose oldest is at f.
Index(f, i, n) == IF f + i - 1 < n THEN f + i - 1 ELSE f + i - 1 - n

\* The modulus of the C code gives the index: it wraps once at most.
LEMMA IndexIs ==
  ASSUME NEW n \in Nat \ {0}, NEW f \in 0..(n - 1), NEW i \in 1..(n + 1)
  PROVE  (f + i - 1) % n = Index(f, i, n)
<1> DEFINE j == f + i - 1
<1>1. j \in Nat /\ j < 2 * n
  OBVIOUS
<1> HIDE DEF j
<1>2. j % n = IF j < n THEN j ELSE j - n
  BY <1>1
<1> QED
  BY <1>2 DEF Index, j

\* Behind k entries from f to l the next index is free.
LEMMA NextIsFree ==
  ASSUME NEW n \in Nat \ {0}, NEW f \in 0..(n - 1), NEW l \in 0..(n - 1), NEW k \in 0..n, k < n,
         k > 0 => l = Index(f, k, n),
         NEW next, next = IF k = 0 \/ l + 1 = n THEN 0 ELSE l + 1,
         NEW g, g = IF k = 0 THEN 0 ELSE f
  PROVE  /\ next \in 0..(n - 1) /\ g \in 0..(n - 1) /\ next = Index(g, k + 1, n)
         /\ \A i \in 1..k : Index(g, i, n) = Index(f, i, n)
                            /\ Index(f, i, n) \in 0..(n - 1) \ {next}
<1>1. CASE k = 0
  BY <1>1 DEF Index
<1>2. CASE k > 0
  BY <1>2 DEF Index
<1> QED
  BY <1>1, <1>2

\* In a full ring it is the index of the oldest entry; when that moves on, all do.
LEMMA NextIsOldest ==
  ASSUME NEW n \in Nat \ {0}, NEW f \in 0..(n - 1), NEW l \in 0..(n - 1), NEW k \in 0..n, k = n,
         k > 0 => l = Index(f, k, n)
  PROVE  f = IF l + 1 = n THEN 0 ELSE l + 1
BY DEF Index

\* Where the entries are once the oldest gave its place.
LEMMA OldestMovesOn ==
  ASSUME NEW n \in Nat \ {0}, NEW f \in 0..(n - 1)
  PROVE  /\ Index(f, 2, n) \in 0..(n - 1) /\ f = Index(Index(f, 2, n), n, n)
         /\ Index(f, 2, n) = IF f + 1 = n THEN 0 ELSE f + 1
         /\ \A i \in 1..n : i < n => /\ Index(Index(f, 2, n), i, n) = Index(f, i + 1, n)
                                     /\ Index(f, i + 1, n) \in 0..(n - 1) \ {f}
BY DEF Index

\* The oldest but one follows the oldest.
LEMMA SecondFollows ==
  ASSUME NEW n \in Nat \ {0}, NEW f \in 0..(n - 1), NEW g, g = (f + 1) % n
  PROVE  /\ g \in 0..(n - 1)
         /\ \A i \in 1..n : i < n => Index(g, i, n) = Index(f, i + 1, n)
<1>1. (f + 2 - 1) % n = Index(f, 2, n)
  BY IndexIs
<1>2. g = Index(f, 2, n)
  BY <1>1
<1> QED
  BY <1>2 DEF Index

\* A ring of size n holds list, oldest entry first: k entries from f to l.
Ring(n, elements, f, l, k, list) ==
  /\ Len(list) = k
  /\ k > 0 => l = Index(f, k, n)
  /\ \A i \in 1..k : list[i] = elements[Index(f, i, n)]

\* The place behind the entry at l, and the first entry once one was put there.
Behind(l, k, n) == IF k = 0 \/ l + 1 = n THEN 0 ELSE l + 1
FirstOf(f, k) == IF k = 0 THEN 0 ELSE f

\* An entry goes behind the newest one.
LEMMA PutBehind ==
  ASSUME NEW n \in Nat \ {0}, NEW elements \in [0..(n - 1) -> Nat], NEW f \in 0..(n - 1),
         NEW l \in 0..(n - 1), NEW k \in 0..n, k < n, NEW list \in Seq(Nat), NEW e \in Nat,
         Ring(n, elements, f, l, k, list)
  PROVE  /\ Behind(l, k, n) \in 0..(n - 1) /\ FirstOf(f, k) \in 0..(n - 1)
         /\ Ring(n, [elements EXCEPT ![Behind(l, k, n)] = e], FirstOf(f, k), Behind(l, k, n),
                 k + 1, Append(list, e))
<1> DEFINE next == Behind(l, k, n)
           g    == FirstOf(f, k)
<1>1. /\ next \in 0..(n - 1) /\ g \in 0..(n - 1) /\ next = Index(g, k + 1, n)
      /\ \A i \in 1..k : Index(g, i, n) = Index(f, i, n)
                         /\ Index(f, i, n) \in 0..(n - 1) \ {next}
  <2>1. k > 0 => l = Index(f, k, n)
    BY DEF Ring
  <2> QED
    BY <2>1, NextIsFree, SMTT(30) DEF Behind, FirstOf
<1> HIDE DEF next, g
<1>2. /\ Len(Append(list, e)) = k + 1 /\ Append(list, e)[k + 1] = e
      /\ \A i \in 1..k : Append(list, e)[i] = list[i]
  BY DEF Ring
<1>3. ASSUME NEW i \in 1..(k + 1)
      PROVE  Append(list, e)[i] = [elements EXCEPT ![next] = e][Index(g, i, n)]
  <2>1. CASE i = k + 1
    BY <1>1, <1>2, <2>1
  <2>2. CASE i \in 1..k
    BY <1>1, <1>2, <2>2 DEF Ring
  <2>3. i = k + 1 \/ i \in 1..k
    OBVIOUS
  <2> QED
    BY <2>1, <2>2, <2>3
<1>4. Ring(n, [elements EXCEPT ![next] = e], g, next, k + 1, Append(list, e))
  BY <1>1, <1>2, <1>3 DEF Ring
<1> QED
  BY <1>1, <1>4 DEF next, g

\* The list without its first entry.
LEMMA TailIs ==
  ASSUME NEW s \in Seq(Nat), Len(s) > 0
  PROVE  /\ Tail(s) \in Seq(Nat) /\ Len(Tail(s)) = Len(s) - 1
         /\ \A i \in 1..(Len(s) - 1) : Tail(s)[i] = s[i + 1]
OBVIOUS

\* In a full ring it takes the place of the oldest.
LEMMA PutOver ==
  ASSUME NEW n \in Nat \ {0}, NEW elements \in [0..(n - 1) -> Nat], NEW f \in 0..(n - 1),
         NEW l, NEW k \in 0..n, k = n, NEW list \in Seq(Nat), NEW e \in Nat,
         Ring(n, elements, f, l, k, list)
  PROVE  Ring(n, [elements EXCEPT ![f] = e], Index(f, 2, n), f, k, Tail(Append(list, e)))
<1> DEFINE g == Index(f, 2, n)
<1>1. /\ g \in 0..(n - 1) /\ f = Index(g, n, n)
      /\ \A i \in 1..n : i < n => /\ Index(g, i, n) = Index(f, i + 1, n)
                                  /\ Index(f, i + 1, n) \in 0..(n - 1) \ {f}
  BY OldestMovesOn
<1> HIDE DEF g
<1>2. /\ Append(list, e) \in Seq(Nat)
      /\ Len(Append(list, e)) = n + 1 /\ Append(list, e)[n + 1] = e
      /\ \A i \in 1..n : Append(list, e)[i] = list[i]
  BY SMTT(30) DEF Ring
<1>3. /\ Len(Tail(Append(list, e))) = n
      /\ \A i \in 1..n : Tail(Append(list, e))[i] = Append(list, e)[i + 1]
  <2>1. Len(Append(list, e)) > 0 /\ Len(Append(list, e)) - 1 = n
    BY <1>2
  <2> QED
    BY <1>2, <2>1, TailIs
<1>4. ASSUME NEW i \in 1..n
      PROVE  Tail(Append(list, e))[i] = [elements EXCEPT ![f] = e][Index(g, i, n)]
  <2>1. CASE i = n
    BY <1>1, <1>2, <1>3, <2>1
  <2>2. CASE i < n
    <3>1. i + 1 \in 1..n
      BY <2>2
    <3>2. Tail(Append(list, e))[i] = list[i + 1]
      BY <1>2, <1>3, <3>1
    <3>3. list[i + 1] = elements[Index(f, i + 1, n)]
      BY <3>1 DEF Ring
    <3> QED
      BY <1>1, <2>2, <3>2, <3>3
  <2>3. i = n \/ i < n
    OBVIOUS
  <2> QED
    BY <2>1, <2>2, <2>3
<1>5. f = Index(g, k, n) /\ Len(Tail(Append(list, e))) = k
  BY <1>1, <1>3
<1>6. \A i \in 1..k : Tail(Append(list, e))[i] = [elements EXCEPT ![f] = e][Index(g, i, n)]
  BY <1>4
<1> QED
  BY <1>5, <1>6 DEF Ring, g

\* The oldest entry is taken.
LEMMA TakeOldest ==
  ASSUME NEW n \in Nat \ {0}, NEW elements, NEW f \in 0..(n - 1), NEW l, NEW k \in 1..n,
         NEW list \in Seq(Nat), Ring(n, elements, f, l, k, list), NEW g, g = (f + 1) % n
  PROVE  g \in 0..(n - 1) /\ Ring(n, elements, g, l, k - 1, Tail(list))
<1>1. /\ g \in 0..(n - 1)
      /\ \A i \in 1..n : i < n => Index(g, i, n) = Index(f, i + 1, n)
  BY SecondFollows
<1>2. Len(Tail(list)) = k - 1 /\ \A i \in 1..(k - 1) : Tail(list)[i] = list[i + 1]
  BY DEF Ring
<1>3. k - 1 > 0 => l = Index(g, k - 1, n)
  BY <1>1 DEF Ring
<1>4. ASSUME NEW i \in 1..(k - 1)
      PROVE  Tail(list)[i] = elements[Index(g, i, n)]
  <2>1. i \in 1..n /\ i < n /\ i + 1 \in 1..k
    OBVIOUS
  <2>2. list[i + 1] = elements[Index(f, i + 1, n)]
    BY <2>1 DEF Ring
  <2> QED
    BY <1>1, <1>2, <2>1, <2>2
<1> QED
  BY <1>1, <1>2, <1>3, <1>4 DEF Ring

\* The queue q of class c holds list.
Holds(q, c, list) ==
  /\ q \in [elements : [0..(Capacity(c) - 1) -> Nat], first : 0..(Capacity(c) - 1),
            last : 0..(Capacity(c) - 1), count : 0..Capacity(c)]
  /\ list \in Seq(Nat)
  /\ Ring(Capacity(c), q.elements, q.first, q.last, q.count, list)

\* A queue has at least one place.
LEMMA CapacityIsNat == \A c \in 1..2 : Capacity(c) \in Nat \ {0}
BY QueueAssumption DEF Capacity

\* CS101_Queue_enqueue appends an entry, over the oldest one of a full ring.
LEMMA EnqueueHolds ==
  ASSUME NEW c \in 1..2, NEW q, NEW list, Holds(q, c, list), NEW e \in Nat
  PROVE  Holds(CS101_Queue_enqueue(q, c, e), c, Newest(Append(list, e), c))
<1> DEFINE n    == Capacity(c)
           next == NextIndex(q, c)
           p    == CS101_Queue_enqueue(q, c, e)
<1>1. n \in Nat \ {0}
  BY CapacityIsNat
<1>2. /\ q.elements \in [0..(n - 1) -> Nat] /\ q.first \in 0..(n - 1) /\ q.last \in 0..(n - 1)
      /\ q.count \in 0..n /\ list \in Seq(Nat)
      /\ Ring(n, q.elements, q.first, q.last, q.count, list)
  BY DEF Holds
<1>3. /\ next = IF q.count = 0 \/ q.last + 1 = n THEN 0 ELSE q.last + 1
      /\ After101(next, c) = IF next + 1 = n THEN 0 ELSE next + 1
  BY DEF NextIndex, After101
<1>4. p = [elements |-> [q.elements EXCEPT ![next] = e], last |-> next,
           first |-> CASE q.count = 0 -> 0 [] q.count = n -> After101(next, c) [] OTHER -> q.first,
           count |-> IF q.count = n THEN q.count ELSE q.count + 1]
  BY DEF CS101_Queue_enqueue, isFull
<1>5. Append(list, e) \in Seq(Nat) /\ Len(Append(list, e)) = q.count + 1
  BY <1>2 DEF Ring
<1>6. Newest(Append(list, e), c) =
        IF q.count + 1 > n THEN Tail(Append(list, e)) ELSE Append(list, e)
  BY <1>5 DEF Newest
<1> HIDE DEF n, next, p
<1>7. CASE q.count < n
  <2> DEFINE g == IF q.count = 0 THEN 0 ELSE q.first
  <2>1. p = [elements |-> [q.elements EXCEPT ![next] = e], last |-> next, first |-> g,
             count |-> q.count + 1]
    BY <1>1, <1>2, <1>4, <1>7
  <2>2. q.count + 1 \in 0..n /\ Newest(Append(list, e), c) = Append(list, e)
    BY <1>1, <1>2, <1>6, <1>7, SMTT(30)
  <2> HIDE DEF g
  <2>3. /\ next \in 0..(n - 1) /\ g \in 0..(n - 1)
        /\ Ring(n, [q.elements EXCEPT ![next] = e], g, next, q.count + 1, Append(list, e))
    <3>1. /\ q.elements \in [0..(n - 1) -> Nat] /\ q.first \in 0..(n - 1)
          /\ q.last \in 0..(n - 1) /\ q.count \in 0..n /\ q.count < n /\ list \in Seq(Nat)
          /\ Ring(n, q.elements, q.first, q.last, q.count, list)
      BY <1>2, <1>7
    <3>2. next = Behind(q.last, q.count, n) /\ g = FirstOf(q.first, q.count)
      BY <1>3 DEF g, Behind, FirstOf
    <3> QED
      BY <1>1, <3>1, <3>2, PutBehind
  <2> QED
    BY <1>1, <1>2, <1>5, <2>1, <2>2, <2>3 DEF Holds, n, p
<1>8. CASE q.count = n
  <2> DEFINE g == Index(q.first, 2, n)
  <2>1. next = q.first
    <3>1. q.count > 0 => q.last = Index(q.first, q.count, n)
      BY <1>2 DEF Ring
    <3>2. q.first = IF q.last + 1 = n THEN 0 ELSE q.last + 1
      BY <1>1, <1>2, <1>8, <3>1, NextIsOldest
    <3> QED
      BY <1>1, <1>3, <1>8, <3>2
  <2>2. g \in 0..(n - 1) /\ g = IF q.first + 1 = n THEN 0 ELSE q.first + 1
    BY <1>1, <1>2, OldestMovesOn
  <2>3. Ring(n, [q.elements EXCEPT ![q.first] = e], g, q.first, q.count, Tail(Append(list, e)))
    BY <1>1, <1>2, <1>8, PutOver
  <2> HIDE DEF g
  <2>4. p = [elements |-> [q.elements EXCEPT ![q.first] = e], last |-> q.first, first |-> g,
             count |-> q.count]
    BY <1>1, <1>3, <1>4, <1>8, <2>1, <2>2
  <2>5. Newest(Append(list, e), c) = Tail(Append(list, e))
    BY <1>1, <1>6, <1>8
  <2>6. Tail(Append(list, e)) \in Seq(Nat)
    BY <1>1, <1>5, <1>8
  <2>7. p \in [elements : [0..(n - 1) -> Nat], first : 0..(n - 1), last : 0..(n - 1),
               count : 0..n]
    BY <1>1, <1>2, <2>2, <2>4
  <2>8. Ring(n, p.elements, p.first, p.last, p.count, Newest(Append(list, e), c))
    BY <2>3, <2>4, <2>5
  <2> QED
    BY <2>5, <2>6, <2>7, <2>8 DEF Holds, n, p
<1>9. q.count < n \/ q.count = n
  BY <1>1, <1>2
<1> QED
  BY <1>7, <1>8, <1>9

\* CS101_Queue_dequeue takes the oldest entry.
LEMMA DequeueHolds ==
  ASSUME NEW c \in 1..2, NEW q, NEW list, Holds(q, c, list), q.count > 0
  PROVE  Holds(CS101_Queue_dequeue(q, c), c, Tail(list))
<1> DEFINE n == Capacity(c)
           g == (q.first + 1) % n
           p == CS101_Queue_dequeue(q, c)
<1>1. n \in Nat \ {0}
  BY CapacityIsNat
<1>2. /\ q.elements \in [0..(n - 1) -> Nat] /\ q.first \in 0..(n - 1) /\ q.last \in 0..(n - 1)
      /\ q.count \in 0..n /\ list \in Seq(Nat)
      /\ Ring(n, q.elements, q.first, q.last, q.count, list)
  BY DEF Holds
<1>3. q.count \in 1..n /\ q.count - 1 \in 0..n
  BY <1>1, <1>2
<1> HIDE DEF n, g
<1>4. g \in 0..(n - 1) /\ Ring(n, q.elements, g, q.last, q.count - 1, Tail(list))
  BY <1>1, <1>2, <1>3, TakeOldest DEF g
<1>5. Tail(list) \in Seq(Nat)
  BY <1>2, <1>3 DEF Ring
<1>6. /\ p.elements = q.elements /\ p.first = g /\ p.last = q.last /\ p.count = q.count - 1
      /\ p \in [elements : [0..(n - 1) -> Nat], first : 0..(n - 1), last : 0..(n - 1),
                count : 0..n]
  BY <1>3, <1>4 DEF CS101_Queue_dequeue, Holds, n, g
<1> QED
  BY <1>4, <1>5, <1>6 DEF Holds, n

\* CS101_Queue_flush leaves an empty ring.
LEMMA FlushHolds ==
  ASSUME NEW c \in 1..2, NEW q, NEW list, Holds(q, c, list)
  PROVE  Holds(CS101_Queue_flush(q), c, <<>>)
<1> DEFINE n == Capacity(c)
           p == CS101_Queue_flush(q)
<1>1. n \in Nat \ {0}
  BY CapacityIsNat
<1> DEFINE R == [elements : [0..(n - 1) -> Nat], first : 0..(n - 1), last : 0..(n - 1),
                 count : 0..n]
           q1 == [q EXCEPT !.count = 0]
           q2 == [q1 EXCEPT !.first = 0]
<1>2. q \in R
  BY DEF Holds
<1> HIDE DEF n
<1>3. p \in R /\ p.count = 0
  <2>1. 0 \in 0..(n - 1) /\ 0 \in 0..n
    BY <1>1
  <2>2. q1 \in R /\ q1.count = 0
    BY <1>2, <2>1
  <2> HIDE DEF q1
  <2>3. q2 \in R /\ q2.count = 0
    BY <2>1, <2>2
  <2> HIDE DEF q2
  <2>4. [q2 EXCEPT !.last = 0] \in R /\ [q2 EXCEPT !.last = 0].count = 0
    BY <2>1, <2>3
  <2> QED
    BY <2>4 DEF CS101_Queue_flush, q1, q2
<1>4. <<>> \in Seq(Nat) /\ Ring(n, p.elements, p.first, p.last, p.count, <<>>)
  BY <1>3 DEF Ring
<1> QED
  BY <1>3, <1>4 DEF Holds, n

RingInv ==
  /\ queues = [c \in 1..2 |-> queues[c]] /\ waiting101 = [c \in 1..2 |-> waiting101[c]]
  /\ enqueued \in Nat
  /\ \A c \in 1..2 : Holds(queues[c], c, waiting101[c])

\* Empty rings hold empty lists.
LEMMA InitiallyHolds == RequestsInit => RingInv
<1> SUFFICES ASSUME RequestsInit PROVE RingInv
  OBVIOUS
<1>1. ASSUME NEW c \in 1..2
      PROVE  Holds(CS101_Queue_initialize(QueueSizes[c]), c, <<>>)
  <2>1. Capacity(c) \in Nat \ {0} /\ Capacity(c) = QueueSizes[c]
    BY CapacityIsNat DEF Capacity
  <2> QED
    BY <2>1 DEF CS101_Queue_initialize, Holds, Ring
<1> QED
  BY <1>1 DEF RequestsInit, RingInv

\* One or two entries enqueued by the application keep both rings true.
LEMMA EnqueuesHold ==
  ASSUME RingInv, NEW c \in 1..2, NEW n, Enqueue101(c, n)
  PROVE  RingInv'
<1> DEFINE put(q, k)     == CS101_Queue_enqueue(q, c, enqueued + k)
           keep(list, k) == Newest(Append(list, enqueued + k), c)
<1>1. enqueued + 1 \in Nat /\ enqueued + 2 \in Nat /\ enqueued' \in Nat
  BY DEF RingInv, Enqueue101
<1>2. Holds(queues[c], c, waiting101[c])
  BY DEF RingInv
<1>3. Holds(put(queues[c], 1), c, keep(waiting101[c], 1))
  BY <1>1, <1>2, EnqueueHolds
<1>4. Holds(put(put(queues[c], 1), 2), c, keep(keep(waiting101[c], 1), 2))
  BY <1>1, <1>3, EnqueueHolds
<1>5. ASSUME NEW q, NEW list, Holds(q, c, list), queues' = [queues EXCEPT ![c] = q],
             waiting101' = [waiting101 EXCEPT ![c] = list]
      PROVE  RingInv'
  BY <1>1, <1>5 DEF RingInv
<1>6. CASE n = 0
  <2>1. /\ queues' = [queues EXCEPT ![c] = queues[c]]
        /\ waiting101' = [waiting101 EXCEPT ![c] = waiting101[c]]
    BY <1>6 DEF Enqueue101
  <2> QED
    BY <1>2, <1>5, <2>1
<1>7. CASE n = 1
  <2>1. /\ queues' = [queues EXCEPT ![c] = put(queues[c], 1)]
        /\ waiting101' = [waiting101 EXCEPT ![c] = keep(waiting101[c], 1)]
    BY <1>7 DEF Enqueue101
  <2> QED
    BY <1>3, <1>5, <2>1
<1>8. CASE n = 2
  <2>1. /\ queues' = [queues EXCEPT ![c] = put(put(queues[c], 1), 2)]
        /\ waiting101' = [waiting101 EXCEPT ![c] = keep(keep(waiting101[c], 1), 2)]
    BY <1>8 DEF Enqueue101
  <2> QED
    BY <1>4, <1>5, <2>1
<1>9. n \in {0, 1, 2}
  BY DEF Enqueue101
<1> QED
  BY <1>6, <1>7, <1>8, <1>9

\* For any size of the two queues, the ring of each holds the newest entries that were not
\* gathered, oldest first, over any sequence of enqueues, gathers and flushes.
THEOREM RingsCorrect == RequestsSpec => []QueueKeepsNewest
<1>1. ASSUME RingInv, [RequestsNext]_requestVars
      PROVE  RingInv'
  <2>1. ASSUME NEW a \in Asdus, HandleReceivedData(a)
        PROVE  RingInv'
    BY <1>1, <2>1, EnqueuesHold DEF HandleReceivedData
  <2>2. ASSUME NEW c \in 1..2, EnqueueUserData(c)
        PROVE  RingInv'
    BY <1>1, <2>2, EnqueuesHold DEF EnqueueUserData
  <2>3. CASE FlushQueues
    BY <1>1, <2>3, FlushHolds DEF FlushQueues, RingInv
  <2>4. ASSUME NEW c \in 1..2, Gather(c)
        PROVE  RingInv'
    <3>1. Holds(CS101_Queue_dequeue(queues[c], c), c, Tail(waiting101[c]))
      BY <1>1, <2>4, DequeueHolds DEF Gather, RingInv
    <3> QED
      BY <1>1, <2>4, <3>1 DEF Gather, RingInv
  <2>5. ASSUME UNCHANGED <<queues, waiting101, enqueued>>
        PROVE  RingInv'
    BY <1>1, <2>5 DEF RingInv
  <2> QED
    BY <1>1, <2>1, <2>2, <2>3, <2>4, <2>5 DEF RequestsNext, requestVars, Handle104, AsduDone,
       GetClass1Data, GetClass2Data, GetUserData
<1>2. RingInv => QueueKeepsNewest
  <2> SUFFICES ASSUME RingInv, NEW c \in 1..2
               PROVE  [i \in 1..queues[c].count |->
                         queues[c].elements[(queues[c].first + i - 1) % Capacity(c)]]
                      = waiting101[c]
    BY DEF QueueKeepsNewest
  <2> DEFINE n == Capacity(c)
             q == queues[c]
  <2>1. n \in Nat \ {0}
    BY CapacityIsNat
  <2>2. /\ q.first \in 0..(n - 1) /\ q.count \in 0..n /\ waiting101[c] \in Seq(Nat)
        /\ Ring(n, q.elements, q.first, q.last, q.count, waiting101[c])
    BY DEF RingInv, Holds
  <2> HIDE DEF n, q
  <2>3. \A i \in 1..q.count : waiting101[c][i] = q.elements[(q.first + i - 1) % n]
    <3> TAKE i \in 1..q.count
    <3>1. i \in 1..(n + 1)
      BY <2>1, <2>2
    <3>2. (q.first + i - 1) % n = Index(q.first, i, n)
      BY <2>1, <2>2, <3>1, IndexIs
    <3> QED
      BY <2>2, <3>2 DEF Ring
  <2>4. waiting101[c] = [i \in 1..q.count |-> waiting101[c][i]]
    BY <2>2 DEF Ring
  <2>5. [i \in 1..q.count |-> q.elements[(q.first + i - 1) % n]] = waiting101[c]
    BY <2>3, <2>4
  <2> QED
    BY <2>5 DEF n, q
<1> QED
  BY <1>1, <1>2, InitiallyHolds, PTL DEF RequestsSpec

(***************************************************************************)
(* FileServer: the checksums                                               *)
(***************************************************************************)
\* The section that is sent, or waits for its acknowledgement, is one of the file.
CursorInFile ==
  fileState \in {"transmit", "waitSectionAck"} =>
    /\ currentSection \in DOMAIN FileContent /\ currentSize = Len(FileContent[currentSection])
    /\ fileState = "transmit" => currentOffset \in 0 .. currentSize
\* What sectionChecksum holds, but for what a transmission that was given up left in it.
SectionCounted ==
  /\ "section" \notin disturbed =>
       sectionChecksum = IF fileState = "transmit" THEN sectionSum ELSE 0
  /\ fileState = "transmit" /\ currentOffset = 0 => sectionSum = 0
\* fileChecksum counts from the call of the file on.
FileCounted ==
  fileState \in {"waitSectionCall", "transmit", "waitSectionAck"} /\ "file" \notin disturbed =>
    fileChecksum = fileSum
FileInv == CursorInFile /\ SectionCounted /\ FileCounted /\ ChecksumsTrue

\* The file has sections and each of them octets.
LEMMA SectionsAreSequences ==
  /\ DOMAIN FileContent = 1 .. Len(FileContent) /\ Len(FileContent) \in Nat \ {0}
  /\ \A k \in DOMAIN FileContent :
       FileContent[k] \in Seq(0 .. 255) /\ Len(FileContent[k]) \in Nat \ {0}
<1>1. FileContent \in Seq(Seq(0 .. 255)) /\ Len(FileContent) > 0
      /\ \A k \in DOMAIN FileContent : Len(FileContent[k]) > 0
  BY FileAssumption
<1>2. ASSUME NEW k \in DOMAIN FileContent
      PROVE  FileContent[k] \in Seq(0 .. 255)
  BY <1>1
<1>3. ASSUME NEW k \in DOMAIN FileContent
      PROVE  Len(FileContent[k]) \in Nat \ {0}
  <2>1. Len(FileContent[k]) > 0
    BY <1>1
  <2> QED
    BY <1>2, <2>1
<1> QED
  BY <1>1, <1>2, <1>3

\* A segment is a piece of the section that was not sent yet, and not an empty one.
LEMMA SegmentMoves ==
  ASSUME CursorInFile, fileState = "transmit", currentOffset < currentSize
  PROVE  /\ currentOffset + Len(Segment) \in 0 .. currentSize
         /\ currentOffset + Len(Segment) # 0
<1> DEFINE q == FileContent[currentSection]
<1>1. /\ q \in Seq(0 .. 255) /\ Len(q) \in Nat /\ currentSize = Len(q)
      /\ currentOffset \in 0 .. currentSize /\ SegmentSize \in Nat \ {0}
  BY SectionsAreSequences, FileAssumption DEF CursorInFile
<1> HIDE DEF q
<1> DEFINE last == IF currentSize - currentOffset > SegmentSize THEN currentOffset + SegmentSize
                   ELSE currentSize
<1>2. last \in Nat /\ last \in currentOffset + 1 .. Len(q)
  BY <1>1
<1>3. Segment = SubSeq(q, currentOffset + 1, last)
  BY DEF Segment, q
<1> HIDE DEF last
<1>4. Len(SubSeq(q, currentOffset + 1, last)) = last - currentOffset
  BY <1>1, <1>2
<1> QED
  BY <1>1, <1>2, <1>3, <1>4

\* A step that gives up what is transmitted, or does not transmit.
LEMMA GivenUpStep ==
  ASSUME FileInv, GivenUp, fileState' # "transmit", UNCHANGED <<sectionChecksum, sectionSum>>
  PROVE  SectionCounted'
<1>1. SectionCounted /\ CursorInFile
  BY DEF FileInv
<1>2. fileState = "transmit" => currentOffset \in Nat
  BY <1>1, SectionsAreSequences DEF CursorInFile
<1> QED
  BY <1>1, <1>2 DEF GivenUp, SectionCounted

\* A step after which no section and no part of the file is under way.
Aside == /\ fileState' \notin {"waitSectionCall", "transmit", "waitSectionAck"}
         /\ reply'.kind \notin {"lastSegment", "lastSection"}

\* Such a step keeps the invariant.
LEMMA AsideStep ==
  ASSUME FileInv, GivenUp, Aside, UNCHANGED <<sectionChecksum, sectionSum>>
  PROVE  FileInv'
<1>1. SectionCounted'
  BY GivenUpStep DEF Aside
<1> QED
  BY <1>1 DEF FileInv, Aside, CursorInFile, FileCounted, ChecksumsTrue

\* A step that keeps the state and the checksums and says nothing of them.
LEMMA KeptStep ==
  ASSUME FileInv, Current = fileState' \/ fileState = fileState',
         reply'.kind \notin {"lastSegment", "lastSection"},
         UNCHANGED <<cursor, checksums>>,
         GivenUp \/ (fileState' = fileState /\ disturbed' = disturbed)
  PROVE  FileInv'
<1>1. CASE fileState' = fileState
  <2>1. disturbed' = disturbed
    BY <1>1 DEF GivenUp
  <2> QED
    BY <1>1, <2>1 DEF FileInv, CursorInFile, SectionCounted, FileCounted, ChecksumsTrue, cursor,
                      checksums
<1>2. CASE fileState' # fileState
  <2>1. fileState' = "idle" /\ GivenUp
    BY <1>2 DEF Current
  <2> QED
    BY <2>1, AsideStep DEF Aside, checksums
<1> QED
  BY <1>1, <1>2

\* Every step of the file server keeps the invariant.
LEMMA FileInvStep == FileInv /\ [FileNext]_fileVars => FileInv'
<1> SUFFICES ASSUME FileInv, [FileNext]_fileVars  PROVE FileInv'
  OBVIOUS
<1>1. CursorInFile /\ SectionCounted /\ FileCounted /\ ChecksumsTrue
  BY DEF FileInv
<1>2. CASE FileTimePasses
  BY <1>2, KeptStep DEF FileTimePasses, NoReply
<1>3. ASSUME NEW name, NEW answer, FileReadyReceived(name, answer)
      PROVE  FileInv'
  <2>1. CASE answer = "accept"
    <3>1. fileState' = "waitSectionReady" /\ reply'.kind = "callFile" /\ GivenUp
          /\ UNCHANGED <<sectionChecksum, sectionSum>>
      BY <1>3, <2>1 DEF FileReadyReceived, Say, CallFile
    <3> QED
      BY <3>1, AsideStep DEF Aside
  <2>2. CASE answer # "accept"
    <3>1. /\ fileState' = Current /\ reply'.kind \in {"fileReady", "mirror"} /\ GivenUp
          /\ UNCHANGED <<cursor, checksums>>
      BY <1>3, <2>2 DEF FileReadyReceived, Keep, FileReadyReply, Mirror, checksums
    <3> QED
      BY <3>1, KeptStep
  <2> QED
    BY <2>1, <2>2
<1>4. CASE MessageIgnored
  BY <1>4, KeptStep DEF MessageIgnored, Keep, NoReply
<1>5. CASE SectionReadyReceived(1, SegmentSize) \/ SegmentReceived(1)
  <2>1. /\ fileState' = "receive" /\ reply'.kind \in {"callSection", "none"} /\ GivenUp
        /\ UNCHANGED <<sectionChecksum, sectionSum>>
    BY <1>5 DEF SectionReadyReceived, SegmentReceived, Say, CallSection, NoReply, checksums
  <2> QED
    BY <2>1, AsideStep DEF Aside
<1>6. ASSUME NEW lsq \in 1 .. 3, LastReceived(1, lsq)
      PROVE  FileInv'
  <2>1. /\ fileState' \in {"idle", "waitSectionReady"} /\ reply'.kind \in {"fileAck", "none"}
        /\ GivenUp /\ UNCHANGED <<sectionChecksum, sectionSum>>
    BY <1>6 DEF LastReceived, Say, FileAck, NoReply, checksums
  <2> QED
    BY <2>1, AsideStep DEF Aside
<1>7. CASE AckInIdle
  BY <1>7, KeptStep DEF AckInIdle, Keep, Mirror
<1>8. ASSUME NEW awaited, AckUnexpected(awaited)
      PROVE  FileInv'
  BY <1>8, AsideStep DEF AckUnexpected, Aside, NoReply, checksums
<1>9. CASE FileAcknowledged
  <2>1. CASE /\ Current = "waitFileAck" /\ Say("idle", NoReply)
             /\ UNCHANGED <<cursor, checksums, disturbed>>
    <3>1. fileState = "waitFileAck"
      BY <2>1 DEF Current
    <3> QED
      BY <1>1, <2>1, <3>1 DEF Say, NoReply, FileInv, CursorInFile, SectionCounted, FileCounted,
         ChecksumsTrue, checksums
  <2> QED
    BY <1>7, <1>8, <1>9, <2>1 DEF FileAcknowledged
<1>10. CASE SectionRefused
  <2>1. CASE /\ Current = "waitSectionAck"
             /\ currentOffset' = 0 /\ sectionChecksum' = 0 /\ sectionSum' = 0
             /\ Say("transmit", SectionReadyReply(currentSection, currentSize))
             /\ disturbed' = disturbed \cup {"file"}
             /\ UNCHANGED <<currentSection, currentSize>>
    <3>1. fileState = "waitSectionAck" /\ fileState' = "transmit" /\ reply'.kind = "sectionReady"
      BY <2>1 DEF Current, Say, SectionReadyReply
    <3>2. CursorInFile'
      BY <1>1, <2>1, <3>1, SectionsAreSequences DEF CursorInFile
    <3> QED
      BY <1>1, <2>1, <3>1, <3>2 DEF FileInv, SectionCounted, FileCounted, ChecksumsTrue
  <2> QED
    BY <1>7, <1>8, <1>10, <2>1 DEF SectionRefused
<1>11. ASSUME Current \in {"waitSectionAck", "waitSectionCall"}, NextSection,
              disturbed' = disturbed, UNCHANGED <<fileChecksum, sectionSum, fileSum>>,
              sectionChecksum' \in {0, sectionChecksum}
       PROVE  FileInv'
  <2>1. fileState \in {"waitSectionAck", "waitSectionCall"}
    BY <1>11 DEF Current
  <2>2. /\ \/ /\ fileState' = "waitFileAck"
              /\ reply' = LastSection(currentSection + 1, fileChecksum)
           \/ fileState' = "waitSectionCall" /\ reply'.kind = "sectionReady"
    BY <1>11 DEF NextSection, Say, SectionReadyReply
  <2>3. SectionCounted' /\ FileCounted' /\ CursorInFile'
    BY <1>1, <1>11, <2>1, <2>2 DEF SectionCounted, FileCounted, CursorInFile
  <2>4. ChecksumsTrue'
    BY <1>1, <1>11, <2>1, <2>2 DEF ChecksumsTrue, FileCounted, LastSection
  <2> QED
    BY <2>3, <2>4 DEF FileInv
<1>12. CASE SectionAcknowledged
  BY <1>7, <1>8, <1>11, <1>12 DEF SectionAcknowledged
<1>13. ASSUME NEW c \in FileMasters, SelectFile(c, "file")
       PROVE  FileInv'
  BY <1>13, AsideStep DEF SelectFile, Say, Aside, FileReadyReply, checksums
<1>14. ASSUME NEW answer, SelectRefused("other", answer)
       PROVE  FileInv'
  BY <1>14, KeptStep DEF SelectRefused, Keep, FileReadyReply, Mirror
<1>15. CASE DeactivateFile
  BY <1>15, KeptStep DEF DeactivateFile, Keep, NoReply
<1>16. ASSUME NEW name, Current # "idle", WrongName(name)
       PROVE  FileInv'
  BY <1>16, KeptStep DEF WrongName, Keep, Mirror, Current
<1>17. ASSUME NEW name, CallReceived(name)
       PROVE  FileInv'
  <2>1. CASE /\ Current = "waitFileCall" /\ fileChecksum' = 0 /\ fileSum' = 0
             /\ disturbed' = disturbed \ {"file"}
             /\ Say("waitSectionCall", SectionReadyReply(1, getSectionSize(0)))
             /\ UNCHANGED <<sectionChecksum, sectionSum>>
    <3>1. fileState = "waitFileCall" /\ fileState' = "waitSectionCall"
          /\ reply'.kind = "sectionReady"
      BY <2>1 DEF Current, Say, SectionReadyReply
    <3> QED
      BY <1>1, <2>1, <3>1 DEF FileInv, SectionCounted, FileCounted, CursorInFile, ChecksumsTrue
  <2> QED
    BY <1>16, <1>17, <2>1 DEF CallReceived
<1>18. ASSUME NEW name, NEW section \in 1 .. Len(FileContent) + 1, NEW negative,
              SectionCallReceived(name, section, negative)
       PROVE  FileInv'
  <2>1. CASE /\ Current = "waitSectionCall" /\ negative /\ NextSection
             /\ UNCHANGED <<checksums, disturbed>>
    BY <1>11, <2>1 DEF checksums
  <2>2. CASE /\ Current = "waitSectionCall" /\ getSectionSize(section - 1) > 0
             /\ currentSize' = getSectionSize(section - 1)
             /\ currentSection' = section /\ currentOffset' = 0 /\ sectionSum' = 0
             /\ fileState' = "transmit" /\ reply' = NoReply
             /\ UNCHANGED <<sectionChecksum, fileChecksum, fileSum, disturbed>>
    <3>1. fileState = "waitSectionCall"
      BY <2>2 DEF Current
    <3>2. section - 1 + 1 = section
      BY SectionsAreSequences
    <3>3. section \in DOMAIN FileContent /\ currentSize' = Len(FileContent[section])
      BY <2>2, <3>2 DEF getSectionSize
    <3>4. CursorInFile'
      BY <2>2, <3>3, SectionsAreSequences DEF CursorInFile
    <3> QED
      BY <1>1, <2>2, <3>1, <3>4 DEF FileInv, SectionCounted, FileCounted, ChecksumsTrue, NoReply
  <2>3. CASE /\ Current = "waitSectionCall" /\ Keep(Mirror("negative"))
             /\ UNCHANGED <<checksums, disturbed>>
    <3>1. fileState = "waitSectionCall" /\ fileState' = "waitSectionCall" /\ reply'.kind = "mirror"
      BY <2>3 DEF Current, Keep, Mirror
    <3> QED
      BY <1>1, <2>3, <3>1 DEF FileInv, SectionCounted, FileCounted, CursorInFile, ChecksumsTrue,
         checksums
  <2> QED
    BY <1>16, <1>18, <2>1, <2>2, <2>3 DEF SectionCallReceived, checksums
<1>19. ASSUME NEW c \in FileMasters, sendSegment(c)
       PROVE  FileInv'
  <2>1. /\ fileState = "transmit" /\ fileState' = "transmit" /\ reply'.kind = "segment"
        /\ currentOffset < currentSize
        /\ UNCHANGED <<currentSection, currentSize, fileChecksum, fileSum, disturbed>>
        /\ currentOffset' = currentOffset + Len(Segment)
        /\ sectionChecksum' = Octet(sectionChecksum + Total(Segment))
        /\ sectionSum' = Octet(sectionSum + Total(Segment))
    BY <1>19 DEF sendSegment, Sending, Say
  <2>2. currentOffset' \in 0 .. currentSize /\ currentOffset' # 0
    BY <1>1, <2>1, SegmentMoves
  <2> QED
    BY <1>1, <2>1, <2>2 DEF FileInv, SectionCounted, FileCounted, CursorInFile, ChecksumsTrue
<1>20. ASSUME NEW c \in FileMasters, sendLastSegment(c)
       PROVE  FileInv'
  <2>1. /\ fileState = "transmit" /\ fileState' = "waitSectionAck"
        /\ reply' = LastSegment(currentSection, sectionChecksum)
        /\ fileChecksum' = Octet(fileChecksum + sectionChecksum) /\ sectionChecksum' = 0
        /\ fileSum' = Octet(fileSum + sectionSum) /\ UNCHANGED <<cursor, sectionSum>>
        /\ disturbed' = IF "section" \in disturbed THEN {"file", "last"} ELSE disturbed \ {"last"}
    BY <1>20 DEF sendLastSegment, Sending, Say
  <2>2. CursorInFile' /\ SectionCounted'
    BY <1>1, <2>1 DEF CursorInFile, SectionCounted, cursor
  <2>3. FileCounted'
    BY <1>1, <2>1 DEF FileCounted, SectionCounted
  <2>4. ChecksumsTrue'
    BY <1>1, <2>1 DEF ChecksumsTrue, SectionCounted, LastSegment
  <2> QED
    BY <2>2, <2>3, <2>4 DEF FileInv
<1>21. ASSUME NEW c \in FileMasters, runTaskTimeout(c)
       PROVE  FileInv'
  BY <1>21, AsideStep DEF runTaskTimeout, Say, Aside, NoReply, checksums
<1>22. CASE UNCHANGED fileVars
  BY <1>1, <1>22 DEF fileVars, cursor, checksums, FileInv, CursorInFile, SectionCounted,
     FileCounted, ChecksumsTrue
<1> QED
  BY <1>2, <1>3, <1>4, <1>5, <1>6, <1>9, <1>10, <1>12, <1>13, <1>14, <1>15, <1>17, <1>18, <1>19,
     <1>20, <1>21, <1>22 DEF FileNext

\* The checksum that ends a section is that of the octets sent for it and the one that ends
\* the file that of the sections announced, whichever master sends, calls or waits when.
THEOREM ChecksumsCorrect == FileSpec => []ChecksumsTrue
<1>1. FileInit => FileInv
  BY DEF FileInit, FileInv, CursorInFile, SectionCounted, FileCounted, ChecksumsTrue
<1>2. FileInv /\ [FileNext]_fileVars => FileInv'
  BY FileInvStep
<1>3. FileInv => ChecksumsTrue
  BY DEF FileInv
<1> QED
  BY <1>1, <1>2, <1>3, PTL DEF FileSpec
-----------------------------------------------------------------------------
(***************************************************************************)
(* HighPrioQueue: the answers in a buffer that wraps around                *)
(***************************************************************************)
\* The size of the i-th entry that waits.
Size(i) == sizes[queuedPrio[i]]

PrioTypes ==
  /\ where \in [0..(PrioSize - 1) -> Nat] /\ sizes \in Seq(PrioEntries)
  /\ queuedPrio \in Seq(Nat) /\ prioCounter = Len(queuedPrio)
  /\ \A i \in 1..Len(queuedPrio) : queuedPrio[i] \in 1..Len(sizes)

\* Each entry that waits lies whole at its place.
Lies(at, i) ==
  /\ at[i] \in Nat /\ at[i] + Size(i) <= PrioSize
  /\ \A o \in at[i]..(at[i] + Size(i) - 1) : where[o] = queuedPrio[i]

\* The entries up to the m-th lie one behind the other from firstEntry on, m being the one at
\* lastInBufferEntry; the others from the start of the buffer, before firstEntry.
Laid(at, m) ==
  /\ at[1] = firstPrio /\ at[Len(queuedPrio)] = lastPrio /\ at[m] = lastInPrio
  /\ \A i \in 1..Len(queuedPrio) :
       /\ Lies(at, i)
       /\ i <= m => at[i] >= firstPrio
       /\ i > m  => at[i] + Size(i) <= firstPrio
       /\ i < Len(queuedPrio) => at[i + 1] = IF i = m THEN 0 ELSE at[i] + Size(i)
  /\ \A i, j \in 1..Len(queuedPrio) : i < j /\ (j <= m \/ i > m) => at[i] + Size(i) <= at[j]

InPlace ==
  queuedPrio # <<>> =>
    \E at \in [1..Len(queuedPrio) -> Nat], m \in 1..Len(queuedPrio) : Laid(at, m)

PrioInv == ~cramped => PrioTypes /\ InPlace /\ taken.whole

\* Sizes are positive, and two of the largest entries fit into the buffer.
LEMMA PrioSizes ==
  ASSUME NEW s \in PrioEntries
  PROVE  s \in Nat /\ s >= 1 /\ s + s <= PrioSize /\ PrioSize \in Nat
BY PrioAssumption

\* An entry at the end of a queue.
LEMMA QueueGrows ==
  ASSUME NEW S, NEW q \in Seq(S), NEW e \in S
  PROVE  /\ Append(q, e) \in Seq(S) /\ Len(Append(q, e)) = Len(q) + 1 /\ Append(q, e) # <<>>
         /\ Append(q, e)[Len(q) + 1] = e
         /\ \A i \in 1..Len(q) : Append(q, e)[i] = q[i]
OBVIOUS

\* The sizes of the entries that wait.
LEMMA SizesKnown ==
  ASSUME PrioTypes, NEW i \in 1..Len(queuedPrio)
  PROVE  /\ Size(i) \in PrioEntries /\ Size(i) \in Nat /\ Size(i) >= 1
         /\ queuedPrio[i] \in 1..Len(sizes) /\ queuedPrio[i] # 0
<1>1. queuedPrio[i] \in 1..Len(sizes) /\ sizes \in Seq(PrioEntries)
  BY DEF PrioTypes
<1>2. Size(i) \in PrioEntries
  BY <1>1 DEF Size
<1> QED
  BY <1>1, <1>2, PrioSizes

\* What the three offsets say of a queue that is laid out.
LEMMA Pointers ==
  ASSUME PrioTypes, queuedPrio # <<>>, NEW n \in Nat, n = Len(queuedPrio),
         NEW at \in [1..n -> Nat], NEW m \in 1..n, Laid(at, m)
  PROVE  /\ n >= 1 /\ prioCounter = n /\ PrioSize \in Nat
         /\ at[1] = firstPrio /\ at[n] = lastPrio /\ at[m] = lastInPrio
         /\ firstPrio \in Nat /\ lastPrio \in Nat
         /\ firstPrio \in DOMAIN where /\ where[firstPrio] = queuedPrio[1]
         /\ SizeOf(firstPrio) = Size(1) /\ SizeOf(lastPrio) = Size(n)
         /\ Following = at[n] + Size(n)
         /\ m = n => lastPrio >= firstPrio
         /\ m < n => lastPrio < firstPrio /\ Following <= firstPrio
<1>1. n >= 1 /\ prioCounter = n
  BY DEF PrioTypes
<1>2. PrioSize \in Nat
  BY PrioAssumption
<1>3. at[1] = firstPrio /\ at[n] = lastPrio /\ at[m] = lastInPrio /\ Lies(at, 1) /\ Lies(at, n)
  BY <1>1 DEF Laid
<1>4. ASSUME NEW i \in 1..n, Lies(at, i)
      PROVE  at[i] \in DOMAIN where /\ where[at[i]] = queuedPrio[i] /\ SizeOf(at[i]) = Size(i)
  <2>1. Size(i) \in Nat /\ Size(i) >= 1 /\ queuedPrio[i] # 0
    BY SizesKnown
  <2>2. at[i] \in Nat /\ at[i] + Size(i) <= PrioSize
    BY <1>4 DEF Lies
  <2>3. at[i] \in at[i]..(at[i] + Size(i) - 1) /\ at[i] \in 0..(PrioSize - 1)
    BY <1>2, <2>1, <2>2
  <2>4. where[at[i]] = queuedPrio[i]
    BY <1>4, <2>3 DEF Lies
  <2> QED
    BY <2>1, <2>3, <2>4 DEF SizeOf, PrioTypes, Size
<1>5. Following = at[n] + Size(n)
  BY <1>1, <1>3, <1>4 DEF Following
<1>6. Size(n) \in Nat /\ Size(n) >= 1
  BY <1>1, SizesKnown
<1>7. (n <= m => at[n] >= firstPrio) /\ (n > m => at[n] + Size(n) <= firstPrio)
  BY <1>1 DEF Laid
<1> QED
  BY <1>1, <1>2, <1>3, <1>4, <1>5, <1>6, <1>7

\* HighPriorityASDUQueue_enqueue accepts an entry only where it overwrites none that waits.
LEMMA EntryBehind ==
  ASSUME PrioTypes, queuedPrio # <<>>, NEW n \in Nat, n = Len(queuedPrio),
         NEW at \in [1..n -> Nat], NEW m \in 1..n, Laid(at, m),
         NEW s \in PrioEntries, Accepted(s), ~(Wrapped /\ ~Fits(s))
  PROVE  /\ Place(s) \in Nat /\ Place(s) + s <= PrioSize
         /\ \A i \in 1..n : Place(s) + s <= at[i] \/ at[i] + Size(i) <= Place(s)
         /\ \/ m = n /\ Place(s) = at[n] + Size(n) /\ LastInNow(s) = Place(s)
            \/ /\ Place(s) = IF m = n THEN 0 ELSE at[n] + Size(n)
               /\ Place(s) + s <= firstPrio /\ LastInNow(s) = lastInPrio
<1>1. /\ n >= 1 /\ prioCounter = n /\ PrioSize \in Nat /\ firstPrio \in Nat /\ lastPrio \in Nat
      /\ at[n] = lastPrio /\ at[m] = lastInPrio /\ Following = at[n] + Size(n)
      /\ m = n => lastPrio >= firstPrio
      /\ m < n => lastPrio < firstPrio /\ Following <= firstPrio
  BY Pointers
<1>2. s \in Nat /\ s >= 1 /\ s + s <= PrioSize
  BY PrioSizes
<1>3. \A i \in 1..n : at[i] \in Nat /\ Size(i) \in Nat /\ Size(i) >= 1
  BY SizesKnown
<1>4. n \in 1..n /\ at[n] \in Nat /\ Size(n) \in Nat /\ Size(n) >= 1
  BY <1>1, <1>3
<1>5. FirstNow = firstPrio /\ (Wrapped <=> m < n)
  BY <1>1 DEF FirstNow, Wrapped
<1>6. ASSUME NEW i \in 1..n
      PROVE  /\ i <= m => at[i] >= firstPrio
             /\ i > m  => at[i] + Size(i) <= Following
             /\ m = n => at[i] + Size(i) <= Following
  <2>1. i <= m => at[i] >= firstPrio
    BY DEF Laid
  <2>2. i < n /\ (m = n \/ i > m) => at[i] + Size(i) <= at[n]
    BY <1>4 DEF Laid
  <2> QED
    BY <1>1, <1>3, <1>4, <2>1, <2>2
<1>7. CASE m = n
  <2>1. CASE Fits(s)
    <3>1. Place(s) = Following /\ Following > firstPrio
      BY <1>1, <1>4, <1>7, <2>1 DEF Place
    <3>2. LastInNow(s) = Place(s)
      BY <1>1, <1>5, <3>1 DEF LastInNow
    <3>3. Place(s) + s <= PrioSize
      BY <2>1, <3>1 DEF Fits
    <3> QED
      BY <1>1, <1>4, <1>6, <1>7, <3>1, <3>2, <3>3
  <2>2. CASE ~Fits(s)
    <3>1. Place(s) = 0 /\ ~(0 > firstPrio)
      BY <1>1, <2>2 DEF Place
    <3>2. s <= firstPrio
      BY <1>1, <1>2, <1>5, <3>1 DEF Accepted
    <3>3. LastInNow(s) = lastInPrio
      BY <1>1, <1>5, <1>7, <2>2, <3>1 DEF LastInNow
    <3>4. \A i \in 1..n : s <= at[i]
      BY <1>1, <1>2, <1>3, <1>6, <1>7, <3>2
    <3>5. Place(s) + s = s /\ s <= PrioSize
      BY <1>1, <1>2, <3>1
    <3> QED
      BY <1>7, <3>1, <3>2, <3>3, <3>4, <3>5
  <2> QED
    BY <2>1, <2>2
<1>8. CASE m < n
  <2>1. Fits(s) /\ Place(s) = Following
    BY <1>5, <1>8 DEF Place
  <2>2. ~(Following > firstPrio) /\ Following \in Nat
    BY <1>1, <1>4, <1>8
  <2>3. Following + s <= firstPrio
    BY <1>1, <1>5, <2>1, <2>2 DEF Accepted
  <2>4. LastInNow(s) = lastInPrio
    BY <1>1, <1>5, <2>1, <2>2 DEF LastInNow
  <2>5. Place(s) + s <= PrioSize
    BY <2>1 DEF Fits
  <2>6. \A i \in 1..n : Following + s <= at[i] \/ at[i] + Size(i) <= Following
    <3> TAKE i \in 1..n
    <3>1. i <= m \/ i > m
      OBVIOUS
    <3> QED
      BY <1>2, <1>3, <1>1, <1>6, <2>2, <2>3, <3>1
  <2> QED
    BY <1>1, <1>8, <2>1, <2>2, <2>3, <2>4, <2>5, <2>6
<1> QED
  BY <1>7, <1>8

\* An entry that was accepted lies whole where it was put, and so do the others still.
LEMMA EnqueueStep ==
  ASSUME PrioInv, NEW s \in PrioEntries, EnqueuePrio(s)
  PROVE  PrioInv'
<1> SUFFICES ASSUME ~cramped'
             PROVE  PrioTypes' /\ InPlace' /\ taken'.whole
  BY DEF PrioInv
<1> DEFINE entry == Len(sizes) + 1
<1>1. taken' = taken /\ ~cramped
  BY DEF EnqueuePrio
<1>2. PrioTypes /\ InPlace /\ taken.whole
  BY <1>1 DEF PrioInv
<1>3. PICK n \in Nat : n = Len(queuedPrio)
  BY <1>2 DEF PrioTypes
<1>4. /\ sizes \in Seq(PrioEntries) /\ queuedPrio \in Seq(Nat) /\ prioCounter = n
      /\ where \in [0..(PrioSize - 1) -> Nat] /\ \A i \in 1..n : queuedPrio[i] \in 1..Len(sizes)
      /\ Len(sizes) \in Nat /\ entry \in Nat /\ entry = Len(sizes) + 1
  BY <1>2, <1>3 DEF PrioTypes
<1>8. entry \in 1..entry /\ \A e \in 1..Len(sizes) : e \in 1..entry
  BY <1>4
<1> HIDE DEF entry
<1>5. s \in Nat /\ s >= 1 /\ s + s <= PrioSize /\ PrioSize \in Nat
  BY PrioSizes
<1>6. CASE ~Accepted(s)
  <2>1. UNCHANGED <<lastPrio, prioCounter, where, sizes, queuedPrio>>
        /\ firstPrio' = FirstNow /\ lastInPrio' = LastInNow(s) /\ prioCounter # 0
    BY <1>6 DEF EnqueuePrio, Accepted
  <2>2. queuedPrio # <<>>
    BY <1>3, <1>4, <2>1
  <2>3. PICK at \in [1..n -> Nat], m \in 1..n : Laid(at, m)
    BY <1>2, <1>3, <2>2 DEF InPlace
  <2>4. /\ n >= 1 /\ firstPrio \in Nat /\ lastPrio \in Nat /\ Following = at[n] + Size(n)
        /\ at[n] = lastPrio /\ at[m] = lastInPrio
        /\ m = n => lastPrio >= firstPrio
        /\ m < n => lastPrio < firstPrio /\ Following <= firstPrio
    BY <1>2, <1>3, <2>2, <2>3, Pointers
  <2>5. FirstNow = firstPrio /\ ~(Place(s) > firstPrio) /\ ~(Place(s) + s <= firstPrio)
    BY <1>4, <1>6, <2>1 DEF FirstNow, Accepted
  <2>6. Size(n) \in Nat /\ Size(n) >= 1
    BY <1>2, <1>3, <2>4, SizesKnown
  <2>7. LastInNow(s) = lastInPrio
    <3>1. CASE m = n
      BY <1>4, <2>1, <2>4, <2>5, <2>6, <3>1 DEF LastInNow, Place
    <3>2. CASE m < n
      <4>1. ~Fits(s) => s <= firstPrio
        BY <1>5, <2>4, <2>6, <3>2 DEF Fits
      <4>2. Fits(s)
        BY <1>5, <2>5, <4>1 DEF Place
      <4> QED
        BY <1>4, <2>1, <2>5, <4>2 DEF LastInNow
    <3> QED
      BY <3>1, <3>2
  <2>8. firstPrio' = firstPrio /\ lastInPrio' = lastInPrio
    BY <2>1, <2>5, <2>7
  <2>9. Laid(at, m)'
    BY <2>1, <2>3, <2>8 DEF Laid, Lies, Size
  <2>10. PrioTypes'
    BY <1>2, <2>1 DEF PrioTypes
  <2>11. n = Len(queuedPrio')
    BY <1>3, <2>1
  <2>12. InPlace'
    BY <2>3, <2>9, <2>11 DEF InPlace
  <2> QED
    BY <1>1, <1>2, <2>10, <2>12
<1>7. CASE Accepted(s)
  <2>1. /\ firstPrio' = FirstNow /\ lastInPrio' = LastInNow(s) /\ lastPrio' = Place(s)
        /\ prioCounter' = prioCounter + 1
        /\ where' = [o \in DOMAIN where |-> IF o \in Place(s)..(Place(s) + s - 1)
                                              THEN entry ELSE where[o]]
        /\ sizes' = Append(sizes, s) /\ queuedPrio' = Append(queuedPrio, entry)
        /\ ~(Wrapped /\ ~Fits(s))
    BY <1>7 DEF EnqueuePrio, entry
  <2>2. /\ sizes' \in Seq(PrioEntries) /\ Len(sizes') = entry /\ sizes'[entry] = s
        /\ \A e \in 1..Len(sizes) : sizes'[e] = sizes[e]
    BY <1>4, <2>1, QueueGrows
  <2>3. /\ queuedPrio' \in Seq(Nat) /\ Len(queuedPrio') = n + 1 /\ queuedPrio'[n + 1] = entry
        /\ \A i \in 1..n : queuedPrio'[i] = queuedPrio[i]
        /\ queuedPrio' # <<>>
    BY <1>3, <1>4, <2>1, QueueGrows
  <2>4. where' \in [0..(PrioSize - 1) -> Nat]
    BY <1>4, <2>1
  <2>5. \A i \in 1..(n + 1) : queuedPrio'[i] \in 1..entry
    <3> TAKE i \in 1..(n + 1)
    <3>1. CASE i \in 1..n
      BY <1>4, <1>8, <2>3, <3>1
    <3>2. CASE i = n + 1
      BY <1>8, <2>3, <3>2
    <3> QED
      BY <3>1, <3>2
  <2>6. PrioTypes'
    BY <1>4, <2>1, <2>2, <2>3, <2>4, <2>5 DEF PrioTypes
  <2>7. Size(n + 1)' = s /\ \A i \in 1..n : Size(i)' = Size(i)
    BY <1>4, <2>2, <2>3 DEF Size
  <2>8. ASSUME NEW at \in [1..n -> Nat], NEW i \in 1..n, Lies(at, i), Place(s) \in Nat,
               Place(s) + s <= at[i] \/ at[i] + Size(i) <= Place(s),
               NEW next \in [1..(n + 1) -> Nat], next[i] = at[i]
        PROVE  Lies(next, i)'
    <3>1. /\ at[i] \in Nat /\ Size(i) \in Nat /\ at[i] + Size(i) <= PrioSize
          /\ \A o \in at[i]..(at[i] + Size(i) - 1) : where[o] = queuedPrio[i]
      BY <1>2, <1>3, <2>8, SizesKnown DEF Lies
    <3>2. ASSUME NEW o \in at[i]..(at[i] + Size(i) - 1)
          PROVE  where'[o] = queuedPrio[i]
      <4>1. PICK a \in Nat, z \in Nat, q \in Nat :
              a = at[i] /\ z = Size(i) /\ q = Place(s)
        BY <2>8, <3>1
      <4>2. o \in a .. a + z - 1 /\ a + z <= PrioSize
        BY <3>1, <4>1
      <4>3. q + s <= a \/ a + z <= q
        BY <2>8, <4>1
      <4>4. o \in 0..(PrioSize - 1) /\ o \notin q..(q + s - 1)
        BY <1>5, <4>2, <4>3
      <4> QED
        BY <1>4, <2>1, <3>1, <4>1, <4>4
    <3> QED
      BY <2>3, <2>7, <2>8, <3>1, <3>2 DEF Lies
  <2>9. ASSUME Place(s) \in Nat, Place(s) + s <= PrioSize,
               NEW next \in [1..(n + 1) -> Nat], next[n + 1] = Place(s)
        PROVE  Lies(next, n + 1)'
    <3>1. \A o \in Place(s)..(Place(s) + s - 1) : where'[o] = entry
      BY <1>4, <1>5, <2>1, <2>9
    <3> QED
      BY <2>3, <2>7, <2>9, <3>1 DEF Lies
  <2>10. CASE n = 0
    <3>1. /\ firstPrio' = 0 /\ Place(s) = 0 /\ lastPrio' = 0 /\ Fits(s) /\ LastInNow(s) = 0
          /\ lastInPrio' = 0
      BY <1>4, <1>5, <2>1, <2>10 DEF FirstNow, Following, Fits, Place, LastInNow
    <3> DEFINE next == [i \in 1..1 |-> 0]
    <3>2. next \in [1..(n + 1) -> Nat] /\ next[1] = 0 /\ n + 1 = 1
      BY <2>10
    <3> HIDE DEF next
    <3>3. Lies(next, 1)'
      BY <1>5, <2>9, <3>1, <3>2
    <3>4. Laid(next, 1)'
      BY <2>3, <3>1, <3>2, <3>3 DEF Laid
    <3>5. InPlace'
      BY <2>3, <3>2, <3>4 DEF InPlace
    <3> QED
      BY <1>1, <1>2, <2>6, <3>5
  <2>11. CASE n # 0
    <3>1. queuedPrio # <<>> /\ FirstNow = firstPrio /\ n \in 1..n
      BY <1>3, <1>4, <2>11 DEF FirstNow
    <3>2. PICK at \in [1..n -> Nat], m \in 1..n : Laid(at, m)
      BY <1>2, <1>3, <3>1 DEF InPlace
    <3>3. /\ Place(s) \in Nat /\ Place(s) + s <= PrioSize
          /\ \A i \in 1..n : Place(s) + s <= at[i] \/ at[i] + Size(i) <= Place(s)
          /\ \/ m = n /\ Place(s) = at[n] + Size(n) /\ LastInNow(s) = Place(s)
             \/ /\ Place(s) = IF m = n THEN 0 ELSE at[n] + Size(n)
                /\ Place(s) + s <= firstPrio /\ LastInNow(s) = lastInPrio
      <4>1. ~(Wrapped /\ ~Fits(s)) /\ Accepted(s)
        BY <1>7, <2>1
      <4> QED
        BY <1>2, <1>3, <3>1, <3>2, <4>1, EntryBehind
    <3>4. /\ n >= 1 /\ at[1] = firstPrio /\ at[n] = lastPrio /\ at[m] = lastInPrio
          /\ firstPrio \in Nat
          /\ m = n => lastPrio >= firstPrio
      BY <1>2, <1>3, <3>1, <3>2, Pointers
    <3>5. PICK next \in [1..(n + 1) -> Nat] :
            next[n + 1] = Place(s) /\ \A i \in 1..n : next[i] = at[i]
      <4> DEFINE f == [i \in 1..(n + 1) |-> IF i = n + 1 THEN Place(s) ELSE at[i]]
      <4>1. f \in [1..(n + 1) -> Nat] /\ f[n + 1] = Place(s) /\ \A i \in 1..n : f[i] = at[i]
        BY <3>3
      <4> QED
        BY <4>1
    <3>6. PICK l \in 1..(n + 1) :
            \/ l = n + 1 /\ m = n /\ Place(s) = at[n] + Size(n) /\ LastInNow(s) = Place(s)
            \/ /\ l = m /\ Place(s) = IF m = n THEN 0 ELSE at[n] + Size(n)
               /\ Place(s) + s <= firstPrio /\ LastInNow(s) = lastInPrio
      <4>1. n + 1 \in 1..(n + 1) /\ m \in 1..(n + 1)
        OBVIOUS
      <4> QED
        BY <3>3, <4>1
    <3>8. \A i \in 1..n : at[i] \in Nat /\ Size(i) \in Nat /\ Size(i) >= 1
      BY <1>2, <1>3, SizesKnown
    <3>9. \A i \in 1..n : at[i] + Size(i) <= at[n] + Size(n) \/ (i <= m /\ m < n)
      <4> TAKE i \in 1..n
      <4>1. i < n /\ (m = n \/ i > m) => at[i] + Size(i) <= at[n]
        BY <3>1, <3>2, <1>3 DEF Laid
      <4> QED
        BY <3>1, <3>8, <4>1
    <3>10. \A i \in 1..(n + 1) : Lies(next, i)'
      <4> TAKE i \in 1..(n + 1)
      <4>1. CASE i \in 1..n
        <5>1. Lies(at, i)
          BY <1>3, <3>2, <4>1 DEF Laid
        <5>2. next[i] = at[i] /\ (Place(s) + s <= at[i] \/ at[i] + Size(i) <= Place(s))
          BY <3>3, <3>5, <4>1
        <5>3. Place(s) \in Nat /\ next \in [1..(n + 1) -> Nat]
          BY <3>3
        <5> QED
          BY <2>8, <4>1, <5>1, <5>2, <5>3
      <4>2. CASE i = n + 1
        <5>1. Place(s) \in Nat /\ Place(s) + s <= PrioSize
          BY <3>3
        <5>2. next \in [1..(n + 1) -> Nat] /\ next[n + 1] = Place(s)
          BY <3>5
        <5> QED
          BY <2>9, <4>2, <5>1, <5>2
      <4> QED
        BY <4>1, <4>2
    <3>11. ASSUME NEW i \in 1..(n + 1)
           PROVE  /\ i <= l => next[i] >= firstPrio
                  /\ i > l  => next[i] + Size(i)' <= firstPrio
      <4>1. CASE i \in 1..n
        <5>1. /\ i <= m => at[i] >= firstPrio
              /\ i > m  => at[i] + Size(i) <= firstPrio
          BY <1>3, <3>2, <4>1 DEF Laid
        <5> QED
          BY <2>7, <3>5, <3>6, <4>1, <5>1
      <4>2. CASE i = n + 1
        <5>1. at[n] >= firstPrio \/ l # n + 1
          BY <3>4, <3>6
        <5> QED
          BY <2>7, <3>1, <3>3, <3>4, <3>5, <3>6, <3>8, <4>2, <5>1
      <4> QED
        BY <4>1, <4>2
    <3>12. ASSUME NEW i \in 1..n
           PROVE  next[i + 1] = IF i = l THEN 0 ELSE next[i] + Size(i)'
      <4>1. CASE i < n
        <5>1. i + 1 \in 1..n /\ at[i + 1] = IF i = m THEN 0 ELSE at[i] + Size(i)
          BY <1>3, <3>2, <4>1 DEF Laid
        <5> QED
          BY <2>7, <3>5, <3>6, <4>1, <5>1
      <4>2. CASE i = n
        BY <2>7, <3>1, <3>5, <3>6, <4>2
      <4> QED
        BY <4>1, <4>2
    <3>13. ASSUME NEW i \in 1..(n + 1), NEW j \in 1..(n + 1), i < j, j <= l \/ i > l
           PROVE  next[i] + Size(i)' <= next[j]
      <4>1. i \in 1..n /\ next[i] = at[i] /\ Size(i)' = Size(i)
        BY <2>7, <3>5, <3>13
      <4>2. CASE j \in 1..n
        <5>1. j <= m \/ i > m
          BY <3>6, <3>13, <4>2
        <5>2. at[i] + Size(i) <= at[j]
          BY <1>3, <3>2, <3>13, <4>1, <4>2, <5>1 DEF Laid
        <5> QED
          BY <3>5, <4>1, <4>2, <5>2
      <4>3. CASE j = n + 1
        <5>1. Place(s) = at[n] + Size(n) /\ (m = n \/ i > m)
          BY <3>6, <3>13, <4>1, <4>3
        <5>2. at[i] + Size(i) <= at[n] + Size(n)
          BY <3>9, <4>1, <5>1
        <5> QED
          BY <3>5, <4>1, <4>3, <5>1, <5>2
      <4> QED
        BY <4>2, <4>3
    <3>14. next[1] = firstPrio' /\ next[n + 1] = lastPrio' /\ next[l] = lastInPrio'
      BY <2>1, <3>1, <3>4, <3>5, <3>6
    <3>15. \A i \in 1..(n + 1) : i < n + 1 => i \in 1..n
      OBVIOUS
    <3>16. Laid(next, l)'
      <4>1. \A i \in 1..Len(queuedPrio') :
              /\ Lies(next, i)'
              /\ i <= l => next[i] >= firstPrio'
              /\ i > l  => next[i] + Size(i)' <= firstPrio'
              /\ i < Len(queuedPrio') => next[i + 1] = IF i = l THEN 0 ELSE next[i] + Size(i)'
        BY <2>1, <2>3, <3>1, <3>10, <3>11, <3>12, <3>15
      <4>2. \A i, j \in 1..Len(queuedPrio') :
              i < j /\ (j <= l \/ i > l) => next[i] + Size(i)' <= next[j]
        BY <2>3, <3>13
      <4> QED
        BY <2>3, <3>14, <4>1, <4>2 DEF Laid
    <3>17. InPlace'
      BY <2>3, <3>5, <3>16 DEF InPlace
    <3> QED
      BY <1>1, <1>2, <2>6, <3>17
  <2> QED
    BY <2>10, <2>11
<1> QED
  BY <1>6, <1>7

\* A queue without its first entry.
LEMMA QueueShrinks ==
  ASSUME NEW S, NEW q \in Seq(S), q # <<>>
  PROVE  /\ Tail(q) \in Seq(S) /\ Len(Tail(q)) = Len(q) - 1 /\ Head(q) = q[1]
         /\ \A i \in 1..(Len(q) - 1) : Tail(q)[i] = q[i + 1]
         /\ Len(q) = 1 => Tail(q) = <<>>
OBVIOUS

\* HighPriorityASDUQueue_getNextASDU takes the oldest entry, whole, and finds the next one.
LEMMA GetNextStep ==
  ASSUME PrioInv, GetNextPrio
  PROVE  PrioInv'
<1> SUFFICES ASSUME ~cramped'
             PROVE  PrioTypes' /\ InPlace' /\ taken'.whole
  BY DEF PrioInv
<1>1. /\ ~cramped /\ UNCHANGED <<where, sizes>> /\ prioCounter > 0
      /\ prioCounter' = prioCounter - 1 /\ queuedPrio' = Tail(queuedPrio)
  BY DEF GetNextPrio
<1>2. PrioTypes /\ InPlace
  BY <1>1 DEF PrioInv
<1>3. PICK n \in Nat : n = Len(queuedPrio)
  BY <1>2 DEF PrioTypes
<1>4. prioCounter = n /\ n >= 1 /\ queuedPrio \in Seq(Nat) /\ queuedPrio # <<>>
  BY <1>1, <1>2, <1>3 DEF PrioTypes
<1>5. PICK at \in [1..n -> Nat], m \in 1..n : Laid(at, m)
  BY <1>2, <1>3, <1>4 DEF InPlace
<1>6. /\ at[1] = firstPrio /\ at[n] = lastPrio /\ at[m] = lastInPrio
      /\ firstPrio \in Nat /\ where[firstPrio] = queuedPrio[1] /\ SizeOf(firstPrio) = Size(1)
      /\ m < n => lastPrio < firstPrio
  BY <1>2, <1>3, <1>4, <1>5, Pointers
<1>7. /\ Tail(queuedPrio) \in Seq(Nat) /\ Len(Tail(queuedPrio)) = n - 1
      /\ Head(queuedPrio) = queuedPrio[1]
      /\ \A i \in 1..(n - 1) : Tail(queuedPrio)[i] = queuedPrio[i + 1]
      /\ n = 1 => Tail(queuedPrio) = <<>>
  BY <1>3, <1>4, QueueShrinks
<1>8. taken'.whole
  <2>1. Lies(at, 1)
    BY <1>3, <1>4, <1>5 DEF Laid
  <2>2. \A o \in firstPrio..(firstPrio + SizeOf(firstPrio) - 1) : where[o] = queuedPrio[1]
    BY <1>6, <2>1 DEF Lies
  <2>3. taken'.whole = /\ where[firstPrio] = Head(queuedPrio)
                       /\ \A o \in firstPrio..(firstPrio + SizeOf(firstPrio) - 1) :
                            where[o] = where[firstPrio]
    BY DEF GetNextPrio
  <2> QED
    BY <1>6, <1>7, <2>2, <2>3
<1>9. \A i \in 1..(n - 1) : i + 1 \in 1..n /\ queuedPrio'[i] = queuedPrio[i + 1]
  BY <1>1, <1>7
<1>10. PrioTypes'
  BY <1>1, <1>2, <1>3, <1>4, <1>7, <1>9 DEF PrioTypes
<1>11. CASE n = 1
  <2>1. queuedPrio' = <<>>
    BY <1>1, <1>7, <1>11
  <2> QED
    BY <1>8, <1>10, <2>1 DEF InPlace
<1>12. CASE n # 1
  <2>1. n > 1 /\ n - 1 \in Nat /\ n - 1 >= 1 /\ 1 \in 1..n /\ 2 \in 1..n /\ n \in 1..n
    BY <1>4, <1>12
  <2>2. \A i \in 1..n : Size(i) \in Nat /\ Size(i) >= 1 /\ at[i] \in Nat
    BY <1>2, <1>3, SizesKnown
  <2>3. Len(queuedPrio') = n - 1 /\ queuedPrio' # <<>>
    <3>1. Len(queuedPrio') = n - 1
      BY <1>1, <1>7
    <3>2. Len(queuedPrio') # 0
      BY <2>1, <3>1
    <3> QED
      BY <3>1, <3>2
  <2>4. \A i \in 1..(n - 1) : Size(i)' = Size(i + 1)
    BY <1>1, <1>9 DEF Size
  <2>5. PICK next \in [1..(n - 1) -> Nat] : \A i \in 1..(n - 1) : next[i] = at[i + 1]
    <3> DEFINE f == [i \in 1..(n - 1) |-> at[i + 1]]
    <3>1. f \in [1..(n - 1) -> Nat] /\ \A i \in 1..(n - 1) : f[i] = at[i + 1]
      BY <1>9, <2>2
    <3> QED
      BY <3>1
  <2>6. /\ m > 1 => at[m] >= at[1] + Size(1)
        /\ m = n => at[n] >= at[1] + Size(1)
        /\ at[2] = IF m = 1 THEN 0 ELSE at[1] + Size(1)
    BY <1>3, <1>5, <2>1 DEF Laid
  <2>7. lastPrio # firstPrio
    BY <1>6, <2>1, <2>2, <2>6
  <2>8. m = 1 <=> firstPrio = lastInPrio
    BY <1>6, <2>1, <2>2, <2>6
  <2>9. /\ lastPrio' = lastPrio /\ firstPrio' = at[2]
        /\ lastInPrio' = IF m = 1 THEN lastPrio ELSE lastInPrio
    <3>1. prioCounter > 1 /\ prioCounter # 1
      BY <1>4, <2>1
    <3> QED
      BY <1>6, <2>6, <2>7, <2>8, <3>1 DEF GetNextPrio
  <2>10. PICK l \in 1..(n - 1) : l = IF m = 1 THEN n - 1 ELSE m - 1
    BY <2>1
  <2>11. \A i \in 1..(n - 1) : Lies(next, i)'
    <3> TAKE i \in 1..(n - 1)
    <3>1. Lies(at, i + 1)
      BY <1>3, <1>5, <1>9 DEF Laid
    <3> QED
      BY <1>1, <1>9, <2>4, <2>5, <3>1 DEF Lies
  <2>12. ASSUME NEW i \in 1..(n - 1)
         PROVE  /\ i <= l => next[i] >= firstPrio'
                /\ i > l  => next[i] + Size(i)' <= firstPrio'
    <3>1. /\ i + 1 \in 1..n /\ next[i] = at[i + 1] /\ Size(i)' = Size(i + 1)
          /\ at[i + 1] \in Nat /\ Size(i + 1) \in Nat
      BY <1>9, <2>2, <2>4, <2>5
    <3>2. i + 1 > m => at[i + 1] + Size(i + 1) <= firstPrio
      BY <1>3, <1>5, <3>1 DEF Laid
    <3>3. CASE m = 1
      BY <2>6, <2>9, <2>10, <3>1, <3>3
    <3>4. CASE m # 1
      <4>1. l = m - 1 /\ firstPrio' = firstPrio + Size(1)
        BY <1>6, <2>6, <2>9, <2>10, <3>4
      <4>2. i = 1 => next[i] = firstPrio'
        BY <2>9, <3>1
      <4>3. i > 1 /\ i <= l => at[1] + Size(1) <= at[i + 1]
        <5> SUFFICES ASSUME i > 1, i <= l
                     PROVE  at[1] + Size(1) <= at[i + 1]
          OBVIOUS
        <5>1. 1 < i + 1 /\ i + 1 <= m
          BY <4>1
        <5> QED
          BY <1>3, <1>5, <2>1, <3>1, <5>1 DEF Laid
      <4>4. Size(1) \in Nat
        BY <2>1, <2>2
      <4> QED
        BY <1>6, <3>1, <3>2, <4>1, <4>2, <4>3, <4>4, SMTT(30)
    <3> QED
      BY <3>3, <3>4
  <2>13. ASSUME NEW i \in 1..(n - 1), i < n - 1
         PROVE  next[i + 1] = IF i = l THEN 0 ELSE next[i] + Size(i)'
    <3>1. /\ i + 1 \in 1..n /\ i + 1 < n /\ i + 1 \in 1..(n - 1) /\ next[i] = at[i + 1]
          /\ Size(i)' = Size(i + 1) /\ next[i + 1] = at[i + 1 + 1]
      BY <1>9, <2>4, <2>5, <2>13
    <3>2. at[i + 1 + 1] = IF i + 1 = m THEN 0 ELSE at[i + 1] + Size(i + 1)
      BY <1>3, <1>5, <3>1 DEF Laid
    <3>3. i + 1 = m <=> i = l
      BY <2>10, <2>13
    <3> QED
      BY <3>1, <3>2, <3>3
  <2>14. ASSUME NEW i \in 1..(n - 1), NEW j \in 1..(n - 1), i < j, j <= l \/ i > l
         PROVE  next[i] + Size(i)' <= next[j]
    <3>1. /\ i + 1 \in 1..n /\ j + 1 \in 1..n /\ i + 1 < j + 1
          /\ next[i] = at[i + 1] /\ next[j] = at[j + 1] /\ Size(i)' = Size(i + 1)
      BY <1>9, <2>4, <2>5, <2>14
    <3>2. j + 1 <= m \/ i + 1 > m
      BY <2>10, <2>14
    <3> QED
      BY <1>3, <1>5, <3>1, <3>2 DEF Laid
  <2>15. next[1] = firstPrio' /\ next[n - 1] = lastPrio' /\ next[l] = lastInPrio'
    <3>1. next[1] = at[2] /\ next[n - 1] = at[n] /\ next[l] = at[l + 1]
      BY <2>1, <2>5
    <3>2. l + 1 = IF m = 1 THEN n ELSE m
      BY <2>10
    <3> QED
      BY <1>6, <2>9, <3>1, <3>2
  <2>16. Laid(next, l)'
    <3>1. \A i \in 1..Len(queuedPrio') :
            /\ Lies(next, i)'
            /\ i <= l => next[i] >= firstPrio'
            /\ i > l  => next[i] + Size(i)' <= firstPrio'
            /\ i < Len(queuedPrio') => next[i + 1] = IF i = l THEN 0 ELSE next[i] + Size(i)'
      BY <2>3, <2>11, <2>12, <2>13
    <3>2. \A i, j \in 1..Len(queuedPrio') :
            i < j /\ (j <= l \/ i > l) => next[i] + Size(i)' <= next[j]
      BY <2>3, <2>14
    <3> QED
      BY <2>3, <2>15, <3>1, <3>2 DEF Laid
  <2>17. InPlace'
    BY <2>3, <2>5, <2>10, <2>16 DEF InPlace
  <2> QED
    BY <1>8, <1>10, <2>17
<1> QED
  BY <1>11, <1>12

\* The empty queue, and one that is emptied.
LEMMA ResetStep ==
  /\ PrioInit => PrioInv
  /\ PrioInv /\ ResetPrio => PrioInv'
<1>1. <<>> \in Seq(Nat) /\ <<>> \in Seq(PrioEntries) /\ Len(<<>>) = 0
  OBVIOUS
<1>2. 0 \in Nat /\ \A i \in 1..0 : FALSE
  OBVIOUS
<1>3. ASSUME PrioInit
      PROVE  PrioInv
  BY <1>1, <1>2, <1>3 DEF PrioInit, PrioInv, PrioTypes, InPlace
<1>4. ASSUME PrioInv, ResetPrio
      PROVE  PrioInv'
  BY <1>1, <1>2, <1>4 DEF ResetPrio, PrioInv, PrioTypes, InPlace
<1> QED
  BY <1>3, <1>4

\* Every step of the queue keeps the invariant.
LEMMA PrioInvStep == PrioInv /\ [PrioNext]_prioVars => PrioInv'
<1> SUFFICES ASSUME PrioInv, [PrioNext]_prioVars
             PROVE  PrioInv'
  OBVIOUS
<1>1. CASE UNCHANGED prioVars
  <2>1. \A i : Size(i)' = Size(i)
    BY <1>1 DEF prioVars, Size
  <2>2. ASSUME NEW at, NEW i
        PROVE  Lies(at, i)' <=> Lies(at, i)
    BY <1>1, <2>1, Zenon DEF prioVars, Lies
  <2>3. ASSUME NEW at, NEW m
        PROVE  Laid(at, m)' <=> Laid(at, m)
    BY <1>1, <2>1, <2>2, Zenon DEF prioVars, Laid
  <2>4. InPlace' <=> InPlace
    BY <1>1, <2>3, Zenon DEF prioVars, InPlace
  <2>5. PrioTypes' <=> PrioTypes
    BY <1>1 DEF prioVars, PrioTypes
  <2> QED
    BY <1>1, <2>4, <2>5 DEF prioVars, PrioInv
<1> QED
  BY <1>1, EnqueueStep, GetNextStep, ResetStep DEF PrioNext

\* There is a largest entry.
LEMMA LargestIs ==
  ASSUME NEW s \in PrioEntries
  PROVE  Largest \in PrioEntries /\ s <= Largest
<1> DEFINE rest == {PrioSize - t : t \in PrioEntries}
<1>1. rest \subseteq Nat /\ rest # {}
  BY PrioSizes
<1>2. PICK r \in rest : \A x \in rest : ~(<<x, r>> \in OpToRel(<, Nat))
  BY <1>1, NatLessThanWellFounded, WFMin
<1>3. PICK u \in PrioEntries : r = PrioSize - u
  BY <1>2
<1>4. \A t \in PrioEntries : t <= u
  <2> TAKE t \in PrioEntries
  <2>1. PrioSize - t \in Nat /\ r \in Nat /\ ~(PrioSize - t < r)
    <3>1. PrioSize - t \in rest
      OBVIOUS
    <3> QED
      BY <1>1, <1>2, <3>1 DEF OpToRel
  <2> QED
    BY <1>3, <2>1, PrioSizes
<1> QED
  BY <1>4 DEF Largest

\* A queue that says it is not full takes every entry, but where the layout does not fit.
LEMMA NotFullTakes ==
  ASSUME PrioTypes, InPlace, ~PrioFull, ~(Wrapped /\ ~Fits(Largest)), NEW s \in PrioEntries
  PROVE  Accepted(s)
<1>1. CASE prioCounter = 0
  BY <1>1 DEF Accepted
<1>2. CASE prioCounter # 0
  <2>1. PICK n \in Nat : n = Len(queuedPrio)
    BY DEF PrioTypes
  <2>2. queuedPrio # <<>> /\ prioCounter > 0
    BY <1>2, <2>1 DEF PrioTypes
  <2>3. PICK at \in [1..n -> Nat], m \in 1..n : Laid(at, m)
    BY <2>1, <2>2 DEF InPlace
  <2>4. /\ firstPrio \in Nat /\ lastPrio \in Nat /\ Following = at[n] + Size(n) /\ n \in 1..n
        /\ at[n] = lastPrio
    BY <2>1, <2>2, <2>3, Pointers
  <2>5. Following \in Nat /\ Following > lastPrio
    BY <2>1, <2>4, SizesKnown
  <2>6. Largest \in Nat /\ s \in Nat /\ s <= Largest /\ PrioSize \in Nat
    BY LargestIs, PrioSizes
  <2>7. FirstNow = firstPrio
    BY <1>2 DEF FirstNow
  <2>8. CASE Fits(Largest)
    <3>1. Fits(s) /\ ~(Following + Largest > PrioSize)
      BY <2>5, <2>6, <2>8 DEF Fits
    <3>2. Following > firstPrio \/ Following + Largest <= firstPrio
      BY <2>2, <2>4, <2>5, <2>6, <3>1 DEF PrioFull
    <3> QED
      BY <2>4, <2>5, <2>6, <2>7, <3>1, <3>2 DEF Accepted, Place
  <2>9. CASE ~Fits(Largest)
    <3>1. Following + Largest > PrioSize
      BY <2>5, <2>6, <2>9 DEF Fits
    <3>2. lastPrio >= firstPrio
      BY <2>2, <2>4, <2>9 DEF Wrapped
    <3>3. Largest <= firstPrio
      BY <2>2, <2>4, <2>6, <3>1 DEF PrioFull
    <3> QED
      BY <2>4, <2>5, <2>6, <2>7, <3>2, <3>3 DEF Accepted, Place
  <2> QED
    BY <2>8, <2>9
<1> QED
  BY <1>1, <1>2

\* AnswersWhole: answers leave the queue in order and whole, and a queue that is not full takes
\* the next one, until an entry had to be put at the start of the buffer a second time; for any
\* size of the buffer and any sizes of entries.
THEOREM AnswersCorrect == PrioSpec => []AnswersWhole
<1>1. PrioInv => AnswersWhole
  <2> SUFFICES ASSUME PrioInv, ~cramped
               PROVE  /\ taken.whole
                      /\ prioCounter > 0 => firstPrio \in DOMAIN where
                      /\ ~PrioFull /\ ~(Wrapped /\ ~Fits(Largest))
                           => \A s \in PrioEntries : Accepted(s)
    BY DEF AnswersWhole
  <2>1. PrioTypes /\ InPlace /\ taken.whole
    BY DEF PrioInv
  <2>2. prioCounter > 0 => firstPrio \in DOMAIN where
    <3> SUFFICES ASSUME prioCounter > 0
                 PROVE  firstPrio \in DOMAIN where
      OBVIOUS
    <3>1. PICK n \in Nat : n = Len(queuedPrio)
      BY <2>1 DEF PrioTypes
    <3>2. queuedPrio # <<>>
      BY <2>1, <3>1 DEF PrioTypes
    <3>3. PICK at \in [1..n -> Nat], m \in 1..n : Laid(at, m)
      BY <2>1, <3>1, <3>2 DEF InPlace
    <3> QED
      BY <2>1, <3>1, <3>2, <3>3, Pointers
  <2> QED
    BY <2>1, <2>2, NotFullTakes
<1> QED
  BY <1>1, ResetStep, PrioInvStep, PTL DEF PrioSpec

(***************************************************************************)
(* MessageRing: the buffer of the CS 104 slave's event queue               *)
(***************************************************************************)
\* Infinite descent: numbers of which none is the least are none.
LEMMA Descent ==
  ASSUME NEW S, S \subseteq Nat, \A n \in S : \E m \in S : m < n
  PROVE  S = {}
<1> SUFFICES ASSUME S # {} PROVE FALSE
  OBVIOUS
<1>1. PICK n \in S : \A m \in S : ~(<<m, n>> \in OpToRel(<, Nat))
  BY NatLessThanWellFounded, WFMin
<1>2. PICK m \in S : m < n
  OBVIOUS
<1> QED
  BY <1>1, <1>2 DEF OpToRel

\* A function that starts where a walk of n places starts and goes on as it does.
WalksAs(n, w) ==
  /\ w = [i \in 1 .. n |-> w[i]] /\ (n > 0 => w[1] = firstEntry)
  /\ \A i \in 2 .. n : w[i] = After(w[i - 1], lastInBufferEntry)

\* The walk is that function.
LEMMA WalkIs ==
  ASSUME NEW n \in Nat, NEW w, WalksAs(n, w)
  PROVE  Walk(n) = w
<1> DEFINE Leads(f) == f = [i \in 1 .. n |-> IF i = 1 THEN firstEntry
                               ELSE After(f[i - 1], lastInBufferEntry)]
           p == CHOOSE f : Leads(f)
           D == {i \in 1 .. n : p[i] # w[i]}
<1>0. \A i \in 1 .. n : w[i] = IF i = 1 THEN firstEntry ELSE After(w[i - 1], lastInBufferEntry)
  BY DEF WalksAs
<1>1. Leads(w)
  BY <1>0 DEF WalksAs
<1>2. Leads(p)
  BY <1>1, Zenon
<1>3. Walk(n) = p
  BY DEF Walk
<1>4. D = {}
  <2> HIDE DEF p
  <2>1. ASSUME NEW i \in D PROVE i - 1 \in D /\ i - 1 < i
    BY <1>0, <1>2
  <2>2. D \subseteq Nat
    OBVIOUS
  <2> QED
    BY <2>1, <2>2, Descent
<1>5. p = [i \in 1 .. n |-> p[i]] /\ w = [i \in 1 .. n |-> w[i]]
  BY <1>2 DEF WalksAs
<1> QED
  BY <1>3, <1>4, <1>5

Begins(e) == header[e].at
Ends(e)   == header[e].at + header[e].size

BufferTypeOK ==
  /\ entryId \in 1 .. MaxEntries + 1 /\ entryCounter \in 0 .. entryId - 1
  /\ mem \in [Offset -> 0 .. MaxEntries]
  /\ header \in [Entry -> [at : Nat, size : Nat \ {0}, state : {"waiting", "sent", "confirmed"}]]
  /\ pending \subseteq 1 .. entryId - 1

\* The entries lo .. hi lie whole in the buffer, one behind the other: the part up to
\* entry t, and behind it, from the start of the buffer on, the newer ones, which end
\* before the oldest begins.
LaidOut(lo, hi, t) ==
  /\ t \in lo .. hi
  /\ \A e \in lo .. hi :
       /\ header[e].size \in EntrySizes /\ Ends(e) <= BufferSize
       /\ \A o \in Begins(e) .. Ends(e) - 1 : mem[o] = e
  /\ \A e \in lo .. hi - 1 : Begins(e + 1) = IF e = t THEN 0 ELSE Ends(e)
  /\ \A e, f \in lo .. hi :
       e < f => IF e <= t /\ t < f THEN Ends(f) <= Begins(e) ELSE Ends(e) <= Begins(f)

OldestId == entryId - entryCounter
NewestId == entryId - 1

\* The pointers of a queue that is not empty.
PointersLaid ==
  entryCounter > 0 =>
    \E t \in Entry :
      /\ LaidOut(OldestId, NewestId, t)
      /\ firstEntry = Begins(OldestId) /\ lastEntry = Begins(NewestId)
      /\ lastInBufferEntry = Begins(t)

BufferInv == BufferTypeOK /\ PointersLaid

\* A function that starts as the rounds of the loop start and goes on as they do.
EvictsAs(p, s, start, w) ==
  /\ w = [k \in 0 .. start.count |-> w[k]] /\ w[0] = start
  /\ \A k \in 1 .. start.count : w[k] = EvictOldest(p, s, w[k - 1])

\* The loop ends with its last value.
LEMMA EvictIs ==
  ASSUME NEW p, NEW s, NEW start, start.count \in Nat, NEW w, EvictsAs(p, s, start, w)
  PROVE  Evict(p, s, start) = w[start.count]
<1> DEFINE Leads(f) == f = [k \in 0 .. start.count |->
                              IF k = 0 THEN start ELSE EvictOldest(p, s, f[k - 1])]
           q == CHOOSE f : Leads(f)
           D == {k \in 0 .. start.count : q[k] # w[k]}
<1>0. \A k \in 0 .. start.count : w[k] = IF k = 0 THEN start ELSE EvictOldest(p, s, w[k - 1])
  BY DEF EvictsAs
<1>1. Leads(w)
  BY <1>0 DEF EvictsAs
<1>2. Leads(q)
  BY <1>1, Zenon
<1>3. Evict(p, s, start) = q[start.count]
  BY DEF Evict
<1>4. D = {}
  <2> HIDE DEF q
  <2>1. ASSUME NEW k \in D PROVE k - 1 \in D /\ k - 1 < k
    BY <1>0, <1>2
  <2>2. D \subseteq Nat
    OBVIOUS
  <2> QED
    BY <2>1, <2>2, Descent
<1>5. start.count \in 0 .. start.count
  OBVIOUS
<1> QED
  <2> HIDE DEF q
  <2> QED
    BY <1>3, <1>4, <1>5

\* Every entry that is laid out is found where it begins, and only there.
LEMMA HeaderFound ==
  ASSUME BufferTypeOK, NEW lo \in Entry, NEW hi \in Entry, NEW t \in Entry, LaidOut(lo, hi, t),
         NEW e \in lo .. hi
  PROVE  /\ Begins(e) \in Offset /\ mem[Begins(e)] = e /\ HeaderAt(Begins(e)) = header[e]
         /\ SizeAt(Begins(e)) = header[e].size /\ Begins(e) < Ends(e)
         /\ \A f \in lo .. hi : Begins(f) = Begins(e) => f = e
<1>0. MaxEntries \in Nat /\ BufferSize \in Nat
  BY RingAssumption
<1>1. e \in Entry /\ header[e].at \in Nat /\ header[e].size \in Nat /\ header[e].size > 0
  BY <1>0 DEF Entry, BufferTypeOK
<1>2. Begins(e) \in Offset /\ mem[Begins(e)] = e /\ Begins(e) < Ends(e)
  <2>1. Begins(e) \in Nat /\ Begins(e) < Ends(e) /\ Ends(e) \in Nat
    BY <1>1 DEF Begins, Ends
  <2>2. Ends(e) <= BufferSize /\ \A o \in Begins(e) .. Ends(e) - 1 : mem[o] = e
    BY DEF LaidOut
  <2> QED
    BY <1>0, <2>1, <2>2 DEF Offset
<1>3. HeaderAt(Begins(e)) = header[e]
  BY <1>1, <1>2 DEF HeaderAt, Begins, Entry
<1>4. ASSUME NEW f \in lo .. hi, Begins(f) = Begins(e) PROVE f = e
  <2>1. header[f].at \in Nat /\ header[f].size \in Nat /\ header[f].size > 0
    BY <1>0 DEF Entry, BufferTypeOK
  <2>2. mem[Begins(f)] = f
    BY <2>1 DEF LaidOut, Begins, Ends
  <2> QED
    BY <1>2, <1>4, <2>2
<1> QED
  BY <1>2, <1>3, <1>4 DEF SizeAt

\* What is left of the entries a .. b: the rest of them, with room before it, or none.
Leaves(r, p, s, a, b, c) ==
  \/ \E k \in a .. b : /\ p + s <= Begins(k) /\ r.first = Begins(k)
                       /\ r.lastIn = Begins(b) /\ r.count = c - (k - a)
  \/ r.first = 0 /\ r.lastIn = p /\ r.count = c - (b - a + 1)

\* The loop leaves that of entries which lie one behind the other up to the last one in
\* the buffer.
LEMMA EvictLeaves ==
  ASSUME BufferTypeOK, NEW lo \in Entry, NEW hi \in Entry, NEW t \in Entry, LaidOut(lo, hi, t),
         NEW a \in lo .. hi, NEW b \in a .. hi, \A e \in a .. b - 1 : Begins(e + 1) = Ends(e),
         NEW p \in Nat, NEW s \in Nat, NEW c \in Nat, b - a + 1 <= c
  PROVE  Leaves(Evict(p, s, Rest(Begins(a), Begins(b), c, FALSE)), p, s, a, b, c)
<1> DEFINE Room == {n \in 0 .. b - a : p + s <= Begins(a + n)}
           start == Rest(Begins(a), Begins(b), c, FALSE)
<1>0. MaxEntries \in Nat /\ lo \in Nat /\ hi \in Nat /\ a \in Nat /\ b \in Nat
  BY RingAssumption DEF Entry
<1>1. PICK n \in 0 .. b - a + 1 : /\ n <= b - a => p + s <= Begins(a + n)
                                  /\ \A m \in 0 .. n - 1 : ~(p + s <= Begins(a + m))
  <2>1. CASE Room = {}
    <3>1. \A m \in 0 .. b - a : ~(p + s <= Begins(a + m))
      BY <2>1
    <3>2. b - a + 1 \in 0 .. b - a + 1 /\ (b - a + 1) - 1 = b - a /\ ~(b - a + 1 <= b - a)
      BY <1>0
    <3> QED
      BY <3>1, <3>2
  <2>2. CASE Room # {}
    <3>1. Room \subseteq Nat
      BY <1>0
    <3> HIDE DEF Room
    <3>2. PICK n \in Room : \A m \in Room : ~(m < n)
      BY <2>2, <3>1, Descent
    <3>3. n \in 0 .. b - a /\ p + s <= Begins(a + n)
      BY <3>2 DEF Room
    <3>4. ASSUME NEW m \in 0 .. n - 1 PROVE ~(p + s <= Begins(a + m))
      <4>1. m \in 0 .. b - a /\ m < n
        BY <1>0, <3>3
      <4> QED
        BY <3>2, <4>1 DEF Room
    <3> QED
      BY <1>0, <3>3, <3>4
  <2> QED
    BY <2>1, <2>2
<1> DEFINE State(m) == IF m <= b - a THEN Rest(Begins(a + m), Begins(b), c - m, FALSE)
                       ELSE Rest(0, p, c - (b - a + 1), TRUE)
           w == [k \in 0 .. c |-> IF k <= n THEN State(k) ELSE State(n)]
<1>2. ASSUME NEW m \in 0 .. n - 1 PROVE EvictOldest(p, s, State(m)) = State(m + 1)
  <2>1. m <= b - a /\ a + m \in a .. b /\ a + m \in lo .. hi /\ ~(p + s <= Begins(a + m))
    BY <1>0, <1>1
  <2>2. State(m) = Rest(Begins(a + m), Begins(b), c - m, FALSE) /\ c - m # 0
    BY <1>0, <2>1
  <2>3. Begins(a + m) = Begins(b) <=> m = b - a
    BY <1>0, <2>1, HeaderFound
  <2>4. CASE m = b - a
    <3>1. ~(m + 1 <= b - a) /\ (c - m) - 1 = c - (b - a + 1)
      BY <1>0, <2>4
    <3>2. State(m + 1) = Rest(0, p, (c - m) - 1, TRUE)
      BY <3>1
    <3> QED
      BY <2>1, <2>2, <2>3, <2>4, <3>2 DEF EvictOldest, Rest
  <2>5. CASE m # b - a
    <3>1. SizeAt(Begins(a + m)) = header[a + m].size
      BY <2>1, HeaderFound
    <3>2. Begins(a + (m + 1)) = Begins(a + m) + SizeAt(Begins(a + m))
      <4>1. a + m \in a .. b - 1 /\ (a + m) + 1 = a + (m + 1)
        BY <1>0, <2>1, <2>5
      <4> QED
        BY <3>1, <4>1 DEF Begins, Ends
    <3>3. m + 1 <= b - a /\ (c - m) - 1 = c - (m + 1)
      BY <1>0, <2>1, <2>5
    <3>4. State(m + 1) = Rest(Begins(a + (m + 1)), Begins(b), (c - m) - 1, FALSE)
      BY <3>3
    <3> QED
      BY <2>1, <2>2, <2>3, <2>5, <3>2, <3>4 DEF EvictOldest, Rest
  <2> QED
    BY <2>4, <2>5
<1>3. EvictOldest(p, s, State(n)) = State(n)
  BY <1>0, <1>1 DEF EvictOldest, Rest
<1>4. start.count = c
  BY DEF Rest
<1>5. State(0) = start
  BY <1>0
<1>6. w = [k \in 0 .. c |-> IF k <= n THEN State(k) ELSE State(n)]
  OBVIOUS
<1>7. Evict(p, s, start) = State(n)
  <2> HIDE DEF w, start, State
  <2>1. w = [k \in 0 .. c |-> w[k]] /\ w[0] = start
    BY <1>1, <1>4, <1>5, <1>6
  <2>2. ASSUME NEW k \in 1 .. c PROVE w[k] = EvictOldest(p, s, w[k - 1])
    <3>1. CASE k <= n
      <4>1. k - 1 \in 0 .. n - 1 /\ k - 1 \in 0 .. c /\ (k - 1) + 1 = k /\ k - 1 <= n
        BY <1>1, <3>1
      <4>2. w[k] = State(k) /\ w[k - 1] = State(k - 1)
        BY <1>6, <3>1, <4>1
      <4> QED
        BY <1>2, <4>1, <4>2
    <3>2. CASE ~(k <= n)
      <4>1. k - 1 \in 0 .. c /\ (k - 1 <= n => k - 1 = n)
        BY <1>1, <3>2
      <4>2. w[k] = State(n) /\ w[k - 1] = State(n)
        BY <1>6, <3>2, <4>1
      <4> QED
        BY <1>3, <4>2
    <3> QED
      BY <3>1, <3>2
  <2>3. EvictsAs(p, s, start, w)
    BY <1>4, <2>1, <2>2 DEF EvictsAs
  <2>4. Evict(p, s, start) = w[c]
    BY <1>4, <2>3, EvictIs
  <2>5. c <= n => c = n
    BY <1>0, <1>1
  <2> QED
    BY <1>6, <2>4, <2>5
<1>8. CASE n <= b - a
  <2>1. a + n \in a .. b /\ c - n = c - ((a + n) - a) /\ p + s <= Begins(a + n)
    BY <1>0, <1>1, <1>8
  <2>2. Evict(p, s, start) = Rest(Begins(a + n), Begins(b), c - n, FALSE)
    BY <1>7, <1>8
  <2> QED
    BY <2>1, <2>2 DEF Rest, Leaves
<1>9. CASE ~(n <= b - a)
  <2>1. Evict(p, s, start) = Rest(0, p, c - (b - a + 1), TRUE)
    BY <1>7, <1>9
  <2> QED
    BY <2>1 DEF Rest, Leaves
<1> QED
  BY <1>8, <1>9

\* What is laid out has places and sizes that can be compared.
LEMMA EntryNumbers ==
  ASSUME BufferTypeOK
  PROVE  /\ MaxEntries \in Nat /\ BufferSize \in Nat /\ entryId \in Nat /\ Entry \subseteq Nat
         /\ entryCounter \in Nat /\ \A s \in EntrySizes : s \in Nat /\ s > 0 /\ 2 * s <= BufferSize
         /\ \A e \in Entry : Begins(e) \in Nat /\ header[e].size \in Nat /\ Ends(e) > Begins(e)
                             /\ Ends(e) \in Nat /\ Ends(e) = Begins(e) + header[e].size
BY RingAssumption DEF BufferTypeOK, Entry, Begins, Ends

\* The entries lo .. hi, which lie as up to u they did, leave room for one of size s at
\* place at, and t is then the last one in the buffer: the new one or one of them.
Beside(lo, hi, u, t, at, s) ==
  \/ t = hi + 1 /\ (u < lo \/ u = hi) /\ (lo <= hi => at = Ends(hi))
  \/ /\ t <= hi /\ (t = u \/ (u < lo /\ t = hi)) /\ at + s <= Begins(lo)
     /\ at = IF t = hi THEN 0 ELSE Ends(hi)

\* The new entry is written at a place where the kept ones are not.
LEMMA PutIn ==
  ASSUME BufferTypeOK, NEW new \in Entry, NEW last, last = new - 1, NEW s \in EntrySizes,
         NEW at \in Nat, at + s <= BufferSize, NEW lo \in 1 .. new, NEW t \in lo .. new,
         header' = [header EXCEPT ![new] = [at |-> at, size |-> s, state |-> "waiting"]],
         mem' = [o \in Offset |-> IF o \in at .. at + s - 1 THEN new ELSE mem[o]],
         NEW old \in 1 .. lo, NEW u \in Nat, lo = new \/ LaidOut(old, last, u),
         Beside(lo, last, u, t, at, s)
  PROVE  /\ LaidOut(lo, new, t)'
         /\ Begins(new)' = at /\ \A e \in 1 .. last : Begins(e)' = Begins(e)
<1> USE EntryNumbers
<1>0. last \in Nat /\ last = new - 1 /\ s \in Nat /\ s > 0 /\ new \in Entry
  BY DEF Entry
<1>9. \/ t = new /\ (u < lo \/ u = last) /\ (lo <= last => at = Ends(last))
      \/ /\ t <= last /\ (t = u \/ (u < lo /\ t = last)) /\ at + s <= Begins(lo)
         /\ at = IF t = last THEN 0 ELSE Ends(last)
  BY <1>0 DEF Beside
<1>1. /\ header'[new] = [at |-> at, size |-> s, state |-> "waiting"]
      /\ \A e \in Entry : e # new => header'[e] = header[e]
  BY DEF BufferTypeOK
<1>2. ASSUME NEW e \in 1 .. last
      PROVE  e \in Entry /\ e # new /\ Begins(e)' = Begins(e) /\ Ends(e)' = Ends(e)
             /\ header'[e].size = header[e].size
  <2>1. e \in Entry /\ e # new
    BY <1>0 DEF Entry
  <2> QED
    BY <1>1, <2>1 DEF Begins, Ends
<1>3. Begins(new)' = at /\ Ends(new)' = at + s /\ header'[new].size = s
  BY <1>1 DEF Begins, Ends
<1>4. \A e \in lo .. new : e = new \/ (e \in lo .. last /\ e \in old .. last
                                              /\ e \in 1 .. last)
  BY <1>0
<1>5. CASE lo <= last
  <2>0. LaidOut(old, last, u)
    BY <1>0, <1>5
  <2>6. \A e, f \in old .. last :
         e < f => IF e <= u /\ u < f THEN Ends(f) <= Begins(e) ELSE Ends(e) <= Begins(f)
    BY <2>0 DEF LaidOut
  <2>1. ASSUME NEW e \in lo .. last, e <= t, t <= last PROVE at + s <= Begins(e)
    <3>1. e \in Entry /\ lo \in Entry /\ e \in old .. last /\ lo \in old .. last
      BY <1>0, <1>2
    <3>2. CASE e = lo
      BY <1>0, <1>9, <2>1, <3>2
    <3>3. CASE e # lo
      <4>1. lo < e /\ ~(lo <= u /\ u < e)
        BY <1>0, <1>9, <2>1, <3>3
      <4>2. Ends(lo) <= Begins(e) /\ at + s <= Begins(lo)
        BY <1>0, <1>9, <2>1, <2>6, <3>1, <4>1
      <4> QED
        BY <3>1, <4>2
    <3> QED
      BY <3>2, <3>3
  <2>2. ASSUME NEW e \in lo .. last, e > t \/ t = new PROVE Ends(e) <= at
    <3>1. e \in Entry /\ last \in Entry /\ e \in old .. last /\ last \in old .. last
      BY <1>0, <1>2, <1>5
    <3>2. at = Ends(last) /\ (u < e \/ u = last)
      BY <1>0, <1>9, <1>5, <2>2
    <3>3. CASE e = last
      BY <3>1, <3>2, <3>3
    <3>4. CASE e # last
      <4>1. e < last /\ ~(e <= u /\ u < last)
        BY <1>0, <3>2, <3>4
      <4>2. Ends(e) <= Begins(last)
        BY <2>6, <3>1, <4>1
      <4> QED
        BY <3>1, <3>2, <4>2
    <3> QED
      BY <3>3, <3>4
  <2>3. ASSUME NEW e \in lo .. new
        PROVE  /\ header'[e].size \in EntrySizes /\ Ends(e)' <= BufferSize
               /\ \A o \in Begins(e)' .. Ends(e)' - 1 : mem'[o] = e
    <3>1. CASE e = new
      BY <1>0, <1>3, <3>1 DEF Offset
    <3>2. CASE e # new
      <4>1. e \in lo .. last /\ e \in old .. last /\ e \in 1 .. last
        BY <1>4, <3>2
      <4>2. header[e].size \in EntrySizes /\ Ends(e) <= BufferSize
            /\ \A o \in Begins(e) .. Ends(e) - 1 : mem[o] = e
        BY <2>0, <4>1 DEF LaidOut
      <4>3. \A o \in Begins(e) .. Ends(e) - 1 : o \in Offset /\ o \notin at .. at + s - 1
        <5>1. e \in Entry /\ Begins(e) \in Nat /\ Ends(e) \in Nat /\ BufferSize \in Nat
          BY <1>2, <4>1
        <5>2. Ends(e) <= at \/ at + s <= Begins(e)
          BY <1>0, <2>1, <2>2, <4>1
        <5> TAKE o \in Begins(e) .. Ends(e) - 1
        <5>3. o \in Nat /\ Begins(e) <= o /\ o < Ends(e) /\ o < BufferSize
          BY <4>2, <5>1
        <5>4. o \in Offset
          BY <5>1, <5>3 DEF Offset
        <5>5. o < at \/ at + s <= o
          BY <1>0, <5>1, <5>2, <5>3
        <5> QED
          BY <1>0, <5>3, <5>4, <5>5
      <4> QED
        BY <1>2, <4>1, <4>2, <4>3
    <3> QED
      BY <3>1, <3>2
  <2>4. ASSUME NEW e \in lo .. new - 1
        PROVE  Begins(e + 1)' = IF e = t THEN 0 ELSE Ends(e)'
    <3>1. e \in lo .. last /\ e \in 1 .. last
      BY <1>0
    <3>2. CASE e = last
      <4>1. e + 1 = new
        BY <1>0, <3>2
      <4>2. at = IF e = t THEN 0 ELSE Ends(e)
        BY <1>0, <1>9, <1>5, <3>2
      <4> QED
        BY <1>2, <1>3, <3>1, <4>1, <4>2
    <3>3. CASE e # last
      <4>1. e + 1 \in 1 .. last /\ e \in old .. last - 1
        BY <1>0, <1>9, <3>1, <3>3
      <4>2. Begins(e + 1) = IF e = u THEN 0 ELSE Ends(e)
        BY <2>0, <4>1 DEF LaidOut
      <4>3. (e = u) <=> (e = t)
        BY <1>0, <1>9, <3>1, <3>3
      <4> QED
        BY <1>2, <3>1, <4>1, <4>2, <4>3
    <3> QED
      BY <3>2, <3>3
  <2>5. ASSUME NEW e \in lo .. new, NEW f \in lo .. new, e < f
        PROVE  IF e <= t /\ t < f THEN Ends(f)' <= Begins(e)' ELSE Ends(e)' <= Begins(f)'
    <3>1. e \in lo .. last /\ e \in 1 .. last /\ e \in old .. last
      BY <1>0, <2>5
    <3>2. CASE f = new
      BY <1>0, <1>2, <1>3, <2>1, <2>2, <3>1, <3>2
    <3>3. CASE f # new
      <4>1. f \in lo .. last /\ f \in 1 .. last /\ f \in old .. last
        BY <1>4, <3>3
      <4>2. IF e <= u /\ u < f THEN Ends(f) <= Begins(e) ELSE Ends(e) <= Begins(f)
        BY <2>0, <2>5, <3>1, <4>1 DEF LaidOut
      <4>3. (e <= u /\ u < f) <=> (e <= t /\ t < f)
        BY <1>0, <1>9, <3>1, <4>1
      <4> QED
        BY <1>2, <3>1, <4>1, <4>2, <4>3
    <3> QED
      BY <3>2, <3>3
  <2> QED
    BY <1>2, <1>3, <2>3, <2>4, <2>5 DEF LaidOut
<1>6. CASE ~(lo <= last)
  <2>1. lo = new /\ t = new
    BY <1>0, <1>9, <1>6
  <2>2. \A o \in at .. at + s - 1 : o \in Offset
    <3>1. at \in Nat /\ at + s <= BufferSize /\ BufferSize \in Nat /\ s \in Nat
      BY <1>0
    <3> QED
      BY <3>1 DEF Offset
  <2>3. \A o \in at .. at + s - 1 : mem'[o] = new
    BY <2>2
  <2> QED
    BY <1>0, <1>2, <1>3, <2>1, <2>3 DEF LaidOut
<1> QED
  BY <1>2, <1>3, <1>5, <1>6

\* The walk goes from entry to entry.
LEMMA WalkLaid ==
  ASSUME BufferTypeOK, NEW lo \in Entry, NEW hi \in lo .. MaxEntries, NEW t \in Entry,
         LaidOut(lo, hi, t), firstEntry = Begins(lo), lastInBufferEntry = Begins(t)
  PROVE  Walk(hi - lo + 1) = [i \in 1 .. hi - lo + 1 |-> Begins(lo - 1 + i)]
<1> DEFINE n == hi - lo + 1
           w == [i \in 1 .. n |-> Begins(lo - 1 + i)]
<1>1. lo \in Nat /\ hi \in Entry /\ n \in Nat /\ n > 0 /\ MaxEntries \in Nat
  BY EntryNumbers DEF Entry
<1>2. w[1] = firstEntry
  BY <1>1
<1>3. ASSUME NEW i \in 2 .. n PROVE w[i] = After(w[i - 1], lastInBufferEntry)
  <2>1. PICK e \in lo .. hi - 1 : e = lo - 1 + (i - 1) /\ e + 1 = lo - 1 + i
    BY <1>1
  <2>2. w[i] = Begins(e + 1) /\ w[i - 1] = Begins(e)
    BY <1>1, <2>1
  <2>3. e \in lo .. hi /\ t \in lo .. hi
    BY <1>1, <2>1 DEF LaidOut
  <2>4. (Begins(e) = Begins(t) <=> e = t) /\ SizeAt(Begins(e)) = header[e].size
    BY <1>1, <2>3, HeaderFound
  <2>5. Begins(e + 1) = IF e = t THEN 0 ELSE Begins(e) + SizeAt(Begins(e))
    BY <2>4 DEF LaidOut, Begins, Ends
  <2> QED
    BY <2>2, <2>4, <2>5 DEF After
<1>4. WalksAs(n, w)
  <2> HIDE DEF n
  <2> QED
    BY <1>2, <1>3 DEF WalksAs
<1> QED
  BY <1>1, <1>4, WalkIs

\* The entries up to the end of the buffer are counted: those up to t.
LEMMA UntilEndLaid ==
  ASSUME BufferTypeOK, NEW lo \in Entry, NEW hi \in Entry, NEW t \in Entry, LaidOut(lo, hi, t),
         firstEntry = Begins(lo), lastInBufferEntry = Begins(t), entryCounter = hi - lo + 1
  PROVE  UntilEnd = t - lo + 1
<1> DEFINE n == entryCounter
<1>1. t \in lo .. hi /\ lo \in Nat /\ hi \in Nat /\ n \in Nat /\ hi \in lo .. MaxEntries
  BY EntryNumbers DEF LaidOut, Entry
<1>2. Places = [i \in 1 .. n |-> Begins(lo - 1 + i)]
  BY <1>1, WalkLaid DEF Places
<1>3. \A j \in 1 .. n : Places[j] = lastInBufferEntry <=> j = t - lo + 1
  <2> TAKE j \in 1 .. n
  <2>1. lo - 1 + j \in lo .. hi
    BY <1>1
  <2>2. Begins(lo - 1 + j) = Begins(t) <=> lo - 1 + j = t
    BY <1>1, <2>1, HeaderFound
  <2> QED
    BY <1>1, <1>2, <2>2
<1>4. {i \in 1 .. n : \A j \in 1 .. i - 1 : Places[j] # lastInBufferEntry} = 1 .. t - lo + 1
  BY <1>1, <1>3
<1>5. Cardinality(1 .. t - lo + 1) = t - lo + 1
  BY <1>1, FS_Interval
<1> QED
  BY <1>4, <1>5 DEF UntilEnd

\* What the caller of Placed gets: the entries from lo on are kept, the new one goes to a
\* place where it fits beside them, and the pointers are theirs.
PlacedRight(s, hi, u, lo, t) ==
  LET placed == Placed(s)
      at     == placed.at
      new    == hi + 1
  IN /\ lo \in OldestId .. new /\ t \in lo .. new
     /\ at \in Nat /\ at + s <= BufferSize /\ placed.ring.count = new - lo
     /\ Beside(lo, hi, u, t, at, s)
     /\ placed.ring.first = IF lo = new THEN at ELSE Begins(lo)
     /\ t = new => placed.ring.lastIn <= at
     /\ t <= hi => placed.ring.lastIn = Begins(t)

\* Where the code puts an entry of size s.
LEMMA PlacedIsRight ==
  ASSUME BufferTypeOK, entryCounter > 0, NEW old \in Entry, old = OldestId,
         NEW hi \in Entry, hi = NewestId, NEW u \in Entry, LaidOut(old, hi, u),
         firstEntry = Begins(old), lastEntry = Begins(hi),
         lastInBufferEntry = Begins(u), NEW s \in EntrySizes
  PROVE  \E lo, t \in 1 .. hi + 1 : PlacedRight(s, hi, u, lo, t)
<1> DEFINE n == entryCounter
           next == Ends(hi)
           fits == next + s <= BufferSize
<1>1. /\ old \in Entry /\ old \in Nat /\ old >= 1 /\ hi \in Nat
      /\ u \in old .. hi /\ n = hi - old + 1
      /\ MaxEntries \in Nat /\ BufferSize \in Nat /\ s \in Nat /\ s > 0 /\ 2 * s <= BufferSize
  BY EntryNumbers DEF LaidOut, OldestId, NewestId, Entry, BufferTypeOK
<1>2. \A e \in old .. hi : /\ e \in Entry /\ Begins(e) \in Nat /\ Ends(e) \in Nat
                           /\ Begins(e) < Ends(e) /\ Ends(e) <= BufferSize
                           /\ header[e].size \in EntrySizes
                           /\ Ends(e) = Begins(e) + header[e].size
  BY <1>1, EntryNumbers DEF LaidOut, Entry
<1>3. \A e, f \in old .. hi :
        e < f => IF e <= u /\ u < f THEN Ends(f) <= Begins(e) ELSE Ends(e) <= Begins(f)
  BY DEF LaidOut
<1>4. \A e \in old .. hi - 1 : Begins(e + 1) = IF e = u THEN 0 ELSE Ends(e)
  BY DEF LaidOut
<1>5. next = lastEntry + SizeAt(lastEntry)
  BY <1>1, HeaderFound DEF Ends, Begins
<1>6. next <= firstEntry <=> u # hi
  <2>1. CASE old = hi
    BY <1>1, <1>2, <2>1
  <2>2. CASE old # hi
    BY <1>1, <1>2, <1>3, <2>2
  <2> QED
    BY <2>1, <2>2
<1>7. CASE fits /\ u = hi
  <2>1. Placed(s) = [at |-> next, ring |-> Rest(firstEntry, lastInBufferEntry, n, FALSE)]
    BY <1>1, <1>2, <1>5, <1>6, <1>7 DEF Placed, Rest
  <2>2. PlacedRight(s, hi, u, old, hi + 1)
    BY <1>1, <1>2, <1>7, <2>1 DEF PlacedRight, Beside, Rest
  <2> QED
    BY <1>1, <2>2
<1>8. CASE fits /\ u # hi
  <2> DEFINE r == Evict(next, s, Rest(Begins(old), Begins(u), n, FALSE))
  <2>1. Placed(s) = [at |-> next, ring |-> r]
    BY <1>1, <1>5, <1>6, <1>8 DEF Placed, Rest
  <2>2. Leaves(r, next, s, old, u, n)
    <3>1. \A e \in old .. u - 1 : Begins(e + 1) = Ends(e)
      BY <1>1, <1>4
    <3>2. next \in Nat /\ n \in Nat /\ u - old + 1 <= n /\ old \in old .. hi
      BY <1>1, <1>2
    <3> QED
      BY <1>1, <3>1, <3>2, EvictLeaves
  <2> HIDE DEF r
  <2>3. ASSUME NEW k \in old .. u, next + s <= Begins(k), r.first = Begins(k),
               r.lastIn = Begins(u), r.count = n - (k - old)
        PROVE  PlacedRight(s, hi, u, k, u) /\ k \in 1 .. hi + 1 /\ u \in 1 .. hi + 1
    BY <1>1, <1>2, <1>8, <2>1, <2>3 DEF PlacedRight, Beside
  <2>4. ASSUME r.first = 0, r.lastIn = next, r.count = n - (u - old + 1)
        PROVE  PlacedRight(s, hi, u, u + 1, hi + 1) /\ u + 1 \in 1 .. hi + 1
    <3>1. u + 1 <= hi /\ Begins(u + 1) = 0 /\ u + 1 # hi + 1
      BY <1>1, <1>4, <1>8
    <3> QED
      BY <1>1, <1>2, <1>8, <2>1, <2>4, <3>1 DEF PlacedRight, Beside
  <2> QED
    BY <1>1, <2>2, <2>3, <2>4 DEF Leaves
<1>9. CASE ~fits
  <2>1. PICK first \in old .. hi : first = IF u = hi THEN old ELSE u + 1
    BY <1>1
  <2> DEFINE c == hi - first + 1
             r == Evict(0, s, Rest(Begins(first), Begins(hi), c, FALSE))
  <2>2. u # hi => Begins(first) = 0 /\ first = u + 1
    BY <1>1, <1>4, <2>1
  <2>3. u # hi => Begins(hi) > 0
    BY <1>1, <1>2, <1>9, EntryNumbers
  <2>4. UntilEnd = u - old + 1
    BY <1>1, UntilEndLaid
  <2>5. Placed(s) = [at |-> 0, ring |-> r]
    <3>1. CASE u = hi
      <4>1. c = n /\ Begins(first) = firstEntry /\ Begins(hi) = lastInBufferEntry
            /\ lastEntry = lastInBufferEntry /\ Begins(first) >= 0
        BY <1>1, <1>2, <2>1, <3>1
      <4>2. ~(next <= firstEntry)
        BY <1>6, <3>1
      <4>3. /\ ~(lastEntry + SizeAt(lastEntry) + s <= BufferSize) /\ 0 <= firstEntry
            /\ ~(lastEntry + SizeAt(lastEntry) <= firstEntry) /\ entryCounter # 0
            /\ r = Evict(0, s, Rest(firstEntry, lastInBufferEntry, entryCounter, FALSE))
        BY <1>1, <1>2, <1>5, <1>9, <2>1, <3>1, <4>1, <4>2
      <4> HIDE DEF r
      <4> QED
        BY <4>1, <4>3, Zenon DEF Placed
    <3>2. CASE u # hi
      <4>1. c = n - UntilEnd /\ next <= firstEntry
        BY <1>1, <1>6, <2>2, <2>4, <3>2
      <4>2. /\ ~(lastEntry + SizeAt(lastEntry) + s <= BufferSize) /\ 0 <= 0
            /\ lastEntry + SizeAt(lastEntry) <= firstEntry /\ entryCounter # 0
            /\ lastEntry > 0
        BY <1>1, <1>5, <1>9, <2>3, <3>2, <4>1
      <4>3. r = Evict(0, s, Rest(0, lastEntry, n - UntilEnd, FALSE))
        BY <2>2, <3>2, <4>1
      <4> HIDE DEF r
      <4> QED
        BY <4>2, <4>3, Zenon DEF Placed
    <3> QED
      BY <3>1, <3>2
  <2>6. Leaves(r, 0, s, first, hi, c)
    <3>1. \A e \in first .. hi - 1 : Begins(e + 1) = Ends(e)
      BY <1>1, <1>4, <2>1
    <3>2. c \in Nat /\ hi - first + 1 <= c /\ hi \in first .. hi /\ 0 \in Nat
      BY <1>1
    <3> QED
      BY <1>1, <3>1, <3>2, EvictLeaves
  <2> HIDE DEF r
  <2>7. ASSUME NEW k \in first .. hi, 0 + s <= Begins(k), r.first = Begins(k),
               r.lastIn = Begins(hi), r.count = c - (k - first)
        PROVE  PlacedRight(s, hi, u, k, hi) /\ k \in 1 .. hi + 1
    BY <1>1, <1>2, <2>1, <2>5, <2>7 DEF PlacedRight, Beside
  <2>8. ASSUME r.first = 0, r.lastIn = 0, r.count = c - (hi - first + 1)
        PROVE  PlacedRight(s, hi, u, hi + 1, hi + 1)
    BY <1>1, <1>2, <2>1, <2>5, <2>8 DEF PlacedRight, Beside
  <2> QED
    BY <1>1, <2>6, <2>7, <2>8 DEF Leaves
<1> QED
  BY <1>7, <1>8, <1>9

\* What an entry is added to: nothing, or what is laid out.
LEMMA PlacedOnSomething ==
  ASSUME BufferInv, NEW new \in Entry, new = entryId, NEW s \in EntrySizes
  PROVE  \E old \in 1 .. new, u \in 0 .. new, lo, t \in 1 .. new :
           /\ old <= lo /\ (lo = new \/ LaidOut(old, new - 1, u))
           /\ PlacedRight(s, new - 1, u, lo, t)
<1> USE DEF BufferInv
<1>1. new \in Nat /\ new >= 1 /\ s \in Nat /\ s <= BufferSize /\ entryCounter \in Nat
      /\ entryCounter <= new - 1 /\ Entry = 1 .. MaxEntries /\ new = entryId
      /\ MaxEntries \in Nat /\ new <= MaxEntries + 1
  BY EntryNumbers DEF Entry, BufferTypeOK
<1>2. CASE entryCounter = 0
  <2>1. Placed(s) = [at |-> 0, ring |-> Rest(0, 0, 0, FALSE)]
    BY <1>2 DEF Placed
  <2>2. PlacedRight(s, new - 1, 0, new, new)
    BY <1>1, <1>2, <2>1 DEF PlacedRight, Beside, Rest, OldestId
  <2>3. new \in 1 .. new /\ 0 \in 0 .. new /\ new <= new
    BY <1>1
  <2> QED
    BY <2>2, <2>3, Zenon
<1>3. CASE entryCounter # 0
  <2>1. PICK old \in Entry : old = OldestId /\ old >= 1 /\ old <= new - 1
    BY <1>1, <1>3 DEF OldestId
  <2>2. PICK hi \in Entry : hi = NewestId /\ hi = new - 1
    BY <1>1, <1>3 DEF NewestId
  <2>3. PICK u \in Entry : /\ LaidOut(old, hi, u) /\ firstEntry = Begins(old)
                           /\ lastEntry = Begins(hi) /\ lastInBufferEntry = Begins(u)
    <3>1. entryCounter > 0 /\ PointersLaid
      BY <1>1, <1>3
    <3> QED
      BY <2>1, <2>2, <3>1 DEF PointersLaid
  <2>4. u \in old .. hi
    BY <2>3 DEF LaidOut
  <2>5. \E lo, t \in 1 .. hi + 1 : PlacedRight(s, hi, u, lo, t)
    <3>1. entryCounter > 0 /\ BufferTypeOK
      BY <1>1, <1>3
    <3> QED
      BY <2>1, <2>2, <2>3, <3>1, PlacedIsRight
  <2>6. PICK lo \in 1 .. new, t \in 1 .. new : PlacedRight(s, hi, u, lo, t)
    BY <1>1, <2>2, <2>5
  <2>7. old <= lo
    <3>1. lo \in OldestId .. hi + 1
      BY <2>6 DEF PlacedRight
    <3> QED
      BY <2>1, <2>2, <3>1
  <2>8. old \in 1 .. new /\ u \in 0 .. new
    BY <1>1, <2>1, <2>2, <2>4
  <2> QED
    BY <2>2, <2>3, <2>6, <2>7, <2>8
<1> QED
  BY <1>2, <1>3

\* MessageQueue_enqueueASDU keeps the buffer in order, and of the old entries all from
\* some entry on.
LEMMA EnqueueLaid ==
  ASSUME BufferInv, NEW new \in Entry, new = entryId, NEW s \in EntrySizes, Enqueue(s)
  PROVE  /\ BufferInv' /\ header'[new].state = "waiting"
         /\ \A e \in 1 .. new - 1 : header'[e] = header[e]
         /\ \E lo \in OldestId .. new : entryCounter' = new - lo + 1
<1> USE DEF BufferInv
<1>1. new \in Nat /\ new >= 1 /\ new <= MaxEntries /\ s \in Nat /\ s > 0 /\ entryCounter \in Nat
      /\ Entry = 1 .. MaxEntries /\ MaxEntries \in Nat /\ OldestId = new - entryCounter
  BY EntryNumbers DEF Entry, BufferTypeOK, OldestId
<1>2. PICK old \in 1 .. new, u \in 0 .. new, lo \in 1 .. new, t \in 1 .. new :
        /\ old <= lo /\ (lo = new \/ LaidOut(old, new - 1, u))
        /\ PlacedRight(s, new - 1, u, lo, t)
  BY PlacedOnSomething
<1>3. PICK at \in Nat : at = Placed(s).at /\ at + s <= BufferSize
  BY <1>2 DEF PlacedRight
<1>4. /\ lo >= OldestId /\ t \in lo .. new /\ Placed(s).ring.count = new - lo
      /\ Placed(s).ring.first = IF lo = new THEN at ELSE Begins(lo)
      /\ t = new => Placed(s).ring.lastIn <= at
      /\ t <= new - 1 => Placed(s).ring.lastIn = Begins(t)
      /\ Beside(lo, new - 1, u, t, at, s)
  BY <1>1, <1>2, <1>3 DEF PlacedRight
<1>5. /\ header' = [header EXCEPT ![new] = [at |-> at, size |-> s, state |-> "waiting"]]
      /\ mem' = [o \in Offset |-> IF o \in at .. at + s - 1 THEN new ELSE mem[o]]
      /\ firstEntry' = Placed(s).ring.first /\ lastEntry' = at
      /\ lastInBufferEntry' = IF at > Placed(s).ring.lastIn THEN at
                              ELSE Placed(s).ring.lastIn
      /\ entryCounter' = Placed(s).ring.count + 1 /\ entryId' = new + 1
      /\ pending' = pending
  BY <1>3 DEF Enqueue
<1>6. /\ LaidOut(lo, new, t)'
      /\ Begins(new)' = at /\ \A e \in 1 .. new - 1 : Begins(e)' = Begins(e)
  <2>1. PICK last : last = new - 1
    OBVIOUS
  <2>2. lo \in 1 .. new /\ t \in lo .. new /\ old \in 1 .. lo /\ u \in Nat
    BY <1>1, <1>2, <1>4
  <2>3. (lo = new \/ LaidOut(old, last, u)) /\ Beside(lo, last, u, t, at, s)
    BY <1>2, <1>4, <2>1
  <2>4. BufferTypeOK /\ new \in Entry /\ new = entryId /\ at \in Nat /\ at + s <= BufferSize
    BY <1>3
  <2> QED
    BY <1>5, <2>1, <2>2, <2>3, <2>4, PutIn
<1>7. entryCounter' = new - lo + 1 /\ OldestId' = lo /\ NewestId' = new
  BY <1>1, <1>2, <1>4, <1>5 DEF OldestId, NewestId
<1>8. header'[new].state = "waiting" /\ \A e \in 1 .. new - 1 : header'[e] = header[e]
  BY <1>1, <1>5 DEF BufferTypeOK
<1>9. BufferTypeOK'
  <2>1. header' \in [Entry -> [at : Nat, size : Nat \ {0},
                              state : {"waiting", "sent", "confirmed"}]]
    <3>1. [at |-> at, size |-> s, state |-> "waiting"]
            \in [at : Nat, size : Nat \ {0}, state : {"waiting", "sent", "confirmed"}]
      BY <1>1, <1>3
    <3> QED
      BY <1>5, <3>1 DEF BufferTypeOK
  <2>2. mem' \in [Offset -> 0 .. MaxEntries]
    BY <1>1, <1>5 DEF BufferTypeOK
  <2> QED
    <3>1. entryId' \in 1 .. MaxEntries + 1 /\ entryCounter' \in 0 .. entryId' - 1
      BY <1>1, <1>2, <1>5, <1>7
    <3>2. pending' \subseteq 1 .. entryId' - 1
      BY <1>1, <1>5 DEF BufferTypeOK
    <3> QED
      BY <2>1, <2>2, <3>1, <3>2 DEF BufferTypeOK
<1>10. PointersLaid'
  <2>1. firstEntry' = Begins(lo)'
    BY <1>1, <1>4, <1>5, <1>6
  <2>2. lastInBufferEntry' = Begins(t)'
    <3>1. CASE t = new
      BY <1>4, <1>5, <1>6, <3>1, EntryNumbers
    <3>2. CASE t # new
      <4>1. t < new /\ t \in 1 .. new - 1 /\ t \in lo .. new /\ new \in lo .. new
        BY <1>1, <1>2, <1>4, <3>2
      <4>2. Ends(new)' <= Begins(t)'
        BY <1>6, <4>1 DEF LaidOut
      <4>3. Ends(new)' = at + s
        BY <1>5, <1>1 DEF Ends, BufferTypeOK
      <4> QED
        <5>1. Begins(t)' = Begins(t) /\ Begins(t) \in Nat
          BY <1>1, <1>6, <4>1, EntryNumbers
        <5>2. ~(at > Begins(t))
          BY <1>1, <1>3, <4>2, <4>3, <5>1
        <5>3. Placed(s).ring.lastIn = Begins(t)
          BY <1>1, <1>4, <4>1
        <5> QED
          BY <1>5, <5>1, <5>2, <5>3
    <3> QED
      BY <3>1, <3>2
  <2>3. \E x \in Entry : /\ LaidOut(lo, new, x)' /\ firstEntry' = Begins(lo)'
                         /\ lastEntry' = Begins(new)' /\ lastInBufferEntry' = Begins(x)'
    <3>1. t \in Entry /\ lastEntry' = Begins(new)'
      BY <1>1, <1>2, <1>5, <1>6
    <3> QED
      BY <1>6, <2>1, <2>2, <3>1
  <2> QED
    BY <1>7, <2>3 DEF PointersLaid, LaidOut, Begins, Ends
<1> QED
  BY <1>1, <1>4, <1>7, <1>8, <1>9, <1>10

\* The number of the i-th entry, the oldest one first.
Nth(i) == OldestId - 1 + i

\* The walk finds the entries by their places, and each is the one it should be.
LEMMA EntriesFound ==
  ASSUME BufferInv, NEW i \in 1 .. entryCounter
  PROVE  /\ Nth(i) \in Entry /\ Nth(i) \in OldestId .. NewestId /\ Places[i] = Begins(Nth(i))
         /\ mem[Places[i]] = Nth(i) /\ HeaderAt(Places[i]) = header[Nth(i)]
         /\ Places[i] \in Offset /\ (Places[i] = firstEntry <=> i = 1)
<1>1. /\ MaxEntries \in Nat /\ entryId \in Nat /\ entryCounter \in Nat /\ entryCounter > 0
      /\ Entry = 1 .. MaxEntries
      /\ entryCounter <= entryId - 1 /\ entryId <= MaxEntries + 1 /\ i \in Nat
      /\ OldestId = entryId - entryCounter /\ NewestId = entryId - 1
  BY EntryNumbers DEF BufferInv, BufferTypeOK, Entry, OldestId, NewestId
<1>2. PICK lo \in Entry : lo = OldestId
  BY <1>1
<1>3. PICK hi \in Entry : hi = NewestId /\ hi \in lo .. MaxEntries
  BY <1>1, <1>2
<1>4. PICK t \in Entry : /\ LaidOut(lo, hi, t) /\ firstEntry = Begins(lo)
                         /\ lastInBufferEntry = Begins(t)
  BY <1>1, <1>2, <1>3 DEF BufferInv, PointersLaid
<1>5. BufferTypeOK
  BY DEF BufferInv
<1>6. Nth(i) = lo - 1 + i /\ Nth(i) \in lo .. hi /\ Nth(i) \in Entry /\ lo \in lo .. hi
      /\ hi - lo + 1 = entryCounter
  BY <1>1, <1>2, <1>3 DEF Nth
<1>7. Places[i] = Begins(Nth(i))
  <2>1. Walk(hi - lo + 1) = [k \in 1 .. hi - lo + 1 |-> Begins(lo - 1 + k)]
    BY <1>3, <1>4, <1>5, WalkLaid
  <2> QED
    BY <1>6, <2>1 DEF Places
<1>8. PICK e \in lo .. hi : e = Nth(i)
  BY <1>6
<1>9. /\ Begins(e) \in Offset /\ mem[Begins(e)] = e /\ HeaderAt(Begins(e)) = header[e]
      /\ Begins(lo) = Begins(e) => lo = e
  BY <1>4, <1>5, <1>6, HeaderFound
<1>10. i = 1 <=> lo = e
  BY <1>1, <1>2, <1>6, <1>8
<1> QED
  BY <1>2, <1>3, <1>4, <1>6, <1>7, <1>8, <1>9, <1>10

\* Entries that are not moved or written over stay laid out.
LEMMA LaidStays ==
  ASSUME BufferTypeOK, mem' = mem, NEW lo \in Entry, NEW hi \in Entry, NEW t \in Entry,
         LaidOut(lo, hi, t),
         \A e \in Entry : header'[e].at = header[e].at /\ header'[e].size = header[e].size
  PROVE  LaidOut(lo, hi, t)' /\ \A e \in Entry : Begins(e)' = Begins(e)
<1>1. Entry = 1 .. MaxEntries /\ MaxEntries \in Nat
  BY EntryNumbers DEF Entry
<1>2. \A e \in Entry : Begins(e)' = Begins(e) /\ Ends(e)' = Ends(e)
                       /\ header'[e].size = header[e].size
  BY DEF Begins, Ends
<1>3. lo .. hi \subseteq Entry
  BY <1>1
<1>4. \A e \in lo .. hi - 1 : e + 1 \in Entry /\ e \in Entry
  BY <1>1
<1> QED
  BY <1>2, <1>3, <1>4 DEF LaidOut

\* A change of states moves nothing.
LEMMA StatesOnly ==
  ASSUME BufferInv, UNCHANGED <<pointers, entryId, mem>>,
         \A e \in Entry : header'[e].at = header[e].at /\ header'[e].size = header[e].size,
         header' \in [Entry -> [at : Nat, size : Nat \ {0},
                                state : {"waiting", "sent", "confirmed"}]],
         pending' \subseteq 1 .. entryId - 1
  PROVE  BufferInv'
<1>1. BufferTypeOK'
  BY DEF BufferInv, BufferTypeOK, pointers
<1>2. Entry = 1 .. MaxEntries /\ MaxEntries \in Nat
  BY EntryNumbers DEF Entry, BufferInv
<1>5. PointersLaid'
  <2> SUFFICES ASSUME entryCounter' > 0
               PROVE  PointersLaid'
    BY DEF PointersLaid
  <2>1. /\ entryId \in 1 .. MaxEntries + 1 /\ entryCounter \in 1 .. entryId - 1
        /\ entryId' = entryId /\ entryCounter' = entryCounter /\ firstEntry' = firstEntry
        /\ lastEntry' = lastEntry /\ lastInBufferEntry' = lastInBufferEntry
    BY DEF BufferInv, BufferTypeOK, pointers
  <2>2. PICK lo \in Entry : lo = OldestId /\ lo = OldestId'
    BY <1>2, <2>1 DEF OldestId
  <2>3. PICK hi \in Entry : hi = NewestId /\ hi = NewestId'
    BY <1>2, <2>1 DEF NewestId
  <2>4. PICK t \in Entry : /\ LaidOut(lo, hi, t)
                           /\ firstEntry = Begins(lo) /\ lastEntry = Begins(hi)
                           /\ lastInBufferEntry = Begins(t)
    BY <2>1, <2>2, <2>3 DEF BufferInv, PointersLaid
  <2>5. /\ LaidOut(lo, hi, t)' /\ firstEntry' = Begins(lo)' /\ lastEntry' = Begins(hi)'
        /\ lastInBufferEntry' = Begins(t)'
    <3>1. BufferTypeOK /\ mem' = mem
      BY DEF BufferInv
    <3> QED
      BY <2>1, <2>4, <3>1, LaidStays
  <2> QED
    BY <2>2, <2>3, <2>5 DEF PointersLaid, LaidOut, Begins, Ends
<1> QED
  BY <1>1, <1>5 DEF BufferInv

\* removeFirstEntry leaves the other entries in order.
LEMMA RemoveLaid ==
  ASSUME BufferInv, entryCounter > 0, RemoveFirstEntry, UNCHANGED <<entryId, mem>>,
         \A e \in Entry : header'[e].at = header[e].at /\ header'[e].size = header[e].size,
         header' \in [Entry -> [at : Nat, size : Nat \ {0},
                                state : {"waiting", "sent", "confirmed"}]],
         pending' \subseteq 1 .. entryId - 1
  PROVE  BufferInv'
<1>0. Entry = 1 .. MaxEntries /\ MaxEntries \in Nat /\ entryId \in 1 .. MaxEntries + 1
      /\ entryCounter \in 1 .. entryId - 1 /\ entryId' = entryId
      /\ entryCounter' = entryCounter - 1 /\ mem' = mem
  BY EntryNumbers DEF Entry, BufferInv, BufferTypeOK, RemoveFirstEntry
<1>1. BufferTypeOK'
  <2>1. entryCounter' \in 0 .. entryId' - 1
    BY <1>0
  <2> QED
    BY <1>0, <2>1 DEF BufferInv, BufferTypeOK
<1>2. BufferTypeOK
  BY DEF BufferInv
<1>4. PICK lo \in Entry : lo = OldestId
  BY <1>0 DEF OldestId
<1>5. PICK hi \in Entry : hi = NewestId /\ lo <= hi
  BY <1>0, <1>4 DEF NewestId, OldestId
<1>6. PICK t \in Entry : /\ LaidOut(lo, hi, t)
                         /\ firstEntry = Begins(lo) /\ lastEntry = Begins(hi)
                         /\ lastInBufferEntry = Begins(t)
  BY <1>0, <1>4, <1>5 DEF BufferInv, PointersLaid
<1>7. t \in lo .. hi /\ lo \in lo .. hi /\ hi \in lo .. hi
  BY <1>0, <1>4, <1>5, <1>6 DEF LaidOut
<1>8. /\ firstEntry = lastInBufferEntry <=> t = lo
      /\ firstEntry = lastEntry <=> hi = lo
      /\ SizeAt(firstEntry) = header[lo].size
  <2>1. /\ SizeAt(Begins(lo)) = header[lo].size
        /\ \A f \in lo .. hi : Begins(f) = Begins(lo) => f = lo
    BY <1>2, <1>6, <1>7, HeaderFound
  <2>2. (Begins(t) = Begins(lo) <=> t = lo) /\ (Begins(hi) = Begins(lo) <=> hi = lo)
    BY <1>7, <2>1, Zenon
  <2> QED
    BY <1>6, <2>1, <2>2
<1>9. OldestId' = lo + 1 /\ NewestId' = hi /\ entryCounter' = hi - lo
  <2>1. OldestId' = entryId' - entryCounter' /\ NewestId' = entryId' - 1
    BY DEF OldestId, NewestId
  <2>2. entryId \in Nat /\ entryCounter \in Nat /\ lo = entryId - entryCounter /\ hi = entryId - 1
    BY <1>0, <1>4, <1>5 DEF OldestId, NewestId
  <2>3. entryId' = entryId /\ entryCounter' = entryCounter - 1
    BY <1>0
  <2> QED
    BY <2>1, <2>2, <2>3
<1>10. PointersLaid'
  <2> SUFFICES ASSUME lo < hi
               PROVE  PointersLaid'
    BY <1>0, <1>4, <1>5, <1>9 DEF PointersLaid
  <2>1. PICK second \in Entry : second = lo + 1 /\ second \in lo .. hi
    BY <1>0, <1>4, <1>5
  <2>2. PICK u \in Entry : u = (IF t = lo THEN hi ELSE t) /\ u \in second .. hi
    BY <1>0, <1>7, <2>1
  <2>3. Begins(second) = IF t = lo THEN 0 ELSE Ends(lo)
    <3>1. lo \in lo .. hi - 1
      BY <1>0
    <3> QED
      BY <1>6, <2>1, <3>1 DEF LaidOut
  <2>4. firstEntry' = Begins(second)
    <3>1. Ends(lo) = Begins(lo) + header[lo].size
      BY DEF Begins, Ends
    <3>2. firstEntry' = IF t = lo THEN 0 ELSE firstEntry + SizeAt(firstEntry)
      BY <1>0, <1>8 DEF RemoveFirstEntry
    <3> QED
      BY <1>6, <1>8, <2>3, <3>1, <3>2
  <2>5. lastEntry' = Begins(hi) /\ lastInBufferEntry' = Begins(u)
    BY <1>6, <1>8, <2>2 DEF RemoveFirstEntry
  <2>6. LaidOut(second, hi, u)
    <3>1. \A e \in second .. hi : e \in lo .. hi /\ e > lo
      BY <1>0, <2>1
    <3>2. \A e \in second .. hi - 1 : e \in lo .. hi - 1 /\ (e = t <=> e = u)
      BY <1>0, <1>7, <2>1, <2>2
    <3>3. \A e, f \in second .. hi :
            e < f => ((e <= t /\ t < f) <=> (e <= u /\ u < f))
      BY <1>0, <1>7, <2>1, <2>2
    <3> QED
      BY <1>6, <2>2, <3>1, <3>2, <3>3 DEF LaidOut
  <2>7. LaidOut(second, hi, u)' /\ \A e \in Entry : Begins(e)' = Begins(e)
    BY <1>0, <1>2, <2>6, LaidStays
  <2>8. /\ firstEntry' = Begins(second)' /\ lastEntry' = Begins(hi)'
        /\ lastInBufferEntry' = Begins(u)'
    BY <2>4, <2>5, <2>7
  <2> QED
    BY <1>9, <2>1, <2>7, <2>8 DEF PointersLaid, LaidOut, Begins, Ends
<1> QED
  BY <1>1, <1>10 DEF BufferInv

\* Initially the buffer is in order.
LEMMA InitLaid == RingInit => BufferInv
<1> SUFFICES ASSUME RingInit PROVE BufferInv
  OBVIOUS
<1>1. MaxEntries \in Nat
  BY RingAssumption
<1> QED
  BY <1>1 DEF RingInit, BufferInv, BufferTypeOK, PointersLaid, NoHeader

States == {"waiting", "sent", "confirmed"}

\* Entries with other states.
LEMMA StateSet ==
  ASSUME BufferInv, NEW e \in Entry, NEW st \in States,
         header' = [header EXCEPT ![e].state = st]
  PROVE  /\ header' \in [Entry -> [at : Nat, size : Nat \ {0},
                                   state : {"waiting", "sent", "confirmed"}]]
         /\ \A f \in Entry : header'[f].at = header[f].at /\ header'[f].size = header[f].size
         /\ \A f \in Entry : header'[f].state = IF f = e THEN st ELSE header[f].state
BY DEF BufferInv, BufferTypeOK, States

\* Every step keeps the buffer in order.
LEMMA StepLaid ==
  BufferInv /\ [RingNext]_ringVars => BufferInv'
<1> SUFFICES ASSUME BufferInv, [RingNext]_ringVars PROVE BufferInv'
  OBVIOUS
<1>0. pending \subseteq 1 .. entryId - 1 /\ entryId \in 1 .. MaxEntries + 1
      /\ MaxEntries \in Nat /\ Entry = 1 .. MaxEntries /\ entryCounter \in Nat
  BY EntryNumbers DEF BufferInv, BufferTypeOK, Entry
<1>1. ASSUME NEW s \in EntrySizes, Enqueue(s) PROVE BufferInv'
  <2>1. PICK new \in Entry : new = entryId
    BY <1>1 DEF Enqueue
  <2> QED
    BY <1>1, <2>1, EnqueueLaid
<1>2. CASE GetNextWaiting
  <2>1. PICK i \in 1 .. entryCounter :
          /\ header' = [header EXCEPT ![mem[Places[i]]].state = "sent"]
          /\ pending' = pending \cup {mem[Places[i]]}
    BY <1>2 DEF GetNextWaiting
  <2>2. PICK e \in Entry : e = mem[Places[i]] /\ e \in OldestId .. NewestId
    BY EntriesFound
  <2>3. pending' \subseteq 1 .. entryId - 1
    BY <1>0, <2>1, <2>2 DEF NewestId
  <2> QED
    BY <1>2, <2>1, <2>2, <2>3, StateSet, StatesOnly DEF GetNextWaiting, States
<1>3. ASSUME NEW e \in pending, MarkAsConfirmed(e) PROVE BufferInv'
  <2>1. e \in Entry /\ pending' \subseteq 1 .. entryId - 1 /\ UNCHANGED <<entryId, mem>>
    BY <1>0, <1>3 DEF MarkAsConfirmed
  <2>2. CASE ~(Plausible(e) /\ mem[header[e].at] = e)
    BY <1>3, <2>1, <2>2, StatesOnly DEF MarkAsConfirmed, BufferInv, BufferTypeOK
  <2>3. CASE Plausible(e) /\ mem[header[e].at] = e
    <3>1. header' = [header EXCEPT ![e].state = "confirmed"]
          /\ IF header[e].at = firstEntry THEN RemoveFirstEntry ELSE UNCHANGED pointers
      BY <1>3, <2>3 DEF MarkAsConfirmed
    <3>2. entryCounter > 0
      BY <2>3 DEF Plausible
    <3>3. /\ header' \in [Entry -> [at : Nat, size : Nat \ {0},
                                    state : {"waiting", "sent", "confirmed"}]]
          /\ \A f \in Entry : header'[f].at = header[f].at /\ header'[f].size = header[f].size
      BY <2>1, <3>1, StateSet DEF States
    <3> QED
      BY <2>1, <3>1, <3>2, <3>3, RemoveLaid, StatesOnly
  <2> QED
    BY <2>2, <2>3
<1>4. CASE SetWaiting
  BY <1>0, <1>4, StatesOnly DEF SetWaiting, BufferInv, BufferTypeOK
<1>5. CASE ReleaseAll
  BY <1>0, <1>5 DEF ReleaseAll, BufferInv, BufferTypeOK, PointersLaid
<1>6. CASE UNCHANGED ringVars
  BY <1>0, <1>6, StatesOnly DEF ringVars, pointers, BufferInv, BufferTypeOK
<1> QED
  BY <1>1, <1>2, <1>3, <1>4, <1>5, <1>6 DEF RingNext

\* In every reachable state the entries lie whole in the buffer, in order, and the
\* pointers are where the oldest, the newest and the last one before the end begin.
THEOREM BufferInOrder == RingSpec => []BufferInv
<1> QED
  BY InitLaid, StepLaid, PTL DEF RingSpec

\* EntriesIntact: the walk of the code visits exactly the newest entryCounter entries,
\* in order, each still whole, for every buffer size and all sizes of entries of which two
\* fit (MessageQueue_enqueueASDU, getNextWaitingASDU, markAsduAsConfirmed).
THEOREM EntriesStayIntact == RingSpec => []EntriesIntact
<1>1. BufferInv => EntriesIntact
  <2> SUFFICES ASSUME BufferInv, entryCounter > 0 PROVE EntriesIntact
    BY DEF EntriesIntact
  <2>1. /\ Entry = 1 .. MaxEntries /\ MaxEntries \in Nat /\ entryId \in 1 .. MaxEntries + 1
        /\ entryCounter \in 1 .. entryId - 1
    BY EntryNumbers DEF Entry, BufferInv, BufferTypeOK
  <2>2. PICK lo \in Entry : lo = OldestId
    BY <2>1 DEF OldestId
  <2>3. PICK hi \in Entry : hi = NewestId /\ lo <= hi
    BY <2>1, <2>2 DEF NewestId, OldestId
  <2>4. PICK t \in Entry : LaidOut(lo, hi, t) /\ lastEntry = Begins(hi)
    BY <2>1, <2>2, <2>3 DEF BufferInv, PointersLaid
  <2>5. Places[entryCounter] = lastEntry
    <3>1. entryCounter \in 1 .. entryCounter /\ Nth(entryCounter) = hi
      BY <2>1, <2>2, <2>3 DEF Nth, OldestId, NewestId
    <3> QED
      BY <2>4, <3>1, EntriesFound
  <2>6. ASSUME NEW i \in 1 .. entryCounter
        PROVE  LET e == entryId - 1 - entryCounter + i IN
               /\ e \in Entry /\ header[e].at = Places[i]
               /\ \A o \in Places[i] .. Places[i] + header[e].size - 1 :
                    o \in Offset /\ mem[o] = e
    <3>1. PICK e \in lo .. hi : e = Nth(i) /\ e \in Entry /\ Places[i] = Begins(e)
      BY <2>2, <2>3, EntriesFound
    <3>2. e = entryId - 1 - entryCounter + i
      BY <2>1, <3>1 DEF Nth, OldestId
    <3>3. /\ \A o \in Begins(e) .. Ends(e) - 1 : mem[o] = e
          /\ Begins(e) \in Nat /\ Ends(e) \in Nat /\ Ends(e) <= BufferSize
          /\ Ends(e) = Begins(e) + header[e].size /\ BufferSize \in Nat
          /\ header[e].size \in Nat
      BY <2>4, <3>1, EntryNumbers DEF LaidOut, BufferInv
    <3>4. \A o \in Begins(e) .. Ends(e) - 1 : o \in Offset /\ mem[o] = e
      BY <3>3 DEF Offset
    <3>5. /\ e \in Entry /\ header[e].at = Places[i]
          /\ \A o \in Places[i] .. Places[i] + header[e].size - 1 : o \in Offset /\ mem[o] = e
      <4>1. Begins(e) = Places[i] /\ Ends(e) = Places[i] + header[e].size
        BY <3>1, <3>3
      <4>2. header[e].at = Places[i]
        BY <4>1 DEF Begins
      <4>3. \A o \in Places[i] .. Places[i] + header[e].size - 1 : o \in Begins(e) .. Ends(e) - 1
        BY <3>3, <4>1
      <4> QED
        BY <3>1, <3>4, <4>2, <4>3
    <3> QED
      BY <3>2, <3>5
  <2> QED
    BY <2>5, <2>6 DEF EntriesIntact
<1> QED
  BY <1>1, BufferInOrder, PTL

\* The queue as a list of the entries laid out.
Listed == [i \in 1 .. entryCounter |-> [id |-> Nth(i), state |-> header[Nth(i)].state]]

SeenAsListed == Content = Listed

\* That is what its callers see.
LEMMA ContentListed == BufferInv => SeenAsListed
<1> SUFFICES ASSUME BufferInv PROVE SeenAsListed
  OBVIOUS
<1> QED
  BY EntriesFound DEF Content, Listed, SeenAsListed

\* What the list is, by its length and its elements.
LEMMA ListedIs ==
  ASSUME BufferInv
  PROVE  /\ entryCounter \in Nat /\ entryId \in Nat /\ Len(Listed) = entryCounter
         /\ DOMAIN Listed = 1 .. entryCounter /\ Listed \in Seq([id : Int, state : States])
         /\ \A i \in 1 .. entryCounter :
              Listed[i] = [id |-> Nth(i), state |-> header[Nth(i)].state]
<1>1. entryCounter \in Nat /\ entryId \in Nat
  BY EntryNumbers DEF BufferInv
<1>2. ASSUME NEW i \in 1 .. entryCounter
      PROVE  [id |-> Nth(i), state |-> header[Nth(i)].state] \in [id : Int, state : States]
  <2>1. Nth(i) \in Entry
    BY EntriesFound
  <2>2. Nth(i) \in Int
    BY <1>1 DEF Nth, OldestId
  <2>3. header[Nth(i)].state \in States
    BY <2>1 DEF BufferInv, BufferTypeOK, States
  <2> QED
    BY <2>2, <2>3
<1>3. Listed \in Seq([id : Int, state : States])
  BY <1>1, <1>2 DEF Listed
<1> QED
  BY <1>1, <1>3 DEF Listed

\* A new entry: some of the oldest leave the list and it is added at the end.
LEMMA AddsToList ==
  ASSUME BufferInv, NEW s \in EntrySizes, Enqueue(s)
  PROVE  /\ entryId' - 1 = (entryId - 1) + 1
         /\ \E n \in 0 .. Len(Listed) :
              Listed' = Append(SubSeq(Listed, n + 1, Len(Listed)),
                               [id |-> entryId' - 1, state |-> "waiting"])
<1>1. PICK new \in Entry : new = entryId
  BY DEF Enqueue
<1>2. /\ BufferInv' /\ header'[new].state = "waiting"
      /\ \A e \in 1 .. new - 1 : header'[e] = header[e]
      /\ \E lo \in OldestId .. new : entryCounter' = new - lo + 1
  BY <1>1, EnqueueLaid
<1>3. PICK lo \in OldestId .. new : entryCounter' = new - lo + 1
  BY <1>2
<1>4. /\ new \in Nat /\ entryCounter \in Nat /\ entryId' = new + 1
      /\ entryCounter <= new - 1 /\ OldestId = new - entryCounter /\ OldestId \in Nat
  BY <1>1, EntryNumbers DEF Enqueue, OldestId, BufferInv, BufferTypeOK
<1> DEFINE d == lo - OldestId
           kept == SubSeq(Listed, d + 1, entryCounter)
           entry == [id |-> new, state |-> "waiting"]
<1>5. d \in 0 .. entryCounter /\ lo = OldestId + d /\ entryCounter' = (entryCounter - d) + 1
  BY <1>3, <1>4
<1>6. /\ Listed \in Seq([id : Int, state : States]) /\ Len(Listed) = entryCounter
      /\ \A i \in 1 .. entryCounter :
           Listed[i] = [id |-> Nth(i), state |-> header[Nth(i)].state]
  BY ListedIs
<1>7. /\ kept \in Seq([id : Int, state : States]) /\ Len(kept) = entryCounter - d
      /\ \A i \in 1 .. entryCounter - d : kept[i] = Listed[d + i]
  BY <1>4, <1>5, <1>6, SubSeqProperties
<1>8. Listed' = [i \in 1 .. entryCounter' |->
                   [id |-> Nth(i)', state |-> header'[Nth(i)'].state]]
  BY DEF Listed
<1>9. Listed' = Append(kept, entry)
  <2>1. Append(kept, entry) = [i \in 1 .. (entryCounter - d) + 1 |->
                                 IF i = (entryCounter - d) + 1 THEN entry ELSE kept[i]]
    BY <1>5, <1>7
  <2>2. ASSUME NEW i \in 1 .. (entryCounter - d) + 1
        PROVE  [id |-> Nth(i)', state |-> header'[Nth(i)'].state]
                 = IF i = (entryCounter - d) + 1 THEN entry ELSE kept[i]
    <3>1. Nth(i)' = lo - 1 + i
      BY <1>3, <1>4, <1>5 DEF Nth, OldestId
    <3>2. CASE i = (entryCounter - d) + 1
      <4>1. lo - 1 + i = new
        BY <1>4, <1>5, <3>2
      <4> QED
        BY <1>2, <3>1, <3>2, <4>1
    <3>3. CASE i # (entryCounter - d) + 1
      <4>1. /\ d + i \in 1 .. entryCounter /\ i \in 1 .. entryCounter - d
            /\ lo - 1 + i \in 1 .. new - 1 /\ lo - 1 + i = OldestId - 1 + (d + i)
        BY <1>4, <1>5, <3>3
      <4>2. kept[i] = [id |-> lo - 1 + i, state |-> header[lo - 1 + i].state]
        BY <1>6, <1>7, <4>1 DEF Nth
      <4> QED
        BY <1>2, <3>1, <3>3, <4>1, <4>2
    <3> QED
      BY <3>2, <3>3
  <2> QED
    BY <1>5, <1>8, <2>1, <2>2
<1>10. entryId' - 1 = new /\ entryId' - 1 = (entryId - 1) + 1
  BY <1>1, <1>4
<1>11. d \in 0 .. Len(Listed)
  BY <1>5, <1>6
<1> HIDE DEF d
<1> QED
  BY <1>6, <1>9, <1>10, <1>11

\* The first waiting entry is handed out.
LEMMA HandsOutOfList ==
  ASSUME BufferInv, GetNextWaiting
  PROVE  /\ entryId' - 1 = entryId - 1
         /\ \E i \in 1 .. Len(Listed) :
              /\ Listed[i].state = "waiting"
              /\ \A j \in 1 .. i - 1 : Listed[j].state # "waiting"
              /\ Listed' = [Listed EXCEPT ![i].state = "sent"]
              /\ pending' = pending \cup {Listed[i].id}
<1>1. PICK i \in 1 .. entryCounter :
        /\ HeaderAt(Places[i]).state = "waiting"
        /\ \A j \in 1 .. i - 1 : HeaderAt(Places[j]).state # "waiting"
        /\ header' = [header EXCEPT ![mem[Places[i]]].state = "sent"]
        /\ pending' = pending \cup {mem[Places[i]]}
  BY DEF GetNextWaiting
<1>2. entryCounter' = entryCounter /\ entryId' = entryId
  BY DEF GetNextWaiting, pointers
<1>3. /\ entryCounter \in Nat /\ Len(Listed) = entryCounter /\ entryId \in Nat
      /\ \A j \in 1 .. entryCounter :
           Listed[j] = [id |-> Nth(j), state |-> header[Nth(j)].state]
  BY ListedIs
<1>4. \A j \in 1 .. entryCounter : /\ Nth(j) \in Entry /\ mem[Places[j]] = Nth(j)
                                   /\ HeaderAt(Places[j]) = header[Nth(j)]
  BY EntriesFound
<1>5. \A j \in 1 .. i - 1 : j \in 1 .. entryCounter
  BY <1>3
<1>6. Listed[i].state = "waiting" /\ \A j \in 1 .. i - 1 : Listed[j].state # "waiting"
  BY <1>1, <1>3, <1>4, <1>5
<1>7. \A j \in 1 .. entryCounter :
        Nth(j)' = Nth(j) /\ header'[Nth(j)].state = IF j = i THEN "sent" ELSE header[Nth(j)].state
  <2> TAKE j \in 1 .. entryCounter
  <2>1. Nth(j) = Nth(i) <=> j = i
    BY <1>3 DEF Nth, OldestId
  <2>2. header' = [header EXCEPT ![Nth(i)].state = "sent"]
    BY <1>1, <1>4
  <2>3. Nth(j)' = Nth(j)
    BY <1>2 DEF Nth, OldestId
  <2> QED
    BY <1>4, <2>1, <2>2, <2>3, StateSet DEF States
<1>8. Listed' = [j \in 1 .. entryCounter |-> [id |-> Nth(j)', state |-> header'[Nth(j)'].state]]
  BY <1>2 DEF Listed
<1>9. Listed' = [Listed EXCEPT ![i].state = "sent"]
  BY <1>1, <1>7, <1>8 DEF Listed
<1>10. pending' = pending \cup {Listed[i].id}
  BY <1>1, <1>3, <1>4
<1> QED
  BY <1>2, <1>3, <1>6, <1>9, <1>10

\* The list after the confirmation of e: without it, with it marked, or as it was.
ListConfirmed(e) ==
  IF Listed # <<>> /\ Listed[1].id = e THEN Tail(Listed)
  ELSE [i \in 1 .. Len(Listed) |->
          IF Listed[i].id = e THEN [Listed[i] EXCEPT !.state = "confirmed"] ELSE Listed[i]]

\* A confirmation marks the entry it is about, or takes it away at the front.
LEMMA ConfirmsInList ==
  ASSUME BufferInv, NEW e \in pending, MarkAsConfirmed(e)
  PROVE  /\ entryId' - 1 = entryId - 1
         /\ Listed' = ListConfirmed(e)
<1>1. entryId' = entryId
  BY DEF MarkAsConfirmed
<1>2. /\ entryCounter \in Nat /\ Len(Listed) = entryCounter /\ entryId \in Nat
      /\ Listed \in Seq([id : Int, state : States])
      /\ \A j \in 1 .. entryCounter :
           Listed[j] = [id |-> Nth(j), state |-> header[Nth(j)].state]
  BY ListedIs
<1>3. e \in Nat /\ e <= entryId - 1 /\ e \in Entry /\ OldestId = entryId - entryCounter
  BY EntryNumbers DEF BufferInv, BufferTypeOK, Entry, OldestId
<1>4. CASE ~(Plausible(e) /\ mem[header[e].at] = e)
  <2>1. Listed' = Listed
    BY <1>1, <1>4 DEF MarkAsConfirmed, Listed, Nth, OldestId, pointers
  <2>2. ASSUME NEW i \in 1 .. entryCounter, Listed[i].id = e PROVE FALSE
    <3>1. e = Nth(i) /\ mem[Begins(e)] = e
      BY <1>2, <2>2, EntriesFound
    <3>2. mem[header[e].at] = e
      BY <3>1 DEF Begins
    <3>3. Plausible(e)
      BY <1>2, <1>3, <3>1 DEF Plausible, Nth
    <3> QED
      BY <1>4, <3>2, <3>3
  <2>3. ~(Listed # <<>> /\ Listed[1].id = e)
    BY <1>2, <2>2
  <2>4. Listed = [i \in 1 .. Len(Listed) |-> Listed[i]]
    BY <1>2
  <2>5. Listed = [i \in 1 .. Len(Listed) |->
                    IF Listed[i].id = e THEN [Listed[i] EXCEPT !.state = "confirmed"]
                    ELSE Listed[i]]
    BY <1>2, <2>2, <2>4
  <2> QED
    BY <1>1, <2>1, <2>3, <2>5 DEF ListConfirmed
<1>5. CASE Plausible(e) /\ mem[header[e].at] = e
  <2>1. header' = [header EXCEPT ![e].state = "confirmed"]
        /\ IF header[e].at = firstEntry THEN RemoveFirstEntry ELSE UNCHANGED pointers
    BY <1>5 DEF MarkAsConfirmed
  <2>2. PICK i \in 1 .. entryCounter : e = Nth(i)
    <3>1. PICK i \in Int : i = e - OldestId + 1
      BY <1>2, <1>3
    <3>2. entryId - 1 - e < entryCounter
      BY <1>5 DEF Plausible
    <3>3. i \in 1 .. entryCounter /\ e = OldestId - 1 + i
      BY <1>2, <1>3, <3>1, <3>2
    <3> QED
      BY <3>3 DEF Nth
  <2>3. header[e].at = firstEntry <=> i = 1
    BY <2>2, EntriesFound DEF Begins
  <2>4. \A j \in 1 .. entryCounter :
          /\ Nth(j) \in Entry
          /\ header'[Nth(j)].state = IF j = i THEN "confirmed" ELSE header[Nth(j)].state
    <3> TAKE j \in 1 .. entryCounter
    <3>1. Nth(j) = Nth(i) <=> j = i
      BY <1>2, <1>3 DEF Nth
    <3>2. Nth(j) \in Entry
      BY EntriesFound
    <3>3. \A f \in Entry : header'[f].state = IF f = e THEN "confirmed" ELSE header[f].state
      BY <1>3, <2>1, StateSet DEF States
    <3>4. header'[Nth(j)].state = IF Nth(j) = e THEN "confirmed" ELSE header[Nth(j)].state
      BY <3>2, <3>3
    <3> QED
      BY <2>2, <3>1, <3>2, <3>4
  <2>5. CASE i = 1
    <3>1. entryCounter' = entryCounter - 1
      BY <2>1, <2>3, <2>5 DEF RemoveFirstEntry
    <3>2. \A j \in 1 .. entryCounter - 1 : Nth(j)' = Nth(j + 1) /\ j + 1 \in 1 .. entryCounter
      <4>1. OldestId' = OldestId + 1 /\ OldestId \in Int
        BY <1>1, <1>2, <1>3, <3>1 DEF OldestId
      <4> TAKE j \in 1 .. entryCounter - 1
      <4>2. j \in Int /\ j + 1 \in 1 .. entryCounter
        BY <1>2
      <4>3. Nth(j)' = OldestId' - 1 + j
        BY DEF Nth
      <4> QED
        BY <4>1, <4>2, <4>3 DEF Nth
    <3>3. Listed' = [j \in 1 .. entryCounter - 1 |->
                       [id |-> Nth(j)', state |-> header'[Nth(j)'].state]]
      BY <3>1 DEF Listed
    <3>4. Tail(Listed) = [j \in 1 .. entryCounter - 1 |-> Listed[j + 1]]
      <4>1. Listed # <<>>
        BY <1>2, <2>2
      <4>2. /\ Tail(Listed) \in Seq([id : Int, state : States])
            /\ Len(Tail(Listed)) = entryCounter - 1
            /\ \A j \in 1 .. Len(Tail(Listed)) : Tail(Listed)[j] = Listed[j + 1]
        BY <1>2, <4>1, HeadTailProperties
      <4>3. PICK tail : tail = Tail(Listed)
        OBVIOUS
      <4>4. tail \in Seq([id : Int, state : States]) /\ Len(tail) = entryCounter - 1
        BY <4>2, <4>3
      <4>5. tail = [j \in 1 .. entryCounter - 1 |-> tail[j]]
        BY <4>4
      <4> QED
        BY <4>2, <4>3, <4>5
    <3>5. \A j \in 1 .. entryCounter - 1 :
            [id |-> Nth(j)', state |-> header'[Nth(j)'].state] = Listed[j + 1]
      <4> TAKE j \in 1 .. entryCounter - 1
      <4>1. j + 1 \in 1 .. entryCounter /\ j + 1 # i /\ Nth(j)' = Nth(j + 1)
        BY <1>2, <2>5, <3>2
      <4> QED
        BY <1>2, <2>4, <4>1
    <3>6. Listed' = Tail(Listed)
      BY <3>3, <3>4, <3>5
    <3>7. Listed # <<>> /\ Listed[1].id = e
      BY <1>2, <2>2, <2>5
    <3> QED
      BY <1>1, <3>6, <3>7 DEF ListConfirmed
  <2>6. CASE i # 1
    <3>1. entryCounter' = entryCounter
      BY <2>1, <2>3, <2>6 DEF pointers
    <3>2. \A j \in 1 .. entryCounter : Nth(j)' = Nth(j)
      BY <1>1, <3>1 DEF Nth, OldestId
    <3>3. Listed' = [j \in 1 .. entryCounter |->
                       [id |-> Nth(j)', state |-> header'[Nth(j)'].state]]
      BY <3>1 DEF Listed
    <3>4. \A j \in 1 .. entryCounter : Listed[j].id = e <=> j = i
      BY <1>2, <1>3, <2>2 DEF Nth
    <3>5. \A j \in 1 .. entryCounter :
            [id |-> Nth(j)', state |-> header'[Nth(j)'].state]
              = IF Listed[j].id = e THEN [Listed[j] EXCEPT !.state = "confirmed"] ELSE Listed[j]
      BY <1>2, <2>4, <3>2, <3>4
    <3>6. Listed' = [j \in 1 .. Len(Listed) |->
                       IF Listed[j].id = e THEN [Listed[j] EXCEPT !.state = "confirmed"]
                       ELSE Listed[j]]
      BY <1>2, <3>3, <3>5
    <3>7. ~(Listed # <<>> /\ Listed[1].id = e)
      <4>1. 1 \in 1 .. entryCounter
        BY <1>2, <2>2
      <4> QED
        BY <2>6, <3>4, <4>1
    <3> QED
      BY <1>1, <3>6, <3>7 DEF ListConfirmed
  <2> QED
    BY <2>5, <2>6
<1> QED
  BY <1>4, <1>5

\* What was sent waits again.
LEMMA PutsBackInList ==
  ASSUME BufferInv, SetWaiting
  PROVE  /\ entryId' - 1 = entryId - 1
         /\ Listed' = [i \in 1 .. Len(Listed) |->
                         IF Listed[i].state = "sent" THEN [Listed[i] EXCEPT !.state = "waiting"]
                         ELSE Listed[i]]
<1>1. entryCounter' = entryCounter /\ entryId' = entryId
  BY DEF SetWaiting, pointers
<1>2. /\ entryCounter \in Nat /\ Len(Listed) = entryCounter
      /\ \A j \in 1 .. entryCounter :
           Listed[j] = [id |-> Nth(j), state |-> header[Nth(j)].state]
  BY ListedIs
<1>3. \A j \in 1 .. entryCounter :
        /\ Nth(j)' = Nth(j)
        /\ header'[Nth(j)].state = IF header[Nth(j)].state = "sent" THEN "waiting"
                                   ELSE header[Nth(j)].state
  <2> TAKE j \in 1 .. entryCounter
  <2>1. Nth(j) \in Entry /\ mem[Places[j]] = Nth(j)
    BY EntriesFound
  <2>2. Nth(j)' = Nth(j)
    BY <1>1 DEF Nth, OldestId
  <2>3. header'[Nth(j)] = IF header[Nth(j)].state = "sent"
                            THEN [header[Nth(j)] EXCEPT !.state = "waiting"]
                          ELSE header[Nth(j)]
    BY <2>1 DEF SetWaiting
  <2> QED
    BY <2>1, <2>2, <2>3 DEF BufferInv, BufferTypeOK
<1>4. Listed' = [i \in 1 .. entryCounter |-> [id |-> Nth(i)', state |-> header'[Nth(i)'].state]]
  BY <1>1 DEF Listed
<1>5. \A i \in 1 .. entryCounter :
        [id |-> Nth(i)', state |-> header'[Nth(i)'].state]
          = IF Listed[i].state = "sent" THEN [Listed[i] EXCEPT !.state = "waiting"]
            ELSE Listed[i]
  BY <1>2, <1>3
<1> QED
  BY <1>1, <1>2, <1>4, <1>5

\* A step of the buffer is a step of the list, or none.
LEMMA StepListed ==
  BufferInv /\ BufferInv' /\ SeenAsListed /\ SeenAsListed' /\ [RingNext]_ringVars
    => [Fifo!Add \/ Fifo!HandOut \/ Fifo!Confirmed \/ Fifo!PutBack \/ Fifo!Drop]_Fifo!fifoVars
<1> SUFFICES ASSUME BufferInv, BufferInv', Content = Listed, Content' = Listed',
                    [RingNext]_ringVars
             PROVE  \/ Fifo!Add \/ Fifo!HandOut \/ Fifo!Confirmed \/ Fifo!PutBack \/ Fifo!Drop
                    \/ Content' = Content /\ entryId' - 1 = entryId - 1 /\ pending' = pending
  BY DEF Fifo!fifoVars, SeenAsListed
<1>1. ASSUME NEW s \in EntrySizes, Enqueue(s) PROVE Fifo!Add
  BY <1>1, AddsToList DEF Fifo!Add, Enqueue
<1>2. CASE GetNextWaiting
  BY <1>2, HandsOutOfList DEF Fifo!HandOut
<1>3. ASSUME NEW e \in pending, MarkAsConfirmed(e) PROVE Fifo!Confirmed
  <2>1. pending' \in {pending, pending \ {e}}
    BY <1>3 DEF MarkAsConfirmed
  <2> QED
    BY <1>3, <2>1, ConfirmsInList DEF Fifo!Confirmed, Fifo!ConfirmedList, ListConfirmed
<1>4. CASE SetWaiting
  BY <1>4, PutsBackInList DEF Fifo!PutBack, SetWaiting
<1>5. CASE ReleaseAll
  <2>1. entryCounter' = 0 /\ entryId' = entryId
    BY <1>5 DEF ReleaseAll
  <2>2. Listed' = <<>>
    BY <2>1 DEF Listed
  <2> QED
    BY <1>5, <2>1, <2>2 DEF Fifo!Drop, ReleaseAll
<1>6. CASE UNCHANGED ringVars
  BY <1>6 DEF ringVars, pointers, Listed, Nth, OldestId
<1> QED
  BY <1>1, <1>2, <1>3, <1>4, <1>5, <1>6 DEF RingNext

\* RingIsFifo: the buffer implements the list of EventFifo for every size of the buffer
\* and of the entries: whatever wraps around and whatever is evicted, only the oldest
\* entries are lost, none is reordered, and a confirmation reaches the entry it is about
\* or none (MessageQueue_enqueueASDU, getNextWaitingASDU, markAsduAsConfirmed).
THEOREM RingImplementsFifo == RingSpec => RingIsFifo
<1>1. RingInit => Fifo!FifoInit
  BY DEF RingInit, Fifo!FifoInit, Content
<1> QED
  BY <1>1, BufferInOrder, ContentListed, StepListed, PTL DEF RingSpec, RingIsFifo, Fifo!FifoSpec
=============================================================================
