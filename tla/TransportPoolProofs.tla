------------------------ MODULE TransportPoolProofs --------------------------
(***************************************************************************)
(* Proofs about TransportPool for every set of requests, connections and   *)
(* hosts and all settings: its types, with what each of its actions        *)
(* changes; and then what the pool promises a request: it never waits for  *)
(* a connection nobody will give it, the slots of MaxConnsPerHost are      *)
(* those in use, and a connection has one holder at a time.                *)
(***************************************************************************)
EXTENDS TransportPool, FiniteSetTheorems, TLAPS

-----------------------------------------------------------------------------
(* Queues, and the operators of the model that search and change them.       *)

\* Of some numbers one is the least ...
LEMMA LeastExists == ASSUME NEW S \in SUBSET Nat, S # {} PROVE \E m \in S : \A n \in S : m <= n
<1>1. \E m \in S : \A n \in S : ~ (<<n, m>> \in OpToRel(<, Nat))
  BY NatLessThanWellFounded, WFMin
<1>2. \A m, n \in Nat : <<n, m>> \in OpToRel(<, Nat) <=> n < m
  BY DEF OpToRel
<1>3. \E m \in S : \A n \in S : ~ (n < m)
  BY <1>1, <1>2, Zenon
<1> QED BY <1>3

\* ... and of some numbers up to n one is the greatest.
LEMMA GreatestExists ==
  ASSUME NEW n \in Nat, NEW S \in SUBSET (1..n), S # {} PROVE \E m \in S : \A k \in S : k <= m
<1> DEFINE T == {n - k : k \in S}
<1>1. T \in SUBSET Nat /\ T # {}
  <2>1. \A k \in S : k \in 1..n /\ n - k \in Nat OBVIOUS
  <2> QED BY <2>1
<1>2. PICK d \in T : \A e \in T : d <= e BY <1>1, LeastExists
<1>3. PICK m \in S : d = n - m BY <1>2
<1>4. \A k \in S : n - m <= n - k BY <1>2, <1>3
<1> QED BY <1>4

\* The elements of a sequence.
LEMMA RangeType ==
  ASSUME NEW S, NEW s \in Seq(S) PROVE Range(s) \subseteq S
<1>1. DOMAIN s = 1..Len(s)
  OBVIOUS
<1> QED BY <1>1 DEF Range

\* Contains says the same as membership of the range.
LEMMA ContainsIsInRange ==
  ASSUME NEW S, NEW s \in Seq(S), NEW e PROVE Contains(s, e) <=> e \in Range(s)
<1>1. DOMAIN s = 1..Len(s)
  OBVIOUS
<1> QED BY <1>1 DEF Contains, Range

\* The empty queue.
LEMMA RangeOfEmpty == Range(<<>>) = {} /\ IsInjective(<<>>)
BY DEF Range, IsInjective

\* A queue with an element more ...
LEMMA AppendFacts ==
  ASSUME NEW S, NEW s \in Seq(S), NEW e \in S
  PROVE  /\ Append(s, e) \in Seq(S) /\ Range(Append(s, e)) = Range(s) \cup {e}
         /\ IsInjective(s) /\ e \notin Range(s) => IsInjective(Append(s, e))
<1>1. /\ Append(s, e) \in Seq(S) /\ DOMAIN Append(s, e) = 1..Len(s)+1 /\ Len(s) \in Nat /\ DOMAIN s = 1..Len(s)
      /\ Append(s, e)[Len(s)+1] = e
      /\ \A i \in 1..Len(s) : Append(s, e)[i] = s[i]
  OBVIOUS
<1>2. Range(Append(s, e)) \subseteq Range(s) \cup {e} BY <1>1 DEF Range
<1>3. Range(s) \cup {e} \subseteq Range(Append(s, e))
  BY <1>1 DEF Range
<1>4. IsInjective(s) /\ e \notin Range(s) => IsInjective(Append(s, e))
  BY <1>1 DEF Range, IsInjective
<1> QED BY <1>1, <1>2, <1>3, <1>4

\* ... a part of a queue ...
LEMMA SubSeqFacts ==
  ASSUME NEW S, NEW s \in Seq(S), NEW m \in 1..Len(s)+1, NEW n \in 0..Len(s)
  PROVE  /\ SubSeq(s, m, n) \in Seq(S)
         /\ Len(SubSeq(s, m, n)) = IF m <= n THEN n - m + 1 ELSE 0
         /\ \A i \in 1..Len(SubSeq(s, m, n)) : SubSeq(s, m, n)[i] = s[m + i - 1]
         /\ Range(SubSeq(s, m, n)) \subseteq Range(s)
         /\ \A i \in m..n : s[i] \in Range(SubSeq(s, m, n))
         /\ IsInjective(s) => /\ IsInjective(SubSeq(s, m, n))
                              /\ \A i \in 1..Len(s) : s[i] \in Range(SubSeq(s, m, n)) => i \in m..n
<1> DEFINE t == SubSeq(s, m, n)
<1>1. /\ t \in Seq(S) /\ Len(t) = IF m <= n THEN n - m + 1 ELSE 0
      /\ \A i \in 1..Len(t) : t[i] = s[m + i - 1] /\ m + i - 1 \in m..n
  OBVIOUS
<1>2. DOMAIN t = 1..Len(t) /\ DOMAIN s = 1..Len(s) /\ Len(s) \in Nat /\ Len(t) \in Nat BY <1>1
<1> HIDE DEF t
<1>3. \A i \in 1..Len(t) : m + i - 1 \in 1..Len(s) BY <1>1, <1>2
<1>4. \A i \in m..n : t[i - m + 1] = s[i] /\ i - m + 1 \in 1..Len(t)
  BY <1>1
<1>5. Range(t) \subseteq Range(s) BY <1>1, <1>2, <1>3 DEF Range
<1>6. \A i \in m..n : s[i] \in Range(t) BY <1>2, <1>4 DEF Range
<1>7. ASSUME IsInjective(s) PROVE IsInjective(t)
  <2> SUFFICES ASSUME NEW a \in 1..Len(t), NEW b \in 1..Len(t), t[a] = t[b] PROVE a = b
    BY <1>2 DEF IsInjective
  <2>1. s[m + a - 1] = s[m + b - 1] BY <1>1
  <2>2. m + a - 1 = m + b - 1 BY <2>1, <1>3, <1>2, <1>7 DEF IsInjective
  <2> QED BY <2>2, <1>2
<1>8. ASSUME IsInjective(s), NEW i \in 1..Len(s), s[i] \in Range(t) PROVE i \in m..n
  BY <1>8, <1>2, <1>1, <1>3 DEF Range, IsInjective
<1> QED BY <1>1, <1>5, <1>6, <1>7, <1>8 DEF t

\* ... and a queue without one of its elements (connLRU.remove, removeIdleConnLocked).
LEMMA RemoveFirstFacts ==
  ASSUME NEW S, NEW s \in Seq(S), NEW e
  PROVE  /\ RemoveFirst(s, e) \in Seq(S) /\ Range(RemoveFirst(s, e)) \subseteq Range(s)
         /\ s = <<>> => RemoveFirst(s, e) = <<>>
         /\ Range(s) \ {e} \subseteq Range(RemoveFirst(s, e))
         /\ IsInjective(s) => /\ IsInjective(RemoveFirst(s, e))
                              /\ e \notin Range(RemoveFirst(s, e))
<1> DEFINE I == {i \in 1..Len(s) : s[i] = e}
           k == CHOOSE i \in I : \A j \in I : i <= j
           a == SubSeq(s, 1, k - 1)
           b == SubSeq(s, k + 1, Len(s))
<1>0. DOMAIN s = 1..Len(s) /\ Len(s) \in Nat OBVIOUS
<1>1. CASE I = {}
  <2>1. RemoveFirst(s, e) = s BY <1>1 DEF RemoveFirst
  <2> QED BY <2>1, <1>0, <1>1 DEF Range
<1>2. CASE I # {}
  <2>1. k \in I
    <3>1. I \in SUBSET Nat BY <1>0
    <3>2. \E i \in I : \A j \in I : i <= j BY <3>1, <1>2, LeastExists
    <3> QED BY <3>2
  <2>2. RemoveFirst(s, e) = a \o b
    BY <1>2 DEF RemoveFirst, RemoveAt, SelectInSeq, Min
  <2> HIDE DEF k, I
  <2>3. k \in 1..Len(s) /\ s[k] = e BY <2>1 DEF I
  <2>4. /\ a \in Seq(S) /\ b \in Seq(S) /\ Len(a) = k - 1 /\ Len(b) = Len(s) - k
        /\ Range(a) \subseteq Range(s) /\ Range(b) \subseteq Range(s)
        /\ \A i \in 1..k-1 : s[i] \in Range(a) /\ a[i] = s[i]
        /\ \A i \in k+1..Len(s) : s[i] \in Range(b)
        /\ \A i \in 1..Len(s)-k : b[i] = s[k+i]
    BY <2>3, SubSeqFacts
  <2> HIDE DEF a, b
  <2> DEFINE t == a \o b
  <2>5. /\ t \in Seq(S) /\ Len(t) = Len(s) - 1 /\ DOMAIN t = 1..Len(s)-1
        /\ \A i \in 1..k-1 : t[i] = s[i]
        /\ \A i \in k..Len(s)-1 : t[i] = s[i+1]
    <3>1. t \in Seq(S) /\ Len(t) = Len(s) - 1 /\ DOMAIN t = 1..Len(s)-1
      BY <2>4, <2>3
    <3>2. \A i \in 1..k-1 : t[i] = s[i] BY <2>3, <2>4
    <3>3. ASSUME NEW i \in k..Len(s)-1 PROVE t[i] = s[i+1]
      BY <2>3, <2>4
    <3> QED BY <3>1, <3>2, <3>3
  <2> HIDE DEF t
  <2>6. Range(t) \subseteq Range(s) BY SMTT(30), <2>5, <2>3, <1>0 DEF Range
  <2>7. ASSUME NEW i \in 1..Len(s), i # k PROVE s[i] \in Range(t)
    <3>1. CASE i < k
      <4>1. t[i] = s[i] /\ i \in 1..Len(s)-1 BY <3>1, <2>5, <2>3
      <4> QED BY <4>1, <2>5 DEF Range
    <3>2. CASE i > k
      <4>1. t[i-1] = s[i] /\ i - 1 \in 1..Len(s)-1 BY <3>2, <2>5, <2>3
      <4> QED BY <4>1, <2>5 DEF Range
    <3> QED BY <3>1, <3>2, <2>7, <2>3
  <2>8. Range(s) \ {e} \subseteq Range(t) BY <2>7, <2>3, <1>0 DEF Range
  <2> DEFINE at(i) == IF i < k THEN i ELSE i + 1
  <2>12. \A i \in 1..Len(s)-1 : at(i) \in 1..Len(s) /\ at(i) # k /\ t[i] = s[at(i)]
    BY <2>5, <2>3
  <2>13. \A i, j \in 1..Len(s)-1 : at(i) = at(j) => i = j
    BY <2>3
  <2> HIDE DEF at
  <2>9. IsInjective(s) => IsInjective(t) BY <2>12, <2>13, <2>5, <1>0 DEF IsInjective
  <2>10. IsInjective(s) => e \notin Range(t)
    BY <2>5, <2>12, <2>3, <1>0 DEF Range, IsInjective
  <2>11. s # <<>> BY <2>3
  <2> QED BY <2>2, <2>5, <2>6, <2>8, <2>9, <2>10, <2>11 DEF t
<1> QED BY <1>1, <1>2

\* FirstWaiting finds a waiting request whenever the queue has one ...
LEMMA FirstWaitingFacts ==
  ASSUME NEW q \in Seq(Wants), NEW wn
  PROVE  \/ /\ FirstWaiting(wn, q) = 0
            /\ \A i \in 1..Len(q) : ~Waiting(wn, q[i])
         \/ /\ FirstWaiting(wn, q) \in 1..Len(q)
            /\ Waiting(wn, q[FirstWaiting(wn, q)])
            /\ \A i \in 1..Len(q) : Waiting(wn, q[i]) => FirstWaiting(wn, q) <= i
<1> DEFINE live == {i \in DOMAIN q : Waiting(wn, q[i])}
<1>1. DOMAIN q = 1..Len(q) /\ Len(q) \in Nat OBVIOUS
<1>2. CASE live = {}
  <2>1. FirstWaiting(wn, q) = 0 BY <1>2 DEF FirstWaiting
  <2> QED BY <1>1, <1>2, <2>1
<1>3. CASE live # {}
  <2>1. FirstWaiting(wn, q) = CHOOSE i \in live : \A j \in live : i <= j BY <1>3 DEF FirstWaiting
  <2>2. live \in SUBSET Nat BY <1>1
  <2>3. \E i \in live : \A j \in live : i <= j BY <1>3, <2>2, LeastExists
  <2>4. FirstWaiting(wn, q) \in live /\ \A j \in live : FirstWaiting(wn, q) <= j
    BY <2>1, <2>3
  <2> QED BY <2>4, <1>1
<1> QED BY <1>2, <1>3

\* ... what is left of the queue when it is popped is behind it ...
LEMMA PopWaitingFacts ==
  ASSUME NEW q \in Seq(Wants), NEW wn
  PROVE  LET i == FirstWaiting(wn, q)  p == PopWaiting(wn, q) IN
         /\ p \in Seq(Wants) /\ Range(p) \subseteq Range(q)
         /\ i = 0 => p = <<>>
         /\ i # 0 => \A w \in Range(q) : Waiting(wn, w) /\ w # q[i] => w \in Range(p)
         /\ IsInjective(q) => /\ IsInjective(p)
                              /\ i # 0 => q[i] \notin Range(p)
<1> DEFINE i == FirstWaiting(wn, q)
           p == PopWaiting(wn, q)
<1>0. DOMAIN q = 1..Len(q) /\ Len(q) \in Nat OBVIOUS
<1>1. CASE i = 0
  <2>1. p = <<>> BY <1>1 DEF PopWaiting
  <2> QED BY <1>1, <2>1, RangeOfEmpty
<1>2. CASE i # 0
  <2>1. /\ i \in 1..Len(q)
        /\ \A j \in 1..Len(q) : Waiting(wn, q[j]) => i <= j
    BY <1>2, FirstWaitingFacts
  <2>2. p = SubSeq(q, i + 1, Len(q)) BY <1>2 DEF PopWaiting
  <2> HIDE DEF i, p
  <2>3. i + 1 \in 1..Len(q)+1 /\ Len(q) \in 0..Len(q) BY <2>1, <1>0
  <2>4. /\ p \in Seq(Wants) /\ Range(p) \subseteq Range(q)
        /\ \A j \in i+1..Len(q) : q[j] \in Range(p)
        /\ IsInjective(q) => /\ IsInjective(p)
                              /\ \A j \in 1..Len(q) : q[j] \in Range(p) => j \in i+1..Len(q)
    BY <2>2, <2>3, SubSeqFacts
  <2>5. ASSUME NEW w \in Range(q), Waiting(wn, w), w # q[i] PROVE w \in Range(p)
    BY <1>0, <2>1, <2>5, <2>4 DEF Range
  <2>6. IsInjective(q) => q[i] \notin Range(p) BY <2>4, <2>1, <1>0
  <2> QED BY <1>2, <2>4, <2>5, <2>6 DEF i, p
<1> QED BY <1>1, <1>2

\* ... and a request is queued behind every request that waits (cleanFront, pushBack).
LEMMA EnqueueFacts ==
  ASSUME NEW q \in Seq(Wants), NEW w \in Wants
  PROVE  /\ Enqueue(q, w) \in Seq(Wants)
         /\ Range(Enqueue(q, w)) \subseteq Range(q) \cup {w}
         /\ w \in Range(Enqueue(q, w))
         /\ \A v \in Range(q) : Waiting(want, v) => v \in Range(Enqueue(q, w))
         /\ IsInjective(q) /\ w \notin Range(q) => IsInjective(Enqueue(q, w))
<1> DEFINE i == FirstWaiting(want, q)
           p == IF i = 0 THEN <<>> ELSE SubSeq(q, i, Len(q))
<1>0. DOMAIN q = 1..Len(q) /\ Len(q) \in Nat OBVIOUS
<1>1. Enqueue(q, w) = Append(p, w) BY DEF Enqueue
<1>2. /\ p \in Seq(Wants) /\ Range(p) \subseteq Range(q)
      /\ \A v \in Range(q) : Waiting(want, v) => v \in Range(p)
      /\ IsInjective(q) => IsInjective(p)
  <2>1. CASE i = 0
    BY <2>1, <1>0, FirstWaitingFacts, RangeOfEmpty DEF Range
  <2>2. CASE i # 0
    <3>1. /\ i \in 1..Len(q)
          /\ \A j \in 1..Len(q) : Waiting(want, q[j]) => i <= j
      BY <2>2, FirstWaitingFacts
    <3>2. p = SubSeq(q, i, Len(q)) BY <2>2
    <3> HIDE DEF i, p
    <3>3. i \in 1..Len(q)+1 /\ Len(q) \in 0..Len(q) BY <3>1, <1>0
    <3>4. /\ p \in Seq(Wants) /\ Range(p) \subseteq Range(q)
          /\ \A j \in i..Len(q) : q[j] \in Range(p)
          /\ IsInjective(q) => IsInjective(p)
      BY <3>2, <3>3, SubSeqFacts
    <3>5. ASSUME NEW v \in Range(q), Waiting(want, v) PROVE v \in Range(p)
      BY <1>0, <3>1, <3>5, <3>4 DEF Range
    <3> QED BY <3>4, <3>5
  <2> QED BY <2>1, <2>2
<1> HIDE DEF p
<1>3. /\ Append(p, w) \in Seq(Wants) /\ Range(Append(p, w)) = Range(p) \cup {w}
      /\ IsInjective(p) /\ w \notin Range(p) => IsInjective(Append(p, w))
  BY <1>2, AppendFacts
<1> QED BY <1>1, <1>2, <1>3

\* What queueForIdleConn leaves of a list ends in a connection that is not closed.
LEMMA UsableFacts ==
  ASSUME NEW S, NEW s \in Seq(S)
  PROVE  /\ Usable(s) \in Seq(S) /\ Range(Usable(s)) \subseteq Range(s)
         /\ s = <<>> => Usable(s) = <<>>
         /\ \A c \in Range(s) \ Range(Usable(s)) : conn[c].closed
         /\ IsInjective(s) => IsInjective(Usable(s))
         /\ Usable(s) # <<>> =>
              LET last == Usable(s)[Len(Usable(s))] IN
              /\ last \in Range(s) /\ last \in Range(Usable(s)) /\ ~conn[last].closed
              /\ Front(Usable(s)) \in Seq(S)
              /\ Range(Usable(s)) \ {last} \subseteq Range(Front(Usable(s)))
              /\ Range(Front(Usable(s))) \subseteq Range(Usable(s))
              /\ IsInjective(s) => /\ last \notin Range(Front(Usable(s)))
                                   /\ IsInjective(Front(Usable(s)))
<1> DEFINE open == {i \in DOMAIN s : ~conn[s[i]].closed}
           n == CHOOSE i \in open : \A j \in open : j <= i
           u == Usable(s)
           f == Front(u)
<1>0. DOMAIN s = 1..Len(s) /\ Len(s) \in Nat OBVIOUS
<1>1. CASE open = {}
  BY <1>1, <1>0, RangeOfEmpty DEF Usable, Range
<1>2. CASE open # {}
  <2>1. n \in open /\ \A j \in open : j <= n
    BY <1>0, <1>2, GreatestExists
  <2>2. u = SubSeq(s, 1, n) BY <1>2 DEF Usable
  <2> HIDE DEF n, u
  <2>3. n \in 1..Len(s) /\ ~conn[s[n]].closed BY <2>1, <1>0
  <2>4. n \in 0..Len(s) /\ 1 \in 1..Len(s)+1 BY <2>3, <1>0
  <2>5. /\ u \in Seq(S) /\ Range(u) \subseteq Range(s)
        /\ \A i \in 1..n : s[i] \in Range(u)
        /\ IsInjective(s) => IsInjective(u)
    BY <2>2, <2>4, SubSeqFacts
  <2>6. Len(u) = n /\ \A i \in 1..n : u[i] = s[i] BY <2>2, <2>3
  <2>7. ASSUME NEW c \in Range(s) \ Range(u) PROVE conn[c].closed
    BY <1>0, <2>5, <2>1, <2>3 DEF Range
  <2>8. u[n] \in Range(s) /\ u[n] \in Range(u) /\ ~conn[u[n]].closed BY <2>3, <2>5, <2>6
  <2>9. f = SubSeq(u, 1, n - 1) BY <2>6 DEF Front
  <2>10. 1 \in 1..Len(u)+1 /\ n - 1 \in 0..Len(u) BY <2>3, <2>6
  <2> HIDE DEF f
  <2>11. /\ f \in Seq(S) /\ Range(f) \subseteq Range(u)
         /\ \A i \in 1..n-1 : u[i] \in Range(f)
         /\ IsInjective(u) => /\ IsInjective(f)
                              /\ \A i \in 1..Len(u) : u[i] \in Range(f) => i \in 1..n-1
    BY <2>9, <2>10, <2>5, SubSeqFacts
  <2>12. ASSUME NEW c \in Range(u), c # u[n] PROVE c \in Range(f)
    <3>1. PICK i \in 1..n : u[i] = c
      <4>1. DOMAIN u = 1..n BY <2>5, <2>6
      <4> QED BY <4>1 DEF Range
    <3>2. i \in 1..n-1 BY <3>1, <2>12, <2>3
    <3> QED BY <3>1, <3>2, <2>11
  <2>13. IsInjective(u) => u[n] \notin Range(f) BY <2>11, <2>6, <2>3
  <2>14. s # <<>> BY <2>3
  <2>15. /\ IsInjective(s) => u[n] \notin Range(f) /\ IsInjective(f)
         /\ Range(u) \ {u[n]} \subseteq Range(f)
    BY <2>13, <2>12, <2>11, <2>5
  <2> QED BY <2>5, <2>6, <2>7, <2>8, <2>11, <2>14, <2>15 DEF u, f
<1> QED BY <1>1, <1>2

-----------------------------------------------------------------------------
(* The types, the invariant of connections, and what the helpers of the model do. *)

\* The control points of a putOrCloseIdleConn call and of a read loop, and the types of the variables.
PutPoints   == {"none", "check", "insert", "close", "dec"}
LoopPoints  == {"none", "peek", "ending", "remove", "gone"}
IdleType    == [conns : KeyQueue(Conns), lru : Seq(Conns), wait : KeyQueue(Wants), close : BOOLEAN]
SlotsType   == [count : [Keys -> Nat], wait : KeyQueue(Wants), dialing : SUBSET Wants, panic : BOOLEAN]
WantType    == [Wants -> [pc : Conns \cup {None}, err : BOOLEAN]]
ConnType    == [Conns -> [dialed : BOOLEAN, closed : BOOLEAN, alt : BOOLEAN, reused : BOOLEAN,
                          key : Keys \cup {None}]]

\* The type of every variable.
TypeOK ==
  /\ config \in Configs
  /\ idle \in IdleType
  /\ slots \in SlotsType
  /\ want \in WantType
  /\ rt \in [Reqs -> [key : Keys, at : Points, try : 1..MaxTries, conn : Conns \cup {None}]]
  /\ conn \in ConnType
  /\ readLoop \in [Conns -> LoopPoints]
  /\ put \in [Putters -> [at : PutPoints, conn : Conns \cup {None}]]
  /\ closing \subseteq Conns
  /\ closes \in Nat

\* The connections there are.
Dialed == {c \in Conns : conn[c].dialed}
\* A connection has a host from its dial on, and no read loop and no end before it.
KeyInv == \A c \in Conns : IF conn[c].dialed THEN conn[c].key \in Keys
                           ELSE conn[c].key = None /\ ~conn[c].closed /\ readLoop[c] = "none"
\* Only dialled connections are in the pool ...
PoolInv ==
  /\ \A k \in Keys : Range(idle.conns[k]) \subseteq Dialed
  /\ Range(idle.lru) \subseteq Dialed
  /\ closing \subseteq Dialed
\* ... or with a request, a wantConn or a goroutine that puts one back.
UserInv ==
  /\ \A w \in Wants : want[w].pc \in Dialed \cup {None}
  /\ \A r \in Reqs : rt[r].conn \in Dialed \cup {None}
  /\ \A p \in Putters : put[p].conn \in Dialed \cup {None}
\* A request or a goroutine has a connection at the control points where it uses one.
PointInv ==
  /\ \A r \in Reqs : rt[r].at \in {"got", "using", "removeIdle", "decConns"} <=> rt[r].conn # None
  /\ \A p \in Putters : put[p].at \in {"check", "insert", "close"} <=> put[p].conn # None
\* The invariant of connections.
DialedInv == KeyInv /\ PoolInv /\ UserInv /\ PointInv

\* The index FirstWaiting gives points into the queue.
LEMMA FirstWaitingRange ==
  ASSUME NEW q \in Seq(Wants), NEW wn
  PROVE  \/ /\ FirstWaiting(wn, q) = 0
            /\ \A w \in Range(q) : ~Waiting(wn, w)
         \/ /\ FirstWaiting(wn, q) \in 1..Len(q) /\ FirstWaiting(wn, q) > 0
            /\ Waiting(wn, q[FirstWaiting(wn, q)])
            /\ q[FirstWaiting(wn, q)] \in Range(q) /\ q[FirstWaiting(wn, q)] \in Wants
BY RangeType, FirstWaitingFacts DEF Range

\* tryDeliver gives c to those that waited and changes no other.
LEMMA DeliverFacts ==
  ASSUME NEW wn \in WantType, NEW ws, NEW c \in Conns
  PROVE  /\ Deliver(wn, ws, c) \in WantType
         /\ \A w \in Wants : IF w \in ws /\ Waiting(wn, w)
              THEN Deliver(wn, ws, c)[w].pc = c /\ ~Deliver(wn, ws, c)[w].err /\ ~Waiting(Deliver(wn, ws, c), w)
              ELSE Deliver(wn, ws, c)[w] = wn[w] /\ (Waiting(Deliver(wn, ws, c), w) <=> Waiting(wn, w))
BY ConstantsAssumption DEF WantType, Deliver, Waiting

\* What DecConnsPerHost makes of the slots s when a slot of host k is given back: without a
\* limit nothing, a panic, the first queued dial that still waits, or one slot less.
GivenBack(wn, s, k, d) ==
  LET q == s.wait[k]  w == q[FirstWaiting(wn, q)] IN
  \/ config.limit = 0 /\ d = s
  \/ /\ config.limit > 0 /\ s.count[k] = 0
     /\ d.count = s.count /\ d.wait = s.wait /\ d.dialing = s.dialing
  \/ /\ config.limit > 0 /\ s.count[k] > 0
     /\ w \in Range(q) /\ w \in Wants /\ Waiting(wn, w)
     /\ d.count = s.count /\ d.dialing = s.dialing \cup {w}
     /\ d.wait = [s.wait EXCEPT ![k] = PopWaiting(wn, q)]
     /\ d.panic = s.panic
  \/ /\ config.limit > 0 /\ s.count[k] > 0
     /\ \A v \in Range(q) : ~Waiting(wn, v)
     /\ d.count = [s.count EXCEPT ![k] = s.count[k] - 1] /\ d.dialing = s.dialing
     /\ d.wait = [s.wait EXCEPT ![k] = <<>>]
     /\ d.panic = s.panic

\* decConnsPerHost gives the slot back in one of these ways.
LEMMA DecFacts ==
  ASSUME TypeOK, NEW s \in SlotsType, NEW wn, NEW k \in Keys
  PROVE  /\ DecConnsPerHost(wn, s, k) \in SlotsType
         /\ GivenBack(wn, s, k, DecConnsPerHost(wn, s, k))
<1> DEFINE d == DecConnsPerHost(wn, s, k)
           i == FirstWaiting(wn, s.wait[k])
           w == s.wait[k][i]
           p == PopWaiting(wn, s.wait[k])
<1>1. /\ s.count \in [Keys -> Nat] /\ s.wait \in [Keys -> Seq(Wants)] /\ s.dialing \in SUBSET Wants /\ s.panic \in BOOLEAN
      /\ s = [count |-> s.count, wait |-> s.wait, dialing |-> s.dialing, panic |-> s.panic]
      /\ s.count[k] \in Nat /\ s.wait[k] \in Seq(Wants)
  BY DEF SlotsType, KeyQueue
<1>2. config.limit \in Nat BY ConstantsAssumption DEF TypeOK
<1>3. p \in Seq(Wants) BY <1>1, PopWaitingFacts
<1>4. \/ i = 0 /\ \A v \in Range(s.wait[k]) : ~Waiting(wn, v)
      \/ i > 0 /\ i # 0 /\ w \in Range(s.wait[k]) /\ w \in Wants /\ Waiting(wn, w)
  BY <1>1, FirstWaitingRange
<1> HIDE DEF i, w, p
<1>5. CASE config.limit = 0
  <2>1. d = s BY <1>5 DEF DecConnsPerHost
  <2> QED BY <2>1, <1>5 DEF GivenBack
<1>6. CASE config.limit > 0 /\ s.count[k] = 0
  <2>1. d = [s EXCEPT !.panic = TRUE] BY <1>6 DEF DecConnsPerHost
  <2>2. d = [count |-> s.count, wait |-> s.wait, dialing |-> s.dialing, panic |-> TRUE]
    BY <2>1, <1>1
  <2> QED BY <2>2, <1>6, <1>1 DEF SlotsType, KeyQueue, GivenBack
<1>7. CASE config.limit > 0 /\ s.count[k] > 0 /\ i > 0
  <2>1. d = [s EXCEPT !.wait[k] = p, !.dialing = @ \cup {w}]
    BY <1>7, <1>1 DEF DecConnsPerHost, i, w, p
  <2>2. d = [count |-> s.count, wait |-> [s.wait EXCEPT ![k] = p], dialing |-> s.dialing \cup {w}, panic |-> s.panic]
    BY <2>1, <1>1
  <2> QED BY <2>2, <1>7, <1>1, <1>3, <1>4 DEF SlotsType, KeyQueue, GivenBack, p, w, i
<1>8. CASE config.limit > 0 /\ s.count[k] > 0 /\ i = 0
  <2>1. d = [s EXCEPT !.wait[k] = <<>>, !.count[k] = @ - 1]
    BY <1>8, <1>1 DEF DecConnsPerHost, i
  <2>2. d = [count |-> [s.count EXCEPT ![k] = s.count[k] - 1], wait |-> [s.wait EXCEPT ![k] = <<>>],
             dialing |-> s.dialing, panic |-> s.panic]
    BY <2>1, <1>1
  <2> QED BY <2>2, <1>8, <1>1, <1>4 DEF SlotsType, KeyQueue, GivenBack
<1> QED BY <1>1, <1>2, <1>4, <1>5, <1>6, <1>7, <1>8

\* A connection is closed once, and only then gives its slot back.
LEMMA CloseFacts ==
  ASSUME TypeOK, KeyInv, NEW wn, NEW c \in Dialed, Close(wn, c)
  PROVE  /\ slots' \in SlotsType
         /\ IF conn[c].closed THEN conn' = conn /\ slots' = slots
            ELSE conn' = [conn EXCEPT ![c].closed = TRUE] /\ slots' = DecConnsPerHost(wn, slots, conn[c].key)
         /\ conn' \in ConnType
         /\ \A d \in Conns : /\ conn'[d].dialed = conn[d].dialed /\ conn'[d].alt = conn[d].alt
                             /\ conn'[d].key = conn[d].key /\ conn'[d].reused = conn[d].reused
                             /\ conn'[d].closed = (conn[d].closed \/ d = c)
<1>1. conn[c].key \in Keys /\ c \in Conns BY DEF KeyInv, Dialed
<1>2. slots \in SlotsType /\ conn \in ConnType BY DEF TypeOK
<1>3. \A d \in Conns : conn[d] \in [dialed : BOOLEAN, closed : BOOLEAN, alt : BOOLEAN, reused : BOOLEAN, key : Keys \cup {None}]
  BY <1>2 DEF ConnType
<1>4. CASE conn[c].closed BY <1>2, <1>3, <1>4 DEF Close
<1>5. CASE ~conn[c].closed
  <2>1. conn' = [conn EXCEPT ![c].closed = TRUE] /\ slots' = DecConnsPerHost(wn, slots, conn[c].key)
    BY <1>5 DEF Close
  <2>2. slots' \in SlotsType BY <2>1, <1>1, <1>2, DecFacts
  <2>3. conn' \in ConnType BY <2>1, <1>2, <1>1 DEF ConnType
  <2> QED BY <2>1, <2>2, <2>3, <1>5, <1>1, <1>2, <1>3 DEF ConnType
<1> QED BY <1>4, <1>5

\* removeIdleConnLocked only takes connections from the pool.
LEMMA RemoveIdleFacts ==
  ASSUME TypeOK, KeyInv, NEW i \in IdleType, NEW c \in Dialed
  PROVE  LET n == RemoveIdle(i, c) IN
         /\ n \in IdleType /\ n.wait = i.wait /\ n.close = i.close
         /\ Range(n.lru) \subseteq Range(i.lru) /\ Range(i.lru) \ {c} \subseteq Range(n.lru)
         /\ IsInjective(i.lru) => IsInjective(n.lru) /\ c \notin Range(n.lru)
         /\ \A k \in Keys :
              /\ Range(n.conns[k]) \subseteq Range(i.conns[k]) /\ Range(i.conns[k]) \ {c} \subseteq Range(n.conns[k])
              /\ i.conns[k] = <<>> => n.conns[k] = <<>>
              /\ IsInjective(i.conns[k]) => /\ IsInjective(n.conns[k])
                                            /\ conn[c].key = k => c \notin Range(n.conns[k])
<1> DEFINE n == RemoveIdle(i, c)
           ck == conn[c].key
<1>1. ck \in Keys /\ c \in Conns BY DEF KeyInv, Dialed
<1>2. /\ i.conns \in [Keys -> Seq(Conns)] /\ i.wait \in [Keys -> Seq(Wants)] /\ i.lru \in Seq(Conns) /\ i.close \in BOOLEAN
      /\ i = [conns |-> i.conns, lru |-> i.lru, wait |-> i.wait, close |-> i.close]
  BY DEF IdleType, KeyQueue
<1> DEFINE a == RemoveFirst(i.conns[ck], c)
           b == RemoveFirst(i.lru, c)
<1>3. n = [conns |-> [i.conns EXCEPT ![ck] = a], lru |-> b, wait |-> i.wait, close |-> i.close]
  <2>1. n = [i EXCEPT !.conns[ck] = a, !.lru = b] BY DEF RemoveIdle
  <2> HIDE DEF a, b, ck
  <2> QED BY <2>1, <1>2 DEF IdleType
<1> HIDE DEF n, ck
<1>4. /\ RemoveFirst(i.lru, c) \in Seq(Conns)
      /\ Range(n.lru) \subseteq Range(i.lru) /\ Range(i.lru) \ {c} \subseteq Range(n.lru)
      /\ IsInjective(i.lru) => IsInjective(n.lru) /\ c \notin Range(n.lru)
  BY <1>2, <1>3, RemoveFirstFacts
<1>5. RemoveFirst(i.conns[ck], c) \in Seq(Conns) BY <1>1, <1>2, RemoveFirstFacts
<1>6. n \in IdleType /\ n.wait = i.wait /\ n.close = i.close
  BY <1>1, <1>2, <1>3, <1>4, <1>5 DEF IdleType, KeyQueue
<1>7. ASSUME NEW k \in Keys
      PROVE /\ Range(n.conns[k]) \subseteq Range(i.conns[k]) /\ Range(i.conns[k]) \ {c} \subseteq Range(n.conns[k])
            /\ i.conns[k] = <<>> => n.conns[k] = <<>>
            /\ IsInjective(i.conns[k]) => /\ IsInjective(n.conns[k])
                                          /\ ck = k => c \notin Range(n.conns[k])
  <2>1. i.conns[k] \in Seq(Conns) BY <1>2
  <2>2. CASE k = ck
    BY <1>3, <1>2, <2>2, <2>1, RemoveFirstFacts
  <2>3. CASE k # ck
    <3>1. n.conns[k] = i.conns[k] BY <1>3, <1>2, <2>3
    <3> QED BY <3>1, <2>3
  <2> QED BY <2>2, <2>3
<1> QED BY <1>4, <1>6, <1>7 DEF n, ck

\* AddIdle makes a of the list i, and then removes and closes one connection if it must.
Added(i, wn, c, a) ==
  /\ a.wait = i.wait /\ a.close = i.close
  /\ Range(a.lru) = Range(i.lru) \cup {c}
  /\ IsInjective(i.lru) /\ c \notin Range(i.lru) => IsInjective(a.lru)
  /\ \A k \in Keys :
       IF k = conn[c].key
       THEN /\ Range(a.conns[k]) = Range(i.conns[k]) \cup {c}
            /\ IsInjective(i.conns[k]) /\ c \notin Range(i.conns[k]) => IsInjective(a.conns[k])
       ELSE a.conns[k] = i.conns[k]
  /\ \/ idle' = a /\ UNCHANGED <<conn, slots>>
     \/ \E o \in Range(a.lru) : idle' = RemoveIdle(a, o) /\ Close(wn, o)

\* addIdle appends c, and may remove and close the oldest.
LEMMA AddIdleFacts ==
  ASSUME TypeOK, KeyInv, NEW i \in IdleType, NEW wn, NEW c \in Dialed, AddIdle(i, wn, c)
  PROVE  \E a \in IdleType : Added(i, wn, c, a)
<1> DEFINE ck == conn[c].key
           q  == Append(i.conns[ck], c)
           l  == Append(i.lru, c)
           a  == [i EXCEPT !.conns[ck] = q, !.lru = l]
<1>1. ck \in Keys /\ c \in Conns BY DEF KeyInv, Dialed
<1>2. /\ i.conns \in [Keys -> Seq(Conns)] /\ i.wait \in [Keys -> Seq(Wants)] /\ i.lru \in Seq(Conns) /\ i.close \in BOOLEAN
      /\ i = [conns |-> i.conns, lru |-> i.lru, wait |-> i.wait, close |-> i.close]
      /\ i.conns[ck] \in Seq(Conns)
  BY <1>1 DEF IdleType, KeyQueue
<1>3. /\ q \in Seq(Conns) /\ Range(q) = Range(i.conns[ck]) \cup {c}
      /\ IsInjective(i.conns[ck]) /\ c \notin Range(i.conns[ck]) => IsInjective(q)
  BY <1>1, <1>2, AppendFacts
<1>4. /\ l \in Seq(Conns) /\ Range(l) = Range(i.lru) \cup {c}
      /\ IsInjective(i.lru) /\ c \notin Range(i.lru) => IsInjective(l)
  BY <1>1, <1>2, AppendFacts
<1>5. l # <<>>
  <2>1. Len(l) = Len(i.lru) + 1 /\ Len(i.lru) \in Nat BY <1>2
  <2> HIDE DEF l
  <2>2. Len(l) # 0 BY <2>1
  <2> QED BY <2>2
<1>6. Head(l) \in Range(l)
  <2>1. Head(l) = l[1] /\ 1 \in DOMAIN l BY <1>4, <1>5
  <2> QED BY <2>1 DEF Range
<1>7. \/ idle' = a /\ UNCHANGED <<conn, slots>>
      \/ idle' = RemoveIdle(a, Head(a.lru)) /\ Close(wn, Head(a.lru))
  <2>1. a = [i EXCEPT !.conns[conn[c].key] = Append(@, c), !.lru = Append(@, c)] BY <1>1, <1>2
  <2> HIDE DEF a
  <2> QED BY <2>1 DEF AddIdle
<1> HIDE DEF q, l
<1> HIDE DEF ck
<1>8. a = [conns |-> [i.conns EXCEPT ![ck] = q], lru |-> l, wait |-> i.wait, close |-> i.close]
  <2>1. a = [i EXCEPT !.conns[ck] = q, !.lru = l] OBVIOUS
  <2> HIDE DEF a
  <2> QED BY <2>1, <1>2 DEF IdleType
<1> HIDE DEF a
<1>9. a \in IdleType BY <1>1, <1>2, <1>3, <1>4, <1>8 DEF IdleType, KeyQueue
<1>10. a.lru = l /\ a.wait = i.wait /\ a.close = i.close BY <1>8
<1>11. \A k \in Keys : IF k = ck THEN a.conns[k] = q ELSE a.conns[k] = i.conns[k]
  BY <1>8, <1>1, <1>2
<1>12. \/ idle' = a /\ UNCHANGED <<conn, slots>>
       \/ \E o \in Range(a.lru) : idle' = RemoveIdle(a, o) /\ Close(wn, o)
  BY <1>7, <1>10, <1>6
<1>13. \A k \in Keys :
         IF k = ck
         THEN /\ Range(a.conns[k]) = Range(i.conns[k]) \cup {c}
              /\ IsInjective(i.conns[k]) /\ c \notin Range(i.conns[k]) => IsInjective(a.conns[k])
         ELSE a.conns[k] = i.conns[k]
  BY <1>3, <1>11
<1> SUFFICES Added(i, wn, c, a) BY <1>9
<1> QED BY <1>10, <1>13, <1>12, <1>4 DEF ck, Added

\* idle with one queue, or one list and the LRU, replaced.
LEMMA IdleWith ==
  ASSUME NEW i \in IdleType, NEW k \in Keys
  PROVE  /\ \A q \in Seq(Wants) :
              /\ [i EXCEPT !.wait[k] = q] \in IdleType
              /\ [i EXCEPT !.wait[k] = q].conns = i.conns /\ [i EXCEPT !.wait[k] = q].lru = i.lru
              /\ [i EXCEPT !.wait[k] = q].wait = [i.wait EXCEPT ![k] = q]
BY DEF IdleType, KeyQueue

\* The types of rt and put.
Rec     == [key : Keys, at : Points, try : 1..MaxTries, conn : Conns \cup {None}]
RtType  == [Reqs -> Rec]
PutType == [Putters -> [at : PutPoints, conn : Conns \cup {None}]]

\* Only r's goroutine moves; only the put of p changes.
Moves(r, a, t, c) ==
  /\ rt' \in RtType
  /\ rt'[r].key = rt[r].key /\ rt'[r].at = a /\ rt'[r].try = t /\ rt'[r].conn = c
  /\ \A q \in Reqs : q # r => rt'[q] = rt[q]
\* Only the put of p changes.
PutBecomes(p, a, c) ==
  /\ put' \in PutType
  /\ put'[p].at = a /\ put'[p].conn = c
  /\ \A q \in Putters : q # p => put'[q] = put[q]

\* A goroutine of RoundTrip changes only its own record ...
LEMMA RtFacts ==
  ASSUME TypeOK, NEW r \in Reqs
  PROVE  /\ \A l \in Points : Goto(r, l) => Moves(r, l, rt[r].try, rt[r].conn)
         /\ \A c \in Conns : Takes(r, c) => Moves(r, "got", rt[r].try, c)
         /\ Ends(r) => Moves(r, "done", rt[r].try, None)
         /\ Retries(r) => Moves(r, "start", rt[r].try + 1, None)
<1>1. rt \in RtType BY DEF TypeOK, RtType, Rec
<1>2. rt[r] \in Rec BY <1>1 DEF RtType
<1>3. ASSUME NEW l \in Points, Goto(r, l) PROVE Moves(r, l, rt[r].try, rt[r].conn)
  BY <1>1, <1>2, <1>3 DEF Goto, Moves, RtType, Rec
<1>4. ASSUME NEW c \in Conns, Takes(r, c) PROVE Moves(r, "got", rt[r].try, c)
  <2> DEFINE n == [rt[r] EXCEPT !.at = "got", !.conn = c]
  <2>1. n \in Rec /\ n.key = rt[r].key /\ n.at = "got" /\ n.try = rt[r].try /\ n.conn = c
    BY <1>2 DEF Rec, Points
  <2>2. rt' = [rt EXCEPT ![r] = n] BY <1>4 DEF Takes
  <2> HIDE DEF n
  <2> QED BY <1>1, <2>1, <2>2 DEF Moves, RtType
<1>5. ASSUME Ends(r) PROVE Moves(r, "done", rt[r].try, None)
  <2> DEFINE n == [rt[r] EXCEPT !.at = "done", !.conn = None]
  <2>1. n \in Rec /\ n.key = rt[r].key /\ n.at = "done" /\ n.try = rt[r].try /\ n.conn = None
    BY <1>2 DEF Rec, Points
  <2>2. rt' = [rt EXCEPT ![r] = n] BY <1>5 DEF Ends
  <2> HIDE DEF n
  <2> QED BY <1>1, <2>1, <2>2 DEF Moves, RtType
<1>6. ASSUME Retries(r) PROVE Moves(r, "start", rt[r].try + 1, None)
  <2> DEFINE n == [rt[r] EXCEPT !.at = "start", !.try = rt[r].try + 1, !.conn = None]
  <2>0. rt[r].try + 1 \in 1..MaxTries BY <1>2, <1>6, ConstantsAssumption DEF Retries, Rec
  <2>1. n \in Rec /\ n.key = rt[r].key /\ n.at = "start" /\ n.try = rt[r].try + 1 /\ n.conn = None
    BY <1>2, <2>0 DEF Rec, Points
  <2>2. rt' = [rt EXCEPT ![r] = n] BY <1>6 DEF Retries
  <2> HIDE DEF n
  <2> QED BY <1>1, <2>1, <2>2 DEF Moves, RtType
<1> QED BY <1>3, <1>4, <1>5, <1>6

\* ... and one that puts a connection back only its own call.
LEMMA PutFacts ==
  ASSUME TypeOK, NEW p \in Putters
  PROVE  /\ \A c \in Conns : put' = PutBegins(p, c) => PutBecomes(p, "check", c)
         /\ \A c \in Conns, l \in PutPoints : put' = Put(p, [at |-> l, conn |-> c]) => PutBecomes(p, l, c)
         /\ put' = Put(p, NoPut) => PutBecomes(p, "none", None)
         /\ \A l \in PutPoints : put' = [put EXCEPT ![p].at = l] => PutBecomes(p, l, put[p].conn)
BY DEF TypeOK, PutType, PutBecomes, PutBegins, Put, NoPut, PutPoints

\* What an assignment to fields of slots leaves and changes.
SlotsAre(n, c, w, d, p) == /\ n \in SlotsType
                           /\ n.count = c /\ n.wait = w /\ n.dialing = d /\ n.panic = p

\* The slots with one component replaced.
LEMMA SlotsWith ==
  ASSUME NEW s \in SlotsType, NEW k \in Keys, NEW w \in Wants, NEW q \in Seq(Wants)
  PROVE  /\ SlotsAre([s EXCEPT !.dialing = @ \cup {w}], s.count, s.wait, s.dialing \cup {w}, s.panic)
         /\ SlotsAre([s EXCEPT !.dialing = @ \ {w}], s.count, s.wait, s.dialing \ {w}, s.panic)
         /\ SlotsAre([s EXCEPT !.dialing = @ \cup {w}, !.count[k] = @ + 1],
                     [s.count EXCEPT ![k] = s.count[k] + 1], s.wait, s.dialing \cup {w}, s.panic)
         /\ SlotsAre([s EXCEPT !.wait[k] = q], s.count, [s.wait EXCEPT ![k] = q], s.dialing, s.panic)
<1>1. SlotsAre([s EXCEPT !.dialing = @ \cup {w}], s.count, s.wait, s.dialing \cup {w}, s.panic)
  BY DEF SlotsType, SlotsAre
<1>2. SlotsAre([s EXCEPT !.dialing = @ \ {w}], s.count, s.wait, s.dialing \ {w}, s.panic)
  BY DEF SlotsType, SlotsAre
<1>3. SlotsAre([s EXCEPT !.dialing = @ \cup {w}, !.count[k] = @ + 1],
              [s.count EXCEPT ![k] = s.count[k] + 1], s.wait, s.dialing \cup {w}, s.panic)
  <2> DEFINE n == [s EXCEPT !.dialing = @ \cup {w}, !.count[k] = @ + 1]
  <2>1. /\ n.count = [s.count EXCEPT ![k] = s.count[k] + 1] /\ n.wait = s.wait
        /\ n.dialing = s.dialing \cup {w} /\ n.panic = s.panic
    BY DEF SlotsType
  <2>2. n.count \in [Keys -> Nat] BY <2>1 DEF SlotsType
  <2>3. n \in SlotsType BY <2>1, <2>2 DEF SlotsType
  <2> QED BY <2>1, <2>3 DEF SlotsAre
<1>4. SlotsAre([s EXCEPT !.wait[k] = q], s.count, [s.wait EXCEPT ![k] = q], s.dialing, s.panic)
  BY DEF SlotsType, SlotsAre, KeyQueue
<1> QED BY <1>1, <1>2, <1>3, <1>4

-----------------------------------------------------------------------------
(* What each action changes.                                                 *)

\* The pool with these components.
IdleAre(n, c, l, w) == n \in IdleType /\ n.conns = c /\ n.lru = l /\ n.wait = w

\* What QueueForIdleConn changes.
LEMMA QueueForIdleConnEffect ==
  ASSUME TypeOK, DialedInv, NEW r \in Reqs, QueueForIdleConn(r)
  PROVE  LET k == rt[r].key  list == idle.conns[k]  u == Usable(list)  last == u[Len(u)] IN
         /\ rt[r].at = "start" /\ UNCHANGED <<config, slots, conn, readLoop, put, closing, closes>>
         /\ \/ /\ ~config.keepAlives
               /\ Moves(r, "queueDial", rt[r].try, rt[r].conn) /\ UNCHANGED <<idle, want>>
            \/ /\ config.keepAlives /\ u # <<>> /\ last \in Range(list) /\ ~conn[last].closed
               /\ Moves(r, "got", rt[r].try, last) /\ want' = Deliver(want, {WantOf(r)}, last)
               /\ IF conn[last].alt
                  THEN IdleAre(idle', [idle.conns EXCEPT ![k] = u], idle.lru, idle.wait)
                  ELSE IdleAre(idle', [idle.conns EXCEPT ![k] = Front(u)], RemoveFirst(idle.lru, last), idle.wait)
            \/ /\ config.keepAlives /\ u = <<>> /\ want' = want
               /\ Moves(r, "queueDial", rt[r].try, rt[r].conn)
               /\ IdleAre(idle', [idle.conns EXCEPT ![k] = <<>>], idle.lru,
                          [idle.wait EXCEPT ![k] = Enqueue(idle.wait[k], WantOf(r))])
<1> DEFINE k == rt[r].key
           list == idle.conns[k]
           u == Usable(list)
           last == u[Len(u)]
           e == Enqueue(idle.wait[k], WantOf(r))
<1>1. rt[r] \in Rec /\ k \in Keys BY DEF TypeOK, Rec
<1>2. WantOf(r) \in Wants BY <1>1 DEF WantOf, Wants, Rec
<1>3. idle \in IdleType /\ list \in Seq(Conns) /\ idle.lru \in Seq(Conns) /\ idle.wait[k] \in Seq(Wants)
  BY <1>1 DEF TypeOK, IdleType, KeyQueue
<1>4. u \in Seq(Conns) /\ (u # <<>> => last \in Range(list) /\ ~conn[last].closed /\ Front(u) \in Seq(Conns))
  BY <1>3, UsableFacts
<1>5. e \in Seq(Wants) BY <1>2, <1>3, EnqueueFacts
<1>6. last \in Range(list) => last \in Conns BY <1>3, RangeType
<1>7. RemoveFirst(idle.lru, last) \in Seq(Conns) BY <1>3, RemoveFirstFacts
<1>8. rt[r].at = "start" /\ UNCHANGED <<config, slots, conn, readLoop, put, closing, closes>>
  BY DEF QueueForIdleConn
<1>9. CASE ~config.keepAlives
  BY <1>9, <1>8, RtFacts DEF QueueForIdleConn, Points
<1>10. CASE config.keepAlives /\ u # <<>>
  <2>1. /\ Takes(r, last) /\ want' = Deliver(want, {WantOf(r)}, last)
        /\ idle' = [idle EXCEPT !.close = FALSE, !.conns[k] = IF conn[last].alt THEN u ELSE Front(u),
                                !.lru = IF conn[last].alt THEN @ ELSE RemoveFirst(@, last)]
    BY <1>10 DEF QueueForIdleConn
  <2>2. Moves(r, "got", rt[r].try, last) BY <2>1, <1>10, <1>4, <1>6, RtFacts
  <2> HIDE DEF k, list, u, last
  <2>3. CASE conn[last].alt
    BY <2>1, <2>3, <1>1, <1>3, <1>4, <2>2, <1>8, <1>10 DEF IdleAre, IdleType, KeyQueue, k, list, u, last
  <2>4. CASE ~conn[last].alt
    <3> DEFINE f == Front(u)
               m == RemoveFirst(idle.lru, last)
    <3>1. idle' = [idle EXCEPT !.close = FALSE, !.conns[k] = f, !.lru = m] BY <2>1, <2>4
    <3>2. f \in Seq(Conns) /\ m \in Seq(Conns) BY <1>4, <1>7, <1>10
    <3> HIDE DEF f, m
    <3>3. IdleAre(idle', [idle.conns EXCEPT ![k] = f], m, idle.wait)
      BY <3>1, <3>2, <1>1, <1>3 DEF IdleAre, IdleType, KeyQueue
    <3> QED BY <3>3, <2>1, <2>2, <2>4, <1>4, <1>8, <1>10 DEF k, list, u, last, f, m
  <2> QED BY <2>3, <2>4
<1>11. CASE config.keepAlives /\ u = <<>>
  <2>1. /\ Goto(r, "queueDial") /\ want' = want
        /\ idle' = [idle EXCEPT !.close = FALSE, !.conns[k] = <<>>, !.wait[k] = e]
    BY <1>11 DEF QueueForIdleConn
  <2>2. Moves(r, "queueDial", rt[r].try, rt[r].conn) BY <2>1, RtFacts DEF Points
  <2> HIDE DEF e, k
  <2>3. /\ idle'.conns = [idle.conns EXCEPT ![k] = <<>>] /\ idle'.lru = idle.lru
        /\ idle'.wait = [idle.wait EXCEPT ![k] = e]
    BY <2>1, <1>3 DEF IdleType
  <2>4. idle'.conns \in KeyQueue(Conns) /\ idle'.wait \in KeyQueue(Wants)
    <3>1. <<>> \in Seq(Conns) OBVIOUS
    <3>2. idle.conns \in KeyQueue(Conns) /\ idle.wait \in KeyQueue(Wants) BY <1>3 DEF IdleType
    <3>3. idle'.conns \in KeyQueue(Conns)
      <4> DEFINE o == <<>>
      <4>1. o \in Seq(Conns) /\ idle'.conns = [idle.conns EXCEPT ![k] = o] BY <3>1, <2>3
      <4> HIDE DEF o
      <4> QED BY <4>1, <3>2 DEF KeyQueue
    <3>4. idle'.wait \in KeyQueue(Wants) BY <3>2, <2>3, <1>5 DEF KeyQueue
    <3> QED BY <3>3, <3>4
  <2>5. IdleAre(idle', [idle.conns EXCEPT ![k] = <<>>], idle.lru, [idle.wait EXCEPT ![k] = e])
    BY <2>1, <2>3, <2>4, <1>3 DEF IdleAre, IdleType
  <2> QED BY <2>1, <2>2, <2>5, <1>8, <1>11 DEF e, k
<1> QED BY <1>9, <1>10, <1>11

\* What QueueForDial changes.
LEMMA QueueForDialEffect ==
  ASSUME TypeOK, NEW r \in Reqs, QueueForDial(r)
  PROVE  LET k == rt[r].key  w == WantOf(r) IN
         /\ rt[r].at = "queueDial" /\ UNCHANGED <<config, idle, want, conn, readLoop, put, closing, closes>>
         /\ Moves(r, "wait", rt[r].try, rt[r].conn) /\ w \in Wants
         /\ \/ config.limit = 0 /\ SlotsAre(slots', slots.count, slots.wait, slots.dialing \cup {w}, slots.panic)
            \/ /\ config.limit > 0 /\ slots.count[k] < config.limit
               /\ SlotsAre(slots', [slots.count EXCEPT ![k] = slots.count[k] + 1], slots.wait,
                           slots.dialing \cup {w}, slots.panic)
            \/ /\ config.limit > 0 /\ slots.count[k] >= config.limit
               /\ SlotsAre(slots', slots.count, [slots.wait EXCEPT ![k] = Enqueue(slots.wait[k], w)],
                           slots.dialing, slots.panic)
<1> DEFINE k == rt[r].key
           w == WantOf(r)
           e == Enqueue(slots.wait[k], w)
<1>1. rt[r] \in Rec /\ k \in Keys BY DEF TypeOK, Rec
<1>2. w \in Wants BY <1>1 DEF WantOf, Wants, Rec
<1>3. slots \in SlotsType /\ slots.wait[k] \in Seq(Wants) /\ slots.count[k] \in Nat
  BY <1>1 DEF TypeOK, SlotsType, KeyQueue
<1>4. e \in Seq(Wants) BY <1>2, <1>3, EnqueueFacts
<1>5. config.limit \in Nat BY ConstantsAssumption DEF TypeOK
<1>6. /\ rt[r].at = "queueDial" /\ UNCHANGED <<config, idle, want, conn, readLoop, put, closing, closes>>
      /\ Moves(r, "wait", rt[r].try, rt[r].conn)
  BY RtFacts DEF QueueForDial, Points
<1>7. slots' = IF config.limit = 0 THEN [slots EXCEPT !.dialing = @ \cup {w}]
               ELSE IF slots.count[k] < config.limit THEN [slots EXCEPT !.dialing = @ \cup {w}, !.count[k] = @ + 1]
               ELSE [slots EXCEPT !.wait[k] = e]
  BY DEF QueueForDial
<1> HIDE DEF k, w, e
<1>8. CASE config.limit = 0
  BY <1>8, <1>7, <1>6, <1>1, <1>2, <1>3, <1>4, SlotsWith DEF k, w
<1>9. CASE config.limit > 0 /\ slots.count[k] < config.limit
  BY <1>9, <1>7, <1>6, <1>1, <1>2, <1>3, <1>4, SlotsWith DEF k, w
<1>10. CASE config.limit > 0 /\ ~(slots.count[k] < config.limit)
  <2>1. slots' = [slots EXCEPT !.wait[k] = e] BY <1>10, <1>7
  <2>2. slots.count[k] >= config.limit BY <1>10, <1>3, <1>5
  <2> QED BY <2>1, <2>2, <1>10, <1>6, <1>1, <1>2, <1>3, <1>4, SlotsWith DEF k, w, e
<1> QED BY <1>8, <1>9, <1>10, <1>5

\* What Ready changes.
LEMMA ReadyEffect ==
  ASSUME TypeOK, NEW r \in Reqs, Ready(r)
  PROVE  /\ rt[r].at = "wait" /\ ~Waiting(want, WantOf(r)) /\ WantOf(r) \in Wants
         /\ UNCHANGED <<config, idle, slots, want, conn, readLoop, put, closing, closes>>
         /\ \/ want[WantOf(r)].pc # None /\ Moves(r, "got", rt[r].try, want[WantOf(r)].pc)
            \/ want[WantOf(r)].pc = None /\ Moves(r, "done", rt[r].try, None)
BY RtFacts DEF TypeOK, Rec, WantOf, Wants, WantType, Ready

\* What EnterRoundTrip changes.
LEMMA EnterRoundTripEffect ==
  ASSUME TypeOK, DialedInv, NEW r \in Reqs, EnterRoundTrip(r)
  PROVE  /\ rt[r].at = "got" /\ rt[r].conn \in Dialed
         /\ UNCHANGED <<config, idle, slots, want, conn, readLoop, closing, closes>>
         /\ \/ Moves(r, "using", rt[r].try, rt[r].conn) /\ put' = put
            \/ ~conn[rt[r].conn].alt /\ Moves(r, "done", rt[r].try, None) /\ PutBecomes(r, "check", rt[r].conn)
BY RtFacts, PutFacts DEF EnterRoundTrip, DialedInv, PointInv, UserInv, Dialed, Putters, Points

\* What RequestFails changes.
LEMMA RequestFailsEffect ==
  ASSUME TypeOK, NEW r \in Reqs, RequestFails(r)
  PROVE  /\ rt[r].at = "using" /\ ~conn[rt[r].conn].alt
         /\ conn[rt[r].conn].closed \/ readLoop[rt[r].conn] # "peek"
         /\ UNCHANGED <<config, idle, slots, want, conn, readLoop, put, closing, closes>>
         /\ Moves(r, "done", rt[r].try, None) \/ Moves(r, "start", rt[r].try + 1, None)
BY RtFacts DEF RequestFails

\* What HTTP2Returns changes.
LEMMA HTTP2ReturnsEffect ==
  ASSUME TypeOK, NEW r \in Reqs, HTTP2Returns(r)
  PROVE  /\ rt[r].at = "using" /\ conn[rt[r].conn].alt
         /\ UNCHANGED <<config, idle, slots, want, conn, readLoop, put, closing, closes>>
         /\ \/ Moves(r, "done", rt[r].try, None)
            \/ config.http2Fails /\ Moves(r, "removeIdle", rt[r].try, rt[r].conn)
<1>1. "removeIdle" \in Points BY DEF Points
<1> QED BY <1>1, RtFacts DEF HTTP2Returns

\* What RemoveNoCached changes.
LEMMA RemoveNoCachedEffect ==
  ASSUME TypeOK, DialedInv, NEW r \in Reqs, RemoveNoCached(r)
  PROVE  /\ rt[r].at = "removeIdle" /\ rt[r].conn \in Dialed
         /\ UNCHANGED <<config, slots, want, conn, readLoop, put, closing, closes>>
         /\ idle' = RemoveIdle(idle, rt[r].conn) /\ idle' \in IdleType
         /\ Moves(r, "decConns", rt[r].try, rt[r].conn)
BY RemoveIdleFacts, RtFacts DEF Points, RemoveNoCached, DialedInv, PointInv, UserInv, TypeOK

\* What DecNoCached changes.
LEMMA DecNoCachedEffect ==
  ASSUME TypeOK, DialedInv, NEW r \in Reqs, DecNoCached(r)
  PROVE  /\ rt[r].at = "decConns" /\ rt[r].conn \in Dialed /\ conn[rt[r].conn].key \in Keys
         /\ UNCHANGED <<config, idle, want, conn, readLoop, put, closing, closes>>
         /\ slots' = DecConnsPerHost(want, slots, conn[rt[r].conn].key) /\ slots' \in SlotsType
         /\ Moves(r, "done", rt[r].try, None) \/ Moves(r, "start", rt[r].try + 1, None)
BY DecFacts, RtFacts DEF DecNoCached, DialedInv, PointInv, UserInv, KeyInv, Dialed, TypeOK

\* What Answered changes.
LEMMA AnsweredEffect ==
  ASSUME TypeOK, DialedInv, NEW r \in Reqs, Answered(r)
  PROVE  LET c == rt[r].conn IN
         /\ rt[r].at = "using" /\ readLoop[c] = "peek" /\ c \in Dialed
         /\ UNCHANGED <<config, idle, slots, want, conn, closing, closes>>
         /\ Moves(r, "done", rt[r].try, None)
         /\ readLoop' = [readLoop EXCEPT ![c] = "ending"]
         /\ PutBecomes(c, "check", c) \/ PutBecomes(c, "close", c)
<1> DEFINE c == rt[r].conn
<1>1. rt[r].at = "using" /\ c \in Dialed BY DEF Answered, DialedInv, PointInv, UserInv
<1>2. c \in Conns /\ c \in Putters BY <1>1 DEF Dialed, Putters
<1>3. Moves(r, "done", rt[r].try, None) BY RtFacts DEF Answered
<1>4. \E l \in {"check", "close"} : put' = Put(c, [at |-> l, conn |-> c]) BY DEF Answered
<1>5. PutBecomes(c, "check", c) \/ PutBecomes(c, "close", c) BY <1>2, <1>4, PutFacts DEF PutPoints
<1> QED BY <1>1, <1>3, <1>5 DEF Answered

\* What Cancelled changes.
LEMMA CancelledEffect ==
  ASSUME TypeOK, DialedInv, NEW r \in Reqs, Cancelled(r)
  PROVE  LET w == WantOf(r) IN
         /\ rt[r].at = "wait" /\ w \in Wants
         /\ UNCHANGED <<config, idle, slots, conn, readLoop, closing, closes>>
         /\ Moves(r, "done", rt[r].try, None)
         /\ want' \in WantType /\ want'[w].pc = None /\ want'[w].err
         /\ \A v \in Wants : v # w => want'[v] = want[v]
         /\ \/ want[w].pc = None /\ put' = put
            \/ want[w].pc \in Dialed /\ PutBecomes(r, "check", want[w].pc)
<1> DEFINE w == WantOf(r)
<1>1. rt[r] \in Rec BY DEF TypeOK, Rec
<1>2. w \in Wants /\ r \in Putters BY <1>1 DEF WantOf, Wants, Rec, Putters
<1>3. want[w].pc \in Dialed \cup {None} BY <1>2 DEF DialedInv, UserInv
<1>4. Moves(r, "done", rt[r].try, None) BY RtFacts DEF Cancelled
<1>5. want' = [want EXCEPT ![w] = [pc |-> None, err |-> TRUE]] BY DEF Cancelled
<1>6. /\ want' \in WantType /\ want'[w].pc = None /\ want'[w].err
      /\ \A v \in Wants : v # w => want'[v] = want[v]
  BY <1>2, <1>5 DEF TypeOK, WantType
<1>7. want[w].pc # None => want[w].pc \in Dialed /\ PutBecomes(r, "check", want[w].pc)
  BY <1>2, <1>3, PutFacts DEF Cancelled, Dialed
<1>8. want[w].pc = None => put' = put BY DEF Cancelled
<1> QED BY <1>2, <1>4, <1>6, <1>7, <1>8 DEF Cancelled

\* What GiveUp changes.
LEMMA GiveUpEffect ==
  ASSUME TypeOK, NEW r \in Reqs, GiveUp(r)
  PROVE  /\ rt[r].at = "start" /\ UNCHANGED <<config, idle, slots, want, conn, readLoop, put, closing, closes>>
         /\ Moves(r, "done", rt[r].try, None)
BY RtFacts DEF GiveUp

\* What ClosedInUse changes.
LEMMA ClosedInUseEffect ==
  ASSUME TypeOK, DialedInv, NEW r \in Reqs, ClosedInUse(r)
  PROVE  /\ rt[r].at = "using" /\ rt[r].conn \in Dialed /\ Close(want, rt[r].conn)
         /\ UNCHANGED <<config, idle, want, rt, readLoop, put, closing, closes>>
BY DEF ClosedInUse, DialedInv, PointInv, UserInv

\* What PutCheck changes.
LEMMA PutCheckEffect ==
  ASSUME TypeOK, DialedInv, NEW p \in Putters, PutCheck(p)
  PROVE  LET c == put[p].conn IN
         /\ put[p].at = "check" /\ c \in Dialed
         /\ UNCHANGED <<config, idle, slots, want, rt, readLoop, closing, closes>>
         /\ conn' \in ConnType
         /\ \A d \in Conns : /\ conn'[d].dialed = conn[d].dialed /\ conn'[d].alt = conn[d].alt
                             /\ conn'[d].key = conn[d].key /\ conn'[d].closed = conn[d].closed
         /\ \/ (~config.keepAlives \/ conn[c].closed) /\ PutBecomes(p, "close", c)
            \/ config.keepAlives /\ ~conn[c].closed /\ PutBecomes(p, "insert", c)
<1> DEFINE c == put[p].conn
<1>1. put[p].at = "check" /\ c \in Dialed BY DEF PutCheck, DialedInv, PointInv, UserInv
<1>2. c \in Conns BY <1>1 DEF Dialed
<1>3. conn \in ConnType BY DEF TypeOK
<1>4. conn' \in ConnType
  <2> DEFINE n == [conn[c] EXCEPT !.reused = TRUE]
  <2>1. n \in [dialed : BOOLEAN, closed : BOOLEAN, alt : BOOLEAN, reused : BOOLEAN, key : Keys \cup {None}]
    BY <1>2, <1>3 DEF ConnType
  <2>2. conn' = [conn EXCEPT ![c] = n] \/ conn' = conn BY DEF PutCheck
  <2> HIDE DEF n
  <2> QED BY <2>1, <2>2, <1>3 DEF ConnType
<1>5. \A d \in Conns : /\ conn'[d].dialed = conn[d].dialed /\ conn'[d].alt = conn[d].alt
                       /\ conn'[d].key = conn[d].key /\ conn'[d].closed = conn[d].closed
  BY <1>2, <1>3 DEF ConnType, PutCheck
<1>6. \/ (~config.keepAlives \/ conn[c].closed) /\ PutBecomes(p, "close", c)
      \/ config.keepAlives /\ ~conn[c].closed /\ PutBecomes(p, "insert", c)
  BY <1>1, <1>2, PutFacts DEF PutCheck, PutPoints
<1> QED BY <1>1, <1>4, <1>5, <1>6 DEF PutCheck

\* A connection that goes to idle: the queue of its host is emptied, and what the queue held.
Emptied(k)  == [idle EXCEPT !.wait[k] = <<>>]
\* The wantConns once tryPutIdleConn has given them c.
Delivered(c) == Deliver(want, IF conn[c].alt THEN Range(idle.wait[conn[c].key]) ELSE {}, c)

\* What PutInsert changes.
LEMMA PutInsertEffect ==
  ASSUME TypeOK, DialedInv, NEW p \in Putters, PutInsert(p)
  PROVE  LET c == put[p].conn  k == conn[c].key  q == idle.wait[k]  w == q[FirstWaiting(want, q)] IN
         /\ put[p].at = "insert" /\ c \in Dialed /\ k \in Keys
         /\ UNCHANGED <<config, rt, closing, closes>>
         /\ \/ /\ conn[c].alt /\ c \in Range(idle.lru)
               /\ UNCHANGED <<idle, want, conn, slots>>
               /\ PutBecomes(p, "none", None)
               /\ readLoop' = IF p = c THEN [readLoop EXCEPT ![c] = "peek"] ELSE readLoop
            \/ /\ ~conn[c].alt /\ w \in Range(q) /\ w \in Wants /\ Waiting(want, w)
               /\ want' = Deliver(want, {w}, c)
               /\ IdleAre(idle', idle.conns, idle.lru, [idle.wait EXCEPT ![k] = PopWaiting(want, q)])
               /\ UNCHANGED <<conn, slots>>
               /\ PutBecomes(p, "none", None)
               /\ readLoop' = IF p = c THEN [readLoop EXCEPT ![c] = "peek"] ELSE readLoop
            \/ /\ ~conn[c].alt => \A v \in Range(q) : ~Waiting(want, v)
               /\ want' = Delivered(c)
               /\ IdleAre(idle', idle.conns, idle.lru, [idle.wait EXCEPT ![k] = <<>>])
               /\ UNCHANGED <<conn, slots, readLoop>>
               /\ PutBecomes(p, "close", c)
            \/ /\ conn[c].alt => c \notin Range(idle.lru)
               /\ ~conn[c].alt => \A v \in Range(q) : ~Waiting(want, v)
               /\ want' = Delivered(c)
               /\ Emptied(k) \in IdleType /\ AddIdle(Emptied(k), want', c)
               /\ PutBecomes(p, "none", None)
               /\ readLoop' = IF p = c THEN [readLoop EXCEPT ![c] = "peek"] ELSE readLoop
<1> DEFINE c == put[p].conn
           k == conn[c].key
           q == idle.wait[k]
           w == q[FirstWaiting(want, q)]
<1>1. put[p].at = "insert" /\ c \in Dialed BY DEF PutInsert, DialedInv, PointInv, UserInv
<1>2. c \in Conns /\ k \in Keys BY <1>1 DEF DialedInv, KeyInv, Dialed
<1>3. /\ idle \in IdleType /\ q \in Seq(Wants) /\ idle.lru \in Seq(Conns)
      /\ idle.conns \in [Keys -> Seq(Conns)] /\ idle.wait \in [Keys -> Seq(Wants)] /\ idle.close \in BOOLEAN
  BY <1>2 DEF TypeOK, IdleType, KeyQueue
<1>4. PopWaiting(want, q) \in Seq(Wants) BY <1>3, PopWaitingFacts
<1>5. \/ FirstWaiting(want, q) = 0 /\ ~(FirstWaiting(want, q) > 0) /\ \A v \in Range(q) : ~Waiting(want, v)
      \/ FirstWaiting(want, q) > 0 /\ w \in Range(q) /\ w \in Wants /\ Waiting(want, w)
  BY <1>3, FirstWaitingRange
<1>6. Contains(idle.lru, c) <=> c \in Range(idle.lru) BY <1>3, ContainsIsInRange
<1>7. PutTaken(c) <=> \/ conn[c].alt /\ c \in Range(idle.lru)
                      \/ ~conn[c].alt /\ FirstWaiting(want, q) > 0
  BY <1>6 DEF PutTaken
<1>8. IdleAre([idle EXCEPT !.wait[k] = <<>>], idle.conns, idle.lru, [idle.wait EXCEPT ![k] = <<>>])
  <2> DEFINE o == <<>>
  <2> SUFFICES IdleAre([idle EXCEPT !.wait[k] = o], idle.conns, idle.lru, [idle.wait EXCEPT ![k] = o]) OBVIOUS
  <2>1. o \in Seq(Wants) OBVIOUS
  <2> HIDE DEF o
  <2> QED BY <2>1, <1>2, <1>3 DEF IdleAre, IdleType, KeyQueue
<1>9. IdleAre([idle EXCEPT !.wait[k] = PopWaiting(want, @)], idle.conns, idle.lru, [idle.wait EXCEPT ![k] = PopWaiting(want, q)])
  <2> DEFINE o == PopWaiting(want, q)
  <2> SUFFICES IdleAre([idle EXCEPT !.wait[k] = o], idle.conns, idle.lru, [idle.wait EXCEPT ![k] = o]) OBVIOUS
  <2> HIDE DEF o
  <2>1. o \in Seq(Wants) BY <1>4 DEF o
  <2> QED BY <2>1, <1>2, <1>3 DEF IdleAre, IdleType, KeyQueue
<1>10. ~PutRefused(c) => /\ PutBecomes(p, "none", None)
                         /\ readLoop' = IF p = c THEN [readLoop EXCEPT ![c] = "peek"] ELSE readLoop
  BY PutFacts DEF PutInsert
<1>11. PutRefused(c) => PutBecomes(p, "close", c) /\ readLoop' = readLoop
  BY PutFacts DEF PutInsert, PutPoints
<1>12. PutTaken(c) => ~PutRefused(c) BY DEF PutRefused
<1>13. UNCHANGED <<config, rt, closing, closes>> /\ TryPutIdleConn(c) BY DEF PutInsert
<1>14. CASE PutTaken(c) /\ conn[c].alt /\ UNCHANGED <<idle, want, conn, slots>>
  BY <1>14, <1>1, <1>2, <1>7, <1>10, <1>12, <1>13
<1>15. CASE /\ PutTaken(c) /\ ~conn[c].alt
            /\ want' = Deliver(want, {w}, c)
            /\ idle' = [idle EXCEPT !.wait[k] = PopWaiting(want, @)]
            /\ UNCHANGED <<conn, slots>>
  BY <1>15, <1>1, <1>2, <1>5, <1>7, <1>9, <1>10, <1>12, <1>13
<1>16. CASE /\ PutRefused(c)
            /\ want' = Delivered(c) /\ idle' = Emptied(k)
            /\ UNCHANGED <<conn, slots>>
  <2>1. ~PutTaken(c) BY <1>16 DEF PutRefused
  <2> QED BY <2>1, <1>16, <1>1, <1>2, <1>5, <1>7, <1>8, <1>11, <1>13 DEF Emptied
<1>17. CASE /\ ~PutTaken(c) /\ ~PutRefused(c)
            /\ want' = Delivered(c)
            /\ AddIdle(Emptied(k), Delivered(c), c)
  <2>1. Emptied(k) \in IdleType BY <1>8 DEF Emptied, IdleAre
  <2> QED BY <2>1, <1>17, <1>1, <1>2, <1>5, <1>7, <1>10, <1>13
<1>18. \/ PutTaken(c) /\ conn[c].alt /\ UNCHANGED <<idle, want, conn, slots>>
       \/ /\ PutTaken(c) /\ ~conn[c].alt
          /\ want' = Deliver(want, {w}, c)
          /\ idle' = [idle EXCEPT !.wait[k] = PopWaiting(want, @)]
          /\ UNCHANGED <<conn, slots>>
       \/ /\ PutRefused(c)
          /\ want' = Delivered(c) /\ idle' = Emptied(k)
          /\ UNCHANGED <<conn, slots>>
       \/ /\ ~PutTaken(c) /\ ~PutRefused(c)
          /\ want' = Delivered(c)
          /\ AddIdle(Emptied(k), Delivered(c), c)
  BY <1>13 DEF TryPutIdleConn, Delivered, Emptied
<1> QED BY <1>14, <1>15, <1>16, <1>17, <1>18

\* What PutClose changes.
LEMMA PutCloseEffect ==
  ASSUME TypeOK, DialedInv, NEW p \in Putters, PutClose(p)
  PROVE  LET c == put[p].conn IN
         /\ put[p].at = "close" /\ c \in Dialed /\ Close(want, c)
         /\ UNCHANGED <<config, idle, want, rt, closing, closes>>
         /\ PutBecomes(p, "none", None)
         /\ readLoop' = IF p = c THEN [readLoop EXCEPT ![c] = "remove"] ELSE readLoop
BY PutFacts DEF PutClose, DialedInv, PointInv, UserInv

\* What DialSucceeds changes.
LEMMA DialSucceedsEffect ==
  ASSUME TypeOK, DialedInv, NEW w \in Wants, NEW c \in Conns, DialSucceeds(w, c)
  PROVE  /\ w \in slots.dialing /\ put[w].at = "none" /\ c \notin Dialed
         /\ UNCHANGED <<config, idle, rt, closing, closes>>
         /\ SlotsAre(slots', slots.count, slots.wait, slots.dialing \ {w}, slots.panic)
         /\ want' = Deliver(want, {w}, c)
         /\ conn' \in ConnType
         /\ \A d \in Conns : d # c => conn'[d] = conn[d]
         /\ conn'[c].dialed /\ conn'[c].key = KeyOfWant(w) /\ conn'[c].closed = conn[c].closed
         /\ readLoop' = [readLoop EXCEPT ![c] = IF conn'[c].alt THEN "none" ELSE "peek"]
         /\ IF conn'[c].alt \/ ~Waiting(want, w) THEN PutBecomes(w, "check", c) ELSE put' = put
<1> PICK alt \in IF config.http2 THEN BOOLEAN ELSE {FALSE} :
      /\ w \in slots.dialing /\ put[w].at = "none" /\ ~conn[c].dialed
      /\ slots' = [slots EXCEPT !.dialing = @ \ {w}]
      /\ conn' = [conn EXCEPT ![c] = [@ EXCEPT !.dialed = TRUE, !.alt = alt, !.key = KeyOfWant(w)]]
      /\ readLoop' = [readLoop EXCEPT ![c] = IF alt THEN "none" ELSE "peek"]
      /\ want' = Deliver(want, {w}, c)
      /\ put' = IF alt \/ ~Waiting(want, w) THEN PutBegins(w, c) ELSE put
      /\ UNCHANGED <<config, idle, rt, closing, closes>>
  BY DEF DialSucceeds
<1>1. c \notin Dialed BY DEF Dialed
<1>2. slots \in SlotsType /\ conn \in ConnType BY DEF TypeOK
<1>3. SlotsAre(slots', slots.count, slots.wait, slots.dialing \ {w}, slots.panic)
  BY <1>2 DEF SlotsAre, SlotsType
<1>4. KeyOfWant(w) \in Keys BY DEF KeyOfWant, Wants, TypeOK
<1>5. alt \in BOOLEAN OBVIOUS
<1> DEFINE n == [conn[c] EXCEPT !.dialed = TRUE, !.alt = alt, !.key = KeyOfWant(w)]
<1>6. /\ n \in [dialed : BOOLEAN, closed : BOOLEAN, alt : BOOLEAN, reused : BOOLEAN, key : Keys \cup {None}]
      /\ n.dialed /\ n.key = KeyOfWant(w) /\ n.closed = conn[c].closed /\ n.alt = alt
  BY <1>2, <1>4, <1>5 DEF ConnType
<1> HIDE DEF n
<1>7. /\ conn' \in ConnType /\ conn'[c] = n
      /\ \A d \in Conns : d # c => conn'[d] = conn[d]
  BY <1>2, <1>6 DEF ConnType, n
<1>8. w \in Putters BY DEF Putters
<1>9. IF conn'[c].alt \/ ~Waiting(want, w) THEN PutBecomes(w, "check", c) ELSE put' = put
  BY <1>6, <1>7, <1>8, PutFacts
<1> QED BY <1>1, <1>3, <1>6, <1>7, <1>9

\* What DialFails changes.
LEMMA DialFailsEffect ==
  ASSUME TypeOK, NEW w \in Wants, DialFails(w)
  PROVE  /\ w \in slots.dialing /\ put[w].at = "none"
         /\ UNCHANGED <<config, idle, slots, rt, conn, readLoop, closing, closes>>
         /\ want' \in WantType /\ want'[w].pc = want[w].pc /\ ~Waiting(want', w)
         /\ \A v \in Wants : v # w => want'[v] = want[v]
         /\ PutBecomes(w, "dec", put[w].conn)
BY PutFacts DEF TypeOK, Putters, WantType, DialFails, Waiting, PutPoints

\* What DialDec changes.
LEMMA DialDecEffect ==
  ASSUME TypeOK, NEW w \in Wants, DialDec(w)
  PROVE  LET s == [slots EXCEPT !.dialing = @ \ {w}] IN
         /\ put[w].at = "dec" /\ KeyOfWant(w) \in Keys
         /\ UNCHANGED <<config, idle, want, rt, conn, readLoop, closing, closes>>
         /\ SlotsAre(s, slots.count, slots.wait, slots.dialing \ {w}, slots.panic)
         /\ slots' = DecConnsPerHost(want, s, KeyOfWant(w)) /\ slots' \in SlotsType
         /\ PutBecomes(w, "none", None)
<1> DEFINE s == [slots EXCEPT !.dialing = @ \ {w}]
<1>1. slots \in SlotsType /\ w \in Putters BY DEF TypeOK, Putters
<1>2. KeyOfWant(w) \in Keys BY DEF KeyOfWant, Wants, TypeOK
<1>3. SlotsAre(s, slots.count, slots.wait, slots.dialing \ {w}, slots.panic)
  BY <1>1 DEF SlotsAre, SlotsType
<1>4. slots' = DecConnsPerHost(want, s, KeyOfWant(w)) BY DEF DialDec
<1> HIDE DEF s
<1>5. slots' \in SlotsType BY <1>2, <1>3, <1>4, DecFacts DEF SlotsAre
<1>6. PutBecomes(w, "none", None) BY <1>1, PutFacts DEF DialDec
<1> QED BY <1>2, <1>3, <1>4, <1>5, <1>6 DEF DialDec, s

\* What ReadFails changes.
LEMMA ReadFailsEffect ==
  ASSUME TypeOK, NEW c \in Conns, ReadFails(c)
  PROVE  /\ readLoop[c] = "peek"
         /\ readLoop' = [readLoop EXCEPT ![c] = "ending"]
         /\ PutBecomes(c, "close", c)
         /\ UNCHANGED <<config, idle, slots, want, rt, conn, closing, closes>>
<1>1. c \in Putters BY DEF Putters
<1> QED BY <1>1, PutFacts DEF ReadFails, PutPoints

\* What ReadLoopRemoves changes.
LEMMA ReadLoopRemovesEffect ==
  ASSUME TypeOK, DialedInv, NEW c \in Conns, ReadLoopRemoves(c)
  PROVE  /\ readLoop[c] = "remove" /\ c \in Dialed
         /\ idle' = RemoveIdle(idle, c) /\ idle' \in IdleType
         /\ readLoop' = [readLoop EXCEPT ![c] = "gone"]
         /\ UNCHANGED <<config, slots, want, rt, conn, put, closing, closes>>
BY RemoveIdleFacts DEF ReadLoopRemoves, DialedInv, KeyInv, Dialed, TypeOK

\* What CloseConnIfStillIdle changes.
LEMMA CloseConnIfStillIdleEffect ==
  ASSUME TypeOK, DialedInv, NEW c \in Conns, CloseConnIfStillIdle(c)
  PROVE  /\ ~conn[c].alt /\ c \in Range(idle.lru) /\ c \in Dialed
         /\ idle' = RemoveIdle(idle, c) /\ idle' \in IdleType /\ Close(want, c)
         /\ UNCHANGED <<config, want, rt, readLoop, put, closing, closes>>
BY ContainsIsInRange, RemoveIdleFacts DEF TypeOK, IdleType, CloseConnIfStillIdle, DialedInv, PoolInv

\* What CloseTaken changes.
LEMMA CloseTakenEffect ==
  ASSUME TypeOK, DialedInv, NEW c \in Conns, CloseTaken(c)
  PROVE  /\ c \in closing /\ c \in Dialed /\ closing' = closing \ {c} /\ Close(want, c)
         /\ UNCHANGED <<config, idle, want, rt, readLoop, put, closes>>
BY DEF CloseTaken, DialedInv, PoolInv

\* What CloseIdleConnections changes.
LEMMA CloseIdleConnectionsEffect ==
  ASSUME TypeOK, DialedInv, CloseIdleConnections
  PROVE  /\ closing = {} /\ closing' = {c \in Conns : Listed(c)}
         /\ closes' \in Nat
         /\ IdleAre(idle', [k \in Keys |-> <<>>], <<>>, idle.wait)
         /\ UNCHANGED <<config, slots, want, rt, conn, readLoop, put>>
<1>1. idle \in IdleType /\ idle.conns \in [Keys -> Seq(Conns)] BY DEF TypeOK, IdleType, KeyQueue
<1>2. \A c : Listed(c) <=> \E k \in Keys : c \in Range(idle.conns[k])
  BY <1>1, ContainsIsInRange DEF Listed
<1>3. \A k \in Keys : Range(idle.conns[k]) \subseteq Conns BY <1>1, RangeType
<1>4. closing' = {c \in Conns : Listed(c)} BY <1>2, <1>3 DEF CloseIdleConnections
<1>5. IdleAre(idle', [k \in Keys |-> <<>>], <<>>, idle.wait)
  <2> DEFINE o == <<>>
             e == [k \in Keys |-> o]
  <2>1. o \in Seq(Conns) OBVIOUS
  <2>2. idle' = [idle EXCEPT !.conns = e, !.lru = o, !.close = TRUE] BY DEF CloseIdleConnections
  <2>3. e \in [Keys -> Seq(Conns)] BY <2>1
  <2> HIDE DEF o, e
  <2>4. IdleAre(idle', e, o, idle.wait) BY <2>1, <2>2, <2>3, <1>1 DEF IdleAre, IdleType, KeyQueue
  <2> QED BY <2>4 DEF o, e
<1> QED BY <1>4, <1>5 DEF CloseIdleConnections, TypeOK

-----------------------------------------------------------------------------
(* The types and the invariant of connections are kept by every action.      *)

\* RemoveIdle leaves only connections that were in the pool.
LEMMA RemovedFromPool ==
  ASSUME TypeOK, DialedInv, NEW c \in Dialed, idle' = RemoveIdle(idle, c)
  PROVE  /\ Range(idle'.lru) \subseteq Range(idle.lru)
         /\ \A k \in Keys : Range(idle'.conns[k]) \subseteq Range(idle.conns[k])
<1>1. idle \in IdleType /\ KeyInv BY DEF TypeOK, DialedInv
<1> QED BY <1>1, RemoveIdleFacts

\* QueueForIdleConn keeps the types and the invariant of connections.
LEMMA QueueForIdleConnTyped ==
  ASSUME TypeOK, DialedInv, NEW r \in Reqs, QueueForIdleConn(r) PROVE TypeOK' /\ DialedInv'
<1>1. TypeOK'
  <2> DEFINE k == rt[r].key
             u == Usable(idle.conns[k])
             last == u[Len(u)]
  <2>1. k \in Keys /\ idle.conns[k] \in Seq(Conns) /\ want \in WantType
    BY DEF TypeOK, IdleType, KeyQueue
  <2>2. last \in Range(idle.conns[k]) => last \in Conns BY <2>1, RangeType
  <2>7. \/ want' = want
        \/ last \in Range(idle.conns[k]) /\ want' = Deliver(want, {WantOf(r)}, last)
    BY QueueForIdleConnEffect
  <2>6. \/ want' = want
        \/ last \in Conns /\ want' = Deliver(want, {WantOf(r)}, last)
    BY <2>2, <2>7
  <2>3. want' \in WantType
    <3> HIDE DEF last
    <3> QED BY <2>1, <2>6, DeliverFacts
  <2>4. rt' \in RtType BY QueueForIdleConnEffect DEF Moves
  <2>5. idle' \in IdleType BY QueueForIdleConnEffect DEF IdleAre, TypeOK
  <2> QED BY <2>3, <2>4, <2>5, QueueForIdleConnEffect DEF TypeOK, RtType, Rec
<1>2. KeyInv'
  BY QueueForIdleConnEffect, DeliverFacts
     DEF DialedInv, KeyInv, Dialed, TypeOK, ConnType, KeyOfWant, Wants, RtType, Rec
<1>3. PoolInv'
  <2> DEFINE k == rt[r].key
             u == Usable(idle.conns[k])
             last == u[Len(u)]
  <2>1. k \in Keys /\ idle.conns[k] \in Seq(Conns) /\ want \in WantType
    BY DEF TypeOK, IdleType, KeyQueue
  <2>2. Range(u) \subseteq Range(idle.conns[k]) /\ (u # <<>> => Range(Front(u)) \subseteq Range(idle.conns[k]))
    BY <2>1, UsableFacts
  <2>3. idle.lru \in Seq(Conns) /\ idle.conns \in [Keys -> Seq(Conns)]
    BY DEF TypeOK, IdleType, KeyQueue
  <2>4. Range(RemoveFirst(idle.lru, last)) \subseteq Range(idle.lru) BY <2>3, RemoveFirstFacts
  <2>5. Range(idle'.lru) \subseteq Range(idle.lru) BY <2>4, QueueForIdleConnEffect DEF IdleAre
  <2>8. \/ \E l : idle'.conns = [idle.conns EXCEPT ![k] = l] /\ Range(l) \subseteq Range(idle.conns[k])
        \/ idle'.conns = idle.conns
    BY <2>2, RangeOfEmpty, QueueForIdleConnEffect DEF IdleAre
  <2>6. \A j \in Keys : Range(idle'.conns[j]) \subseteq Range(idle.conns[j])
    <3> HIDE DEF k
    <3> QED BY <2>1, <2>3, <2>8
  <2>7. Dialed' = Dialed BY QueueForIdleConnEffect DEF Dialed
  <2> QED BY <2>5, <2>6, <2>7, QueueForIdleConnEffect DEF DialedInv, PoolInv
<1>4. UserInv'
  <2> DEFINE k == rt[r].key
             u == Usable(idle.conns[k])
             last == u[Len(u)]
  <2>1. k \in Keys /\ idle.conns[k] \in Seq(Conns) /\ want \in WantType
    BY DEF TypeOK, IdleType, KeyQueue
  <2>2. last \in Range(idle.conns[k]) => last \in Dialed /\ last \in Conns
    BY <2>1 DEF DialedInv, PoolInv, Dialed
  <2>3. Dialed' = Dialed BY QueueForIdleConnEffect DEF Dialed
  <2>7. \/ want' = want
        \/ last \in Range(idle.conns[k]) /\ want' = Deliver(want, {WantOf(r)}, last)
    BY QueueForIdleConnEffect
  <2>6. \/ want' = want
        \/ last \in Dialed /\ last \in Conns /\ want' = Deliver(want, {WantOf(r)}, last)
    BY <2>2, <2>7
  <2>4. \A v \in Wants : want'[v].pc = want[v].pc \/ want'[v].pc \in Dialed
    <3> HIDE DEF last
    <3> QED BY <2>1, <2>6, DeliverFacts
  <2>5. \A q \in Reqs : rt'[q].conn = rt[q].conn \/ rt'[q].conn \in Dialed
    BY <2>2, QueueForIdleConnEffect DEF Moves
  <2> QED BY <2>3, <2>4, <2>5, QueueForIdleConnEffect DEF DialedInv, UserInv
<1>5. PointInv'
  <2> DEFINE k == rt[r].key
             u == Usable(idle.conns[k])
             last == u[Len(u)]
  <2>1. k \in Keys /\ idle.conns[k] \in Seq(Conns) /\ want \in WantType
    BY DEF TypeOK, IdleType, KeyQueue
  <2>2. last \in Range(idle.conns[k]) => last # None BY <2>1, RangeType, ConstantsAssumption
  <2>3. rt[r].conn = None BY QueueForIdleConnEffect DEF DialedInv, PointInv
  <2> QED BY ZenonT(60), <2>2, <2>3, QueueForIdleConnEffect DEF DialedInv, PointInv, Moves
<1> QED BY <1>1, <1>2, <1>3, <1>4, <1>5 DEF DialedInv

\* QueueForDial keeps the types and the invariant of connections.
LEMMA QueueForDialTyped ==
  ASSUME TypeOK, DialedInv, NEW r \in Reqs, QueueForDial(r) PROVE TypeOK' /\ DialedInv'
<1>1. TypeOK'
  BY QueueForDialEffect DEF TypeOK, Moves, RtType, Rec, PutBecomes, PutType, SlotsAre, IdleAre,
     LoopPoints, DialedInv, Dialed
<1>2. KeyInv'
  BY QueueForDialEffect DEF DialedInv, KeyInv, Dialed, TypeOK, ConnType, KeyOfWant, Wants, RtType,
     Rec
<1>3. PoolInv'
  BY QueueForDialEffect DEF DialedInv, PoolInv, Dialed, IdleAre, TypeOK, IdleType, KeyQueue
<1>4. UserInv'
  BY QueueForDialEffect DEF DialedInv, UserInv, Dialed, Moves, PutBecomes, TypeOK, PutType,
     RtType, Putters
<1>5. PointInv'
  BY ZenonT(60), QueueForDialEffect, ConstantsAssumption
     DEF DialedInv, PointInv, UserInv, Dialed, Moves, PutBecomes, Putters
<1> QED BY <1>1, <1>2, <1>3, <1>4, <1>5 DEF DialedInv

\* Ready keeps the types and the invariant of connections.
LEMMA ReadyTyped ==
  ASSUME TypeOK, DialedInv, NEW r \in Reqs, Ready(r) PROVE TypeOK' /\ DialedInv'
<1>1. TypeOK'
  BY ReadyEffect DEF TypeOK, Moves, RtType, Rec, PutBecomes, PutType, SlotsAre, IdleAre,
     LoopPoints, DialedInv, Dialed
<1>2. KeyInv'
  BY ReadyEffect DEF DialedInv, KeyInv, Dialed, TypeOK, ConnType, KeyOfWant, Wants, RtType, Rec
<1>3. PoolInv'
  BY ReadyEffect DEF DialedInv, PoolInv, Dialed, IdleAre, TypeOK, IdleType, KeyQueue
<1>4. UserInv'
  BY ReadyEffect DEF DialedInv, UserInv, Dialed, Moves, PutBecomes, TypeOK, PutType, RtType, Putters
<1>5. PointInv'
  BY ReadyEffect, ConstantsAssumption DEF DialedInv, PointInv, UserInv, Dialed, Moves, PutBecomes,
     Putters
<1> QED BY <1>1, <1>2, <1>3, <1>4, <1>5 DEF DialedInv

\* EnterRoundTrip keeps the types and the invariant of connections.
LEMMA EnterRoundTripTyped ==
  ASSUME TypeOK, DialedInv, NEW r \in Reqs, EnterRoundTrip(r) PROVE TypeOK' /\ DialedInv'
<1>1. TypeOK'
  BY EnterRoundTripEffect DEF TypeOK, Moves, RtType, Rec, PutBecomes, PutType, SlotsAre, IdleAre,
     LoopPoints, DialedInv, Dialed
<1>2. KeyInv'
  BY EnterRoundTripEffect DEF DialedInv, KeyInv, Dialed, TypeOK, ConnType, KeyOfWant, Wants,
     RtType, Rec
<1>3. PoolInv'
  BY EnterRoundTripEffect DEF DialedInv, PoolInv, Dialed, IdleAre, TypeOK, IdleType, KeyQueue
<1>4. UserInv'
  BY ZenonT(60), EnterRoundTripEffect DEF DialedInv, UserInv, Dialed, Moves, PutBecomes, TypeOK, PutType,
     RtType, Putters
<1>5. PointInv'
  BY EnterRoundTripEffect, ConstantsAssumption
     DEF DialedInv, PointInv, UserInv, Dialed, Moves, PutBecomes, Putters
<1> QED BY <1>1, <1>2, <1>3, <1>4, <1>5 DEF DialedInv

\* RequestFails keeps the types and the invariant of connections.
LEMMA RequestFailsTyped ==
  ASSUME TypeOK, DialedInv, NEW r \in Reqs, RequestFails(r) PROVE TypeOK' /\ DialedInv'
<1>1. TypeOK'
  BY RequestFailsEffect DEF TypeOK, Moves, RtType, Rec, PutBecomes, PutType, SlotsAre, IdleAre,
     LoopPoints, DialedInv, Dialed
<1>2. KeyInv'
  BY RequestFailsEffect DEF DialedInv, KeyInv, Dialed, TypeOK, ConnType, KeyOfWant, Wants, RtType,
     Rec
<1>3. PoolInv'
  BY RequestFailsEffect DEF DialedInv, PoolInv, Dialed, IdleAre, TypeOK, IdleType, KeyQueue
<1>4. UserInv'
  BY RequestFailsEffect DEF DialedInv, UserInv, Dialed, Moves, PutBecomes, TypeOK, PutType,
     RtType, Putters
<1>5. PointInv'
  BY RequestFailsEffect, ConstantsAssumption
     DEF DialedInv, PointInv, UserInv, Dialed, Moves, PutBecomes, Putters
<1> QED BY <1>1, <1>2, <1>3, <1>4, <1>5 DEF DialedInv

\* HTTP2Returns keeps the types and the invariant of connections.
LEMMA HTTP2ReturnsTyped ==
  ASSUME TypeOK, DialedInv, NEW r \in Reqs, HTTP2Returns(r) PROVE TypeOK' /\ DialedInv'
<1>1. TypeOK'
  BY HTTP2ReturnsEffect DEF TypeOK, Moves, RtType, Rec, PutBecomes, PutType, SlotsAre, IdleAre,
     LoopPoints, DialedInv, Dialed
<1>2. KeyInv'
  BY HTTP2ReturnsEffect DEF DialedInv, KeyInv, Dialed, TypeOK, ConnType, KeyOfWant, Wants, RtType,
     Rec
<1>3. PoolInv'
  BY HTTP2ReturnsEffect DEF DialedInv, PoolInv, Dialed, IdleAre, TypeOK, IdleType, KeyQueue
<1>4. UserInv'
  BY HTTP2ReturnsEffect DEF DialedInv, UserInv, Dialed, Moves, PutBecomes, TypeOK, PutType,
     RtType, Putters
<1>5. PointInv'
  BY HTTP2ReturnsEffect, ConstantsAssumption
     DEF DialedInv, PointInv, UserInv, Dialed, Moves, PutBecomes, Putters
<1> QED BY <1>1, <1>2, <1>3, <1>4, <1>5 DEF DialedInv

\* RemoveNoCached keeps the types and the invariant of connections.
LEMMA RemoveNoCachedTyped ==
  ASSUME TypeOK, DialedInv, NEW r \in Reqs, RemoveNoCached(r) PROVE TypeOK' /\ DialedInv'
<1>1. TypeOK'
  BY RemoveNoCachedEffect DEF TypeOK, Moves, RtType, Rec, PutBecomes, PutType, SlotsAre, IdleAre,
     LoopPoints, DialedInv, Dialed
<1>2. KeyInv'
  BY RemoveNoCachedEffect DEF DialedInv, KeyInv, Dialed, TypeOK, ConnType, KeyOfWant, Wants,
     RtType, Rec
<1>3. PoolInv'
  BY RemoveNoCachedEffect, RemovedFromPool DEF DialedInv, PoolInv, Dialed
<1>4. UserInv'
  BY RemoveNoCachedEffect DEF DialedInv, UserInv, Dialed, Moves, PutBecomes, TypeOK, PutType,
     RtType, Putters
<1>5. PointInv'
  BY RemoveNoCachedEffect, ConstantsAssumption
     DEF DialedInv, PointInv, UserInv, Dialed, Moves, PutBecomes, Putters
<1> QED BY <1>1, <1>2, <1>3, <1>4, <1>5 DEF DialedInv

\* DecNoCached keeps the types and the invariant of connections.
LEMMA DecNoCachedTyped ==
  ASSUME TypeOK, DialedInv, NEW r \in Reqs, DecNoCached(r) PROVE TypeOK' /\ DialedInv'
<1>1. TypeOK'
  BY DecNoCachedEffect DEF TypeOK, Moves, RtType, Rec, PutBecomes, PutType, SlotsAre, IdleAre,
     LoopPoints, DialedInv, Dialed
<1>2. KeyInv'
  BY DecNoCachedEffect DEF DialedInv, KeyInv, Dialed, TypeOK, ConnType, KeyOfWant, Wants, RtType,
     Rec
<1>3. PoolInv'
  BY DecNoCachedEffect DEF DialedInv, PoolInv, Dialed, IdleAre, TypeOK, IdleType, KeyQueue
<1>4. UserInv'
  BY DecNoCachedEffect DEF DialedInv, UserInv, Dialed, Moves, PutBecomes, TypeOK, PutType, RtType,
     Putters
<1>5. PointInv'
  BY DecNoCachedEffect, ConstantsAssumption
     DEF DialedInv, PointInv, UserInv, Dialed, Moves, PutBecomes, Putters
<1> QED BY <1>1, <1>2, <1>3, <1>4, <1>5 DEF DialedInv

\* Answered keeps the types and the invariant of connections.
LEMMA AnsweredTyped ==
  ASSUME TypeOK, DialedInv, NEW r \in Reqs, Answered(r) PROVE TypeOK' /\ DialedInv'
<1>1. TypeOK'
  BY AnsweredEffect DEF TypeOK, Moves, RtType, Rec, PutBecomes, PutType, SlotsAre, IdleAre,
     LoopPoints, DialedInv, Dialed
<1>2. KeyInv'
  BY AnsweredEffect DEF DialedInv, KeyInv, Dialed, TypeOK, ConnType, KeyOfWant, Wants, RtType, Rec
<1>3. PoolInv'
  BY AnsweredEffect DEF DialedInv, PoolInv, Dialed, IdleAre, TypeOK, IdleType, KeyQueue
<1>4. UserInv'
  BY AnsweredEffect DEF Dialed, Putters, DialedInv, UserInv, PutBecomes, Moves
<1>5. PointInv'
  BY AnsweredEffect, ConstantsAssumption DEF DialedInv, PointInv, UserInv, Dialed, Moves,
     PutBecomes, Putters
<1> QED BY <1>1, <1>2, <1>3, <1>4, <1>5 DEF DialedInv

\* Cancelled keeps the types and the invariant of connections.
LEMMA CancelledTyped ==
  ASSUME TypeOK, DialedInv, NEW r \in Reqs, Cancelled(r) PROVE TypeOK' /\ DialedInv'
<1>1. TypeOK'
  BY CancelledEffect DEF TypeOK, Moves, RtType, Rec, PutBecomes, PutType, SlotsAre, IdleAre,
     LoopPoints, DialedInv, Dialed
<1>2. KeyInv'
  BY CancelledEffect DEF DialedInv, KeyInv, Dialed, TypeOK, ConnType, KeyOfWant, Wants, RtType, Rec
<1>3. PoolInv'
  BY CancelledEffect DEF DialedInv, PoolInv, Dialed, IdleAre, TypeOK, IdleType, KeyQueue
<1>4. UserInv'
  BY ZenonT(60), CancelledEffect DEF DialedInv, UserInv, Dialed, Moves, PutBecomes, TypeOK, PutType, RtType,
     Putters
<1>5. PointInv'
  BY CancelledEffect, ConstantsAssumption
     DEF DialedInv, PointInv, UserInv, Dialed, Moves, PutBecomes, Putters
<1> QED BY <1>1, <1>2, <1>3, <1>4, <1>5 DEF DialedInv

\* GiveUp keeps the types and the invariant of connections.
LEMMA GiveUpTyped ==
  ASSUME TypeOK, DialedInv, NEW r \in Reqs, GiveUp(r) PROVE TypeOK' /\ DialedInv'
<1>1. TypeOK'
  BY GiveUpEffect DEF TypeOK, Moves, RtType, Rec, PutBecomes, PutType, SlotsAre, IdleAre,
     LoopPoints, DialedInv, Dialed
<1>2. KeyInv'
  BY GiveUpEffect DEF DialedInv, KeyInv, Dialed, TypeOK, ConnType, KeyOfWant, Wants, RtType, Rec
<1>3. PoolInv'
  BY GiveUpEffect DEF DialedInv, PoolInv, Dialed, IdleAre, TypeOK, IdleType, KeyQueue
<1>4. UserInv'
  BY GiveUpEffect DEF DialedInv, UserInv, Dialed, Moves, PutBecomes, TypeOK, PutType, RtType,
     Putters
<1>5. PointInv'
  BY GiveUpEffect, ConstantsAssumption DEF DialedInv, PointInv, UserInv, Dialed, Moves,
     PutBecomes, Putters
<1> QED BY <1>1, <1>2, <1>3, <1>4, <1>5 DEF DialedInv

\* ClosedInUse keeps the types and the invariant of connections.
LEMMA ClosedInUseTyped ==
  ASSUME TypeOK, DialedInv, NEW r \in Reqs, ClosedInUse(r) PROVE TypeOK' /\ DialedInv'
<1>1. TypeOK'
  BY ClosedInUseEffect, CloseFacts DEF TypeOK, Moves, RtType, Rec, PutBecomes, PutType, SlotsAre,
     IdleAre, LoopPoints, DialedInv, Dialed
<1>2. KeyInv'
  BY ClosedInUseEffect, CloseFacts DEF DialedInv, KeyInv, Dialed, TypeOK, ConnType, KeyOfWant,
     Wants, RtType, Rec
<1>3. PoolInv'
  BY ZenonT(60), ClosedInUseEffect, CloseFacts DEF DialedInv, PoolInv, Dialed, IdleAre, TypeOK, IdleType,
     KeyQueue
<1>4. UserInv'
  BY ClosedInUseEffect, CloseFacts DEF DialedInv, UserInv, Dialed, Moves, PutBecomes, TypeOK,
     PutType, RtType, Putters
<1>5. PointInv'
  BY ClosedInUseEffect, CloseFacts, ConstantsAssumption
     DEF DialedInv, PointInv, UserInv, Dialed, Moves, PutBecomes, Putters
<1> QED BY <1>1, <1>2, <1>3, <1>4, <1>5 DEF DialedInv

\* PutCheck keeps the types and the invariant of connections.
LEMMA PutCheckTyped ==
  ASSUME TypeOK, DialedInv, NEW p \in Putters, PutCheck(p) PROVE TypeOK' /\ DialedInv'
<1>1. TypeOK'
  BY PutCheckEffect DEF TypeOK, Moves, RtType, Rec, PutBecomes, PutType, SlotsAre, IdleAre,
     LoopPoints, DialedInv, Dialed
<1>2. KeyInv'
  BY PutCheckEffect DEF DialedInv, KeyInv, Dialed, TypeOK, ConnType, KeyOfWant, Wants, RtType, Rec
<1>3. PoolInv'
  BY PutCheckEffect DEF DialedInv, PoolInv, Dialed, IdleAre, TypeOK, IdleType, KeyQueue
<1>4. UserInv'
  BY ZenonT(60), PutCheckEffect DEF DialedInv, UserInv, Dialed, Moves, PutBecomes, TypeOK, PutType, RtType,
     Putters
<1>5. PointInv'
  BY PutCheckEffect, ConstantsAssumption DEF DialedInv, PointInv, UserInv, Dialed, Moves,
     PutBecomes, Putters
<1> QED BY <1>1, <1>2, <1>3, <1>4, <1>5 DEF DialedInv

\* PutClose keeps the types and the invariant of connections.
LEMMA PutCloseTyped ==
  ASSUME TypeOK, DialedInv, NEW p \in Putters, PutClose(p) PROVE TypeOK' /\ DialedInv'
<1>1. TypeOK'
  BY PutCloseEffect, CloseFacts DEF TypeOK, Moves, RtType, Rec, PutBecomes, PutType, SlotsAre,
     IdleAre, LoopPoints, DialedInv, Dialed
<1>2. KeyInv'
  BY PutCloseEffect, CloseFacts DEF DialedInv, KeyInv, Dialed, TypeOK, ConnType, KeyOfWant, Wants,
     RtType, Rec
<1>3. PoolInv'
  BY PutCloseEffect, CloseFacts DEF Dialed, DialedInv, PoolInv
<1>4. UserInv'
  BY PutCloseEffect, CloseFacts DEF Dialed, DialedInv, UserInv, PutBecomes
<1>5. PointInv'
  BY PutCloseEffect, CloseFacts, ConstantsAssumption
     DEF DialedInv, PointInv, UserInv, Dialed, Moves, PutBecomes, Putters
<1> QED BY <1>1, <1>2, <1>3, <1>4, <1>5 DEF DialedInv

\* DialSucceeds keeps the types and the invariant of connections.
LEMMA DialSucceedsTyped ==
  ASSUME TypeOK, DialedInv, NEW w \in Wants, NEW c \in Conns, DialSucceeds(w, c)
  PROVE  TypeOK' /\ DialedInv'
<1>1. TypeOK'
  <2>1. want \in WantType BY DEF TypeOK
  <2>6. want' = Deliver(want, {w}, c) BY DialSucceedsEffect
  <2>2. want' \in WantType BY <2>1, <2>6, DeliverFacts
  <2>3. put' \in PutType BY DialSucceedsEffect DEF TypeOK, PutType, PutBecomes
  <2>4. slots' \in SlotsType BY DialSucceedsEffect DEF SlotsAre
  <2>5. readLoop' \in [Conns -> LoopPoints] BY DialSucceedsEffect DEF TypeOK, LoopPoints
  <2> QED BY <2>2, <2>3, <2>4, <2>5, DialSucceedsEffect DEF TypeOK, PutType
<1>2. KeyInv'
  <2>1. KeyOfWant(w) \in Keys BY DEF KeyOfWant, Wants, TypeOK
  <2>2. ASSUME NEW d \in Conns, d # c PROVE conn'[d] = conn[d] /\ readLoop'[d] = readLoop[d]
    BY <2>2, DialSucceedsEffect DEF TypeOK
  <2>3. conn'[c].dialed /\ conn'[c].key \in Keys BY <2>1, DialSucceedsEffect
  <2> QED BY <2>2, <2>3 DEF DialedInv, KeyInv
<1>3. PoolInv'
  BY ZenonT(60), DialSucceedsEffect, DeliverFacts DEF DialedInv, PoolInv, Dialed, IdleAre, TypeOK, IdleType,
     KeyQueue
<1>4. UserInv'
  <2>1. Dialed' = Dialed \cup {c} BY DialSucceedsEffect DEF Dialed
  <2>2. want \in WantType /\ w \in Putters BY DEF TypeOK, Putters
  <2>5. want' = Deliver(want, {w}, c) BY DialSucceedsEffect
  <2>3. \A v \in Wants : want'[v].pc \in {want[v].pc, c} BY <2>2, <2>5, DeliverFacts
  <2>4. \A p \in Putters : put'[p].conn \in {put[p].conn, c}
    BY ZenonT(60), <2>2, DialSucceedsEffect DEF PutBecomes
  <2> QED BY <2>1, <2>3, <2>4, DialSucceedsEffect DEF DialedInv, UserInv
<1>5. PointInv'
  <2>1. c # None /\ w \in Putters BY ConstantsAssumption DEF Putters
  <2>3. put' = put \/ PutBecomes(w, "check", c) BY DialSucceedsEffect
  <2>2. \A p \in Putters : put'[p] = put[p] \/ (put'[p].at = "check" /\ put'[p].conn = c)
    BY <2>3 DEF PutBecomes
  <2> QED BY ZenonT(60), <2>1, <2>2, DialSucceedsEffect DEF DialedInv, PointInv
<1> QED BY <1>1, <1>2, <1>3, <1>4, <1>5 DEF DialedInv

\* DialFails keeps the types and the invariant of connections.
LEMMA DialFailsTyped ==
  ASSUME TypeOK, DialedInv, NEW w \in Wants, DialFails(w) PROVE TypeOK' /\ DialedInv'
<1>1. TypeOK'
  BY DialFailsEffect DEF TypeOK, Moves, RtType, Rec, PutBecomes, PutType, SlotsAre, IdleAre,
     LoopPoints, DialedInv, Dialed
<1>2. KeyInv'
  BY DialFailsEffect DEF DialedInv, KeyInv, Dialed, TypeOK, ConnType, KeyOfWant, Wants, RtType, Rec
<1>3. PoolInv'
  BY DialFailsEffect DEF DialedInv, PoolInv, Dialed, IdleAre, TypeOK, IdleType, KeyQueue
<1>4. UserInv'
  BY DialFailsEffect DEF DialedInv, UserInv, Dialed, Moves, PutBecomes, TypeOK, PutType, RtType,
     Putters
<1>5. PointInv'
  BY DialFailsEffect, ConstantsAssumption
     DEF DialedInv, PointInv, UserInv, Dialed, Moves, PutBecomes, Putters
<1> QED BY <1>1, <1>2, <1>3, <1>4, <1>5 DEF DialedInv

\* DialDec keeps the types and the invariant of connections.
LEMMA DialDecTyped ==
  ASSUME TypeOK, DialedInv, NEW w \in Wants, DialDec(w) PROVE TypeOK' /\ DialedInv'
<1>1. TypeOK'
  BY DialDecEffect DEF TypeOK, Moves, RtType, Rec, PutBecomes, PutType, SlotsAre, IdleAre,
     LoopPoints, DialedInv, Dialed
<1>2. KeyInv'
  BY DialDecEffect DEF DialedInv, KeyInv, Dialed, TypeOK, ConnType, KeyOfWant, Wants, RtType, Rec
<1>3. PoolInv'
  BY DialDecEffect DEF DialedInv, PoolInv, Dialed, IdleAre, TypeOK, IdleType, KeyQueue
<1>4. UserInv'
  BY DialDecEffect DEF DialedInv, UserInv, Dialed, Moves, PutBecomes, TypeOK, PutType, RtType,
     Putters
<1>5. PointInv'
  BY ZenonT(60), DialDecEffect, ConstantsAssumption DEF DialedInv, PointInv, UserInv, Dialed, Moves,
     PutBecomes, Putters
<1> QED BY <1>1, <1>2, <1>3, <1>4, <1>5 DEF DialedInv

\* ReadFails keeps the types and the invariant of connections.
LEMMA ReadFailsTyped ==
  ASSUME TypeOK, DialedInv, NEW c \in Conns, ReadFails(c) PROVE TypeOK' /\ DialedInv'
<1>1. TypeOK'
  BY ReadFailsEffect DEF TypeOK, Moves, RtType, Rec, PutBecomes, PutType, SlotsAre, IdleAre,
     LoopPoints, DialedInv, Dialed
<1>2. KeyInv'
  BY ReadFailsEffect DEF DialedInv, KeyInv, Dialed, TypeOK, ConnType, KeyOfWant, Wants, RtType, Rec
<1>3. PoolInv'
  BY ReadFailsEffect DEF DialedInv, PoolInv, Dialed, IdleAre, TypeOK, IdleType, KeyQueue
<1>4. UserInv'
  BY ReadFailsEffect DEF Dialed, DialedInv, KeyInv, UserInv, PutBecomes
<1>5. PointInv'
  BY ReadFailsEffect, ConstantsAssumption
     DEF DialedInv, PointInv, UserInv, Dialed, Moves, PutBecomes, Putters
<1> QED BY <1>1, <1>2, <1>3, <1>4, <1>5 DEF DialedInv

\* ReadLoopRemoves keeps the types and the invariant of connections.
LEMMA ReadLoopRemovesTyped ==
  ASSUME TypeOK, DialedInv, NEW c \in Conns, ReadLoopRemoves(c) PROVE TypeOK' /\ DialedInv'
<1>1. TypeOK'
  BY ReadLoopRemovesEffect DEF TypeOK, Moves, RtType, Rec, PutBecomes, PutType, SlotsAre, IdleAre,
     LoopPoints, DialedInv, Dialed
<1>2. KeyInv'
  BY ReadLoopRemovesEffect DEF DialedInv, KeyInv, Dialed, TypeOK, ConnType, KeyOfWant, Wants,
     RtType, Rec
<1>3. PoolInv'
  BY ReadLoopRemovesEffect, RemovedFromPool DEF DialedInv, PoolInv, Dialed
<1>4. UserInv'
  BY ReadLoopRemovesEffect DEF DialedInv, UserInv, Dialed, Moves, PutBecomes, TypeOK, PutType,
     RtType, Putters
<1>5. PointInv'
  BY ReadLoopRemovesEffect, ConstantsAssumption
     DEF DialedInv, PointInv, UserInv, Dialed, Moves, PutBecomes, Putters
<1> QED BY <1>1, <1>2, <1>3, <1>4, <1>5 DEF DialedInv

\* CloseConnIfStillIdle keeps the types and the invariant of connections.
LEMMA CloseConnIfStillIdleTyped ==
  ASSUME TypeOK, DialedInv, NEW c \in Conns, CloseConnIfStillIdle(c) PROVE TypeOK' /\ DialedInv'
<1>1. TypeOK'
  BY CloseConnIfStillIdleEffect, CloseFacts
     DEF TypeOK, Moves, RtType, Rec, PutBecomes, PutType, SlotsAre, IdleAre, LoopPoints,
     DialedInv, Dialed
<1>2. KeyInv'
  BY CloseConnIfStillIdleEffect, CloseFacts
     DEF DialedInv, KeyInv, Dialed, TypeOK, ConnType, KeyOfWant, Wants, RtType, Rec
<1>3. PoolInv'
  BY CloseConnIfStillIdleEffect, CloseFacts, RemovedFromPool DEF Dialed, DialedInv, PoolInv
<1>4. UserInv'
  BY CloseConnIfStillIdleEffect, CloseFacts
     DEF DialedInv, UserInv, Dialed, Moves, PutBecomes, TypeOK, PutType, RtType, Putters
<1>5. PointInv'
  BY CloseConnIfStillIdleEffect, CloseFacts, ConstantsAssumption
     DEF DialedInv, PointInv, UserInv, Dialed, Moves, PutBecomes, Putters
<1> QED BY <1>1, <1>2, <1>3, <1>4, <1>5 DEF DialedInv

\* CloseTaken keeps the types and the invariant of connections.
LEMMA CloseTakenTyped ==
  ASSUME TypeOK, DialedInv, NEW c \in Conns, CloseTaken(c) PROVE TypeOK' /\ DialedInv'
<1>1. TypeOK'
  BY CloseTakenEffect, CloseFacts DEF TypeOK, Moves, RtType, Rec, PutBecomes, PutType, SlotsAre,
     IdleAre, LoopPoints, DialedInv, Dialed
<1>2. KeyInv'
  BY CloseTakenEffect, CloseFacts DEF DialedInv, KeyInv, Dialed, TypeOK, ConnType, KeyOfWant,
     Wants, RtType, Rec
<1>3. PoolInv'
  BY ZenonT(60), CloseTakenEffect, CloseFacts DEF DialedInv, PoolInv, Dialed, IdleAre, TypeOK, IdleType,
     KeyQueue
<1>4. UserInv'
  BY CloseTakenEffect, CloseFacts DEF DialedInv, UserInv, Dialed, Moves, PutBecomes, TypeOK,
     PutType, RtType, Putters
<1>5. PointInv'
  BY CloseTakenEffect, CloseFacts, ConstantsAssumption
     DEF DialedInv, PointInv, UserInv, Dialed, Moves, PutBecomes, Putters
<1> QED BY <1>1, <1>2, <1>3, <1>4, <1>5 DEF DialedInv

\* CloseIdleConnections keeps the types and the invariant of connections.
LEMMA CloseIdleConnectionsTyped ==
  ASSUME TypeOK, DialedInv, CloseIdleConnections PROVE TypeOK' /\ DialedInv'
<1>1. TypeOK'
  BY CloseIdleConnectionsEffect DEF TypeOK, Moves, RtType, Rec, PutBecomes, PutType, SlotsAre,
     IdleAre, LoopPoints, DialedInv, Dialed
<1>2. KeyInv'
  BY CloseIdleConnectionsEffect DEF DialedInv, KeyInv, Dialed, TypeOK, ConnType, KeyOfWant, Wants,
     RtType, Rec
<1>3. PoolInv'
  BY CloseIdleConnectionsEffect, ContainsIsInRange, RangeOfEmpty DEF Dialed, TypeOK, IdleType, KeyQueue, Listed,
     DialedInv, PoolInv, IdleAre
<1>4. UserInv'
  BY CloseIdleConnectionsEffect DEF DialedInv, UserInv, Dialed, Moves, PutBecomes, TypeOK,
     PutType, RtType, Putters
<1>5. PointInv'
  BY CloseIdleConnectionsEffect, ConstantsAssumption
     DEF DialedInv, PointInv, UserInv, Dialed, Moves, PutBecomes, Putters
<1> QED BY <1>1, <1>2, <1>3, <1>4, <1>5 DEF DialedInv

\* PutInsert keeps the types and the invariant of connections.
LEMMA PutInsertTyped ==
  ASSUME TypeOK, DialedInv, NEW p \in Putters, PutInsert(p) PROVE TypeOK' /\ DialedInv'
<1> DEFINE c == put[p].conn
           k == conn[c].key
           q == idle.wait[k]
<1>1. put[p].at = "insert" /\ c \in Dialed /\ c \in Conns /\ k \in Keys /\ want \in WantType /\ idle \in IdleType
  BY PutInsertEffect DEF Dialed, TypeOK
<1>2. want' \in WantType /\ \A v \in Wants : want'[v].pc \in {want[v].pc, c}
  <2>1. want' = want \/ \E ws : want' = Deliver(want, ws, c) BY PutInsertEffect DEF Delivered
  <2> HIDE DEF c
  <2> QED BY <1>1, <2>1, DeliverFacts
<1>3. /\ put' \in PutType
      /\ \A o \in Putters : \/ put'[o] = put[o]
                            \/ put'[o].at = "none" /\ put'[o].conn = None
                            \/ put'[o].at = "close" /\ put'[o].conn = c
  <2>1. PutBecomes(p, "none", None) \/ PutBecomes(p, "close", c) BY PutInsertEffect
  <2> HIDE DEF c
  <2>2. CASE PutBecomes(p, "none", None) BY <2>2 DEF PutBecomes
  <2>3. CASE PutBecomes(p, "close", c) BY <2>3 DEF PutBecomes
  <2> QED BY <2>1, <2>2, <2>3
<1>4. readLoop' \in [Conns -> LoopPoints] /\ \A d \in Conns : ~conn[d].dialed => readLoop'[d] = readLoop[d]
  BY <1>1, PutInsertEffect DEF TypeOK, LoopPoints, Dialed
<1>5. /\ idle' \in IdleType /\ slots' \in SlotsType /\ conn' \in ConnType
      /\ \A d \in Conns : conn'[d].dialed = conn[d].dialed /\ conn'[d].key = conn[d].key
                         /\ (~conn[d].dialed => conn'[d].closed = conn[d].closed)
      /\ Range(idle'.lru) \subseteq Dialed
      /\ \A j \in Keys : Range(idle'.conns[j]) \subseteq Dialed
  <2>1. CASE UNCHANGED <<conn, slots>> /\ (idle' = idle \/ \E o : IdleAre(idle', idle.conns, idle.lru, o))
    BY <2>1 DEF IdleAre, TypeOK, DialedInv, PoolInv
  <2>2. CASE Emptied(k) \in IdleType /\ AddIdle(Emptied(k), want', c)
    <3>1. Emptied(k).conns = idle.conns /\ Emptied(k).lru = idle.lru BY <1>1 DEF Emptied, IdleType
    <3>2. KeyInv BY DEF DialedInv
    <3>3. PICK a \in IdleType : Added(Emptied(k), want', c, a)
      BY <2>2, <3>2, <1>1, AddIdleFacts
    <3>4. Range(a.lru) \subseteq Dialed /\ \A j \in Keys : Range(a.conns[j]) \subseteq Dialed
      BY <3>1, <3>3, <1>1 DEF DialedInv, PoolInv, Added
    <3>5. CASE idle' = a /\ UNCHANGED <<conn, slots>>
      BY <3>4, <3>5 DEF TypeOK
    <3>6. CASE \E o \in Range(a.lru) : idle' = RemoveIdle(a, o) /\ Close(want', o)
      <4>1. PICK o \in Range(a.lru) : idle' = RemoveIdle(a, o) /\ Close(want', o) BY <3>6
      <4>2. o \in Dialed BY <3>4
      <4>3. /\ slots' \in SlotsType /\ conn' \in ConnType
            /\ \A d \in Conns : conn'[d].dialed = conn[d].dialed /\ conn'[d].key = conn[d].key
                               /\ conn'[d].closed = (conn[d].closed \/ d = o)
        BY <4>1, <4>2, <3>2, CloseFacts
      <4>4. /\ idle' \in IdleType /\ Range(idle'.lru) \subseteq Range(a.lru)
            /\ \A j \in Keys : Range(idle'.conns[j]) \subseteq Range(a.conns[j])
        BY <4>1, <4>2, <3>2, RemoveIdleFacts
      <4>5. \A d \in Conns : ~conn[d].dialed => conn'[d].closed = conn[d].closed
        BY <4>2, <4>3 DEF Dialed, TypeOK, ConnType
      <4> QED BY <4>3, <4>4, <4>5, <3>4
    <3> QED BY <3>3, <3>5, <3>6 DEF Added
  <2> QED BY <2>1, <2>2, PutInsertEffect
<1>6. TypeOK'
  BY <1>2, <1>3, <1>4, <1>5, PutInsertEffect DEF TypeOK, PutType
<1>7. KeyInv' BY <1>4, <1>5 DEF DialedInv, KeyInv
<1>8. Dialed' = Dialed BY <1>5 DEF Dialed
<1>9. PoolInv' BY <1>5, <1>8, PutInsertEffect DEF PoolInv, DialedInv
<1>10. UserInv' BY <1>1, <1>2, <1>3, <1>8, PutInsertEffect DEF UserInv, DialedInv
<1>11. PointInv' BY ZenonT(60), <1>1, <1>3, PutInsertEffect, ConstantsAssumption DEF PointInv, DialedInv
<1> QED BY <1>6, <1>7, <1>9, <1>10, <1>11 DEF DialedInv

-----------------------------------------------------------------------------
(* The first theorem.                                                        *)

\* Initially nothing is dialled.
LEMMA InitTyped == Init => TypeOK /\ DialedInv
<1> SUFFICES ASSUME Init PROVE TypeOK /\ DialedInv OBVIOUS
<1> DEFINE o == <<>>
<1>1. o \in Seq(Conns) /\ o \in Seq(Wants) /\ Range(o) = {} BY RangeOfEmpty
<1>2. /\ config \in Configs
      /\ idle = [conns |-> [k \in Keys |-> o], lru |-> o, wait |-> [k \in Keys |-> o], close |-> FALSE]
      /\ slots = [count |-> [k \in Keys |-> 0], wait |-> [k \in Keys |-> o], dialing |-> {}, panic |-> FALSE]
      /\ want = [w \in Wants |-> [pc |-> None, err |-> FALSE]]
      /\ conn = [c \in Conns |-> [dialed |-> FALSE, closed |-> FALSE, alt |-> FALSE,
                                  reused |-> FALSE, key |-> None]]
      /\ readLoop = [c \in Conns |-> "none"]
      /\ put = [p \in Putters |-> NoPut]
      /\ closing = {} /\ closes = 0
  BY DEF Init
<1> HIDE DEF o
<1>3. idle \in IdleType /\ slots \in SlotsType /\ want \in WantType /\ conn \in ConnType
  BY <1>1, <1>2 DEF IdleType, SlotsType, WantType, ConnType, KeyQueue
<1>4. put \in PutType /\ readLoop \in [Conns -> LoopPoints]
  BY <1>2 DEF PutType, PutPoints, LoopPoints, NoPut
<1>5. /\ rt \in RtType
      /\ \A r \in Reqs : rt[r].at \in {"start", "done"} /\ rt[r].conn = None
  BY <1>2, ConstantsAssumption DEF Init, RtType, Rec, Points
<1>6. TypeOK BY <1>2, <1>3, <1>4, <1>5 DEF TypeOK, RtType, PutType, Rec
<1>7. KeyInv /\ PoolInv BY <1>1, <1>2 DEF KeyInv, PoolInv
<1>8. UserInv BY <1>2, <1>5 DEF UserInv, NoPut
<1>9. PointInv BY <1>2, <1>5 DEF PointInv, NoPut
<1> QED BY <1>6, <1>7, <1>8, <1>9 DEF DialedInv

\* Every step keeps the types and the invariant of connections.
LEMMA StepTyped == TypeOK /\ DialedInv /\ [Next]_vars => TypeOK' /\ DialedInv'
<1> SUFFICES ASSUME TypeOK, DialedInv, [Next]_vars PROVE TypeOK' /\ DialedInv' OBVIOUS
<1>1. CASE UNCHANGED vars
  BY <1>1 DEF vars, TypeOK, DialedInv, KeyInv, PoolInv, UserInv, PointInv, Dialed
<1>2. CASE Next
  <2>1. ASSUME NEW r \in Reqs, RequestStep(r) PROVE TypeOK' /\ DialedInv'
    BY <2>1, QueueForIdleConnTyped, QueueForDialTyped, ReadyTyped, EnterRoundTripTyped,
       RequestFailsTyped,
       HTTP2ReturnsTyped, RemoveNoCachedTyped, DecNoCachedTyped DEF RequestStep
  <2>2. ASSUME NEW r \in Reqs, Answered(r) \/ Cancelled(r) \/ GiveUp(r) \/ ClosedInUse(r)
        PROVE TypeOK' /\ DialedInv'
    BY <2>2, AnsweredTyped, CancelledTyped, GiveUpTyped, ClosedInUseTyped
  <2>3. ASSUME NEW p \in Putters, PutStep(p) PROVE TypeOK' /\ DialedInv'
    BY <2>3, PutCheckTyped, PutInsertTyped, PutCloseTyped DEF PutStep
  <2>4. ASSUME NEW w \in Wants, DialStep(w) PROVE TypeOK' /\ DialedInv'
    BY <2>4, DialSucceedsTyped, DialFailsTyped, DialDecTyped DEF DialStep
  <2>5. ASSUME NEW c \in Conns,
               ReadFails(c) \/ ReadLoopRemoves(c) \/ CloseConnIfStillIdle(c) \/ CloseTaken(c)
        PROVE TypeOK' /\ DialedInv'
    BY <2>5, ReadFailsTyped, ReadLoopRemovesTyped, CloseConnIfStillIdleTyped, CloseTakenTyped
  <2>6. Finished => TypeOK' /\ DialedInv' BY <1>1 DEF Finished
  <2> QED BY <1>2, <2>1, <2>2, <2>3, <2>4, <2>5, <2>6, CloseIdleConnectionsTyped DEF Next
<1> QED BY <1>1, <1>2

\* Every variable keeps its type, and the pool, the requests and the goroutines only ever hold
\* connections that were dialled.
THEOREM TypeCorrect == Spec => [](TypeOK /\ DialedInv)
BY InitTyped, StepTyped, PTL DEF Spec

-----------------------------------------------------------------------------
(* No request waits in vain.                                                 *)

\* NeverStranded, with the limit on slots and what a failed dial leaves behind.
Bounded    == config.limit > 0 => \A k \in Keys : slots.count[k] <= config.limit
\* When a failed dial gives its slot back, the request has its error.
FailedDial == \A w \in Wants : put[w].at = "dec" => ~Waiting(want, w)
\* DialledOrQueued and LateBinding, with the queues as sets.
InSlotQueueOrDialled == \A r \in Reqs :
  rt[r].at = "wait" /\ Waiting(want, WantOf(r)) =>
    \/ WantOf(r) \in slots.dialing
    \/ /\ WantOf(r) \in Range(slots.wait[rt[r].key])
       /\ config.limit > 0 /\ slots.count[rt[r].key] = config.limit
InIdleQueue == \A r \in Reqs :
  rt[r].at \in {"queueDial", "wait"} /\ Waiting(want, WantOf(r)) /\ config.keepAlives =>
    WantOf(r) \in Range(idle.wait[rt[r].key]) /\ idle.conns[rt[r].key] = <<>>
\* The inductive invariant behind NeverStranded.
StrandedInv == Bounded /\ FailedDial /\ InSlotQueueOrDialled /\ InIdleQueue

\* A step that puts no request in a queue.
UsersCalm ==
  /\ config' = config
  /\ \A w \in Wants : Waiting(want', w) => Waiting(want, w)
  /\ \A q \in Reqs : rt'[q] = rt[q] \/ rt'[q].at \notin {"queueDial", "wait"}
  /\ \A w \in Wants : put'[w].at = "dec" => put[w].at = "dec" \/ ~Waiting(want', w)
\* Slots are given back and no dial of a waiting request is forgotten.
SlotsCalm ==
  \E s \in SlotsType :
    /\ s.count = slots.count /\ s.wait = slots.wait
    /\ \A w \in slots.dialing : Waiting(want', w) => w \in s.dialing
    /\ slots' = s \/ \E k \in Keys : slots' = DecConnsPerHost(want', s, k)
\* Nothing is listed for a host with a waiting request, nor is such a request dequeued.
IdleCalm ==
  /\ \A k \in Keys : \/ idle.conns[k] = <<>> => idle'.conns[k] = <<>>
                     \/ \A w \in Range(idle.wait[k]) : ~Waiting(want', w)
  /\ \A k \in Keys : \A w \in Range(idle.wait[k]) : Waiting(want', w) => w \in Range(idle'.wait[k])
\* A calm step.
Calm == UsersCalm /\ SlotsCalm /\ IdleCalm

\* A calm step leaves every waiting request dialled for or queued with all slots taken ...
LEMMA CalmSlots ==
  ASSUME TypeOK, Bounded, Calm
  PROVE  /\ Bounded'
         /\ \A w \in slots.dialing : Waiting(want', w) => w \in slots'.dialing
         /\ \A k \in Keys : \A w \in Range(slots.wait[k]) :
              Waiting(want', w) /\ config.limit > 0 /\ slots.count[k] = config.limit =>
                \/ w \in slots'.dialing
                \/ w \in Range(slots'.wait[k]) /\ slots'.count[k] = config.limit
<1>1. PICK s \in SlotsType :
       /\ s.count = slots.count /\ s.wait = slots.wait
       /\ \A w \in slots.dialing : Waiting(want', w) => w \in s.dialing
       /\ slots' = s \/ \E k \in Keys : slots' = DecConnsPerHost(want', s, k)
  BY DEF Calm, SlotsCalm
<1>2. config' = config /\ config.limit \in Nat /\ slots \in SlotsType
  BY ConstantsAssumption DEF Calm, UsersCalm, TypeOK
<1>3. slots.count \in [Keys -> Nat] /\ slots.wait \in [Keys -> Seq(Wants)]
  BY <1>2 DEF SlotsType, KeyQueue
<1>4. CASE slots' = s BY <1>1, <1>2, <1>4 DEF Bounded
<1>5. ASSUME NEW k \in Keys, slots' = DecConnsPerHost(want', s, k)
      PROVE  /\ Bounded'
             /\ \A w \in slots.dialing : Waiting(want', w) => w \in slots'.dialing
             /\ \A j \in Keys : \A w \in Range(slots.wait[j]) :
                  Waiting(want', w) /\ config.limit > 0 /\ slots.count[j] = config.limit =>
                    \/ w \in slots'.dialing
                    \/ w \in Range(slots'.wait[j]) /\ slots'.count[j] = config.limit
  <2> DEFINE q == slots.wait[k]
             w == q[FirstWaiting(want', q)]
             p == PopWaiting(want', q)
  <2>1. q \in Seq(Wants) BY <1>3
  <2>2. \/ config.limit = 0 /\ slots' = s
        \/ /\ config.limit > 0 /\ slots.count[k] = 0
           /\ slots'.count = slots.count /\ slots'.wait = slots.wait /\ slots'.dialing = s.dialing
        \/ /\ config.limit > 0 /\ slots.count[k] > 0
           /\ w \in Range(q) /\ Waiting(want', w)
           /\ slots'.count = slots.count /\ slots'.dialing = s.dialing \cup {w}
           /\ slots'.wait = [slots.wait EXCEPT ![k] = p]
        \/ /\ config.limit > 0 /\ slots.count[k] > 0
           /\ \A v \in Range(q) : ~Waiting(want', v)
           /\ slots'.count = [slots.count EXCEPT ![k] = slots.count[k] - 1] /\ slots'.dialing = s.dialing
           /\ slots'.wait = [slots.wait EXCEPT ![k] = <<>>]
    <3>1. GivenBack(want', s, k, slots') BY <1>5, DecFacts
    <3>2. s.wait = slots.wait /\ s.count = slots.count BY <1>1
    <3> QED BY <3>1, <3>2 DEF GivenBack
  <2>3. (\E v \in Range(q) : Waiting(want', v)) => \A v \in Range(q) : Waiting(want', v) /\ v # w => v \in Range(p)
    BY <2>1, PopWaitingFacts, FirstWaitingRange
  <2> HIDE DEF w, p
  <2>4. Bounded'
    <3>1. \A j \in Keys : slots'.count[j] = slots.count[j] \/ slots'.count[j] = slots.count[j] - 1
      BY <2>2, <1>1, <1>3
    <3>2. ASSUME NEW j \in Keys, slots.count[j] <= config.limit PROVE slots'.count[j] <= config'.limit
      <4>1. slots.count[j] \in Nat BY <1>3
      <4>2. slots'.count[j] = slots.count[j] \/ slots'.count[j] = slots.count[j] - 1 BY <3>1
      <4> QED BY <4>1, <4>2, <3>2, <1>2
    <3> QED BY <3>2, <1>2 DEF Bounded
  <2>5. \A v \in slots.dialing : Waiting(want', v) => v \in slots'.dialing BY <2>2, <1>1
  <2>6. ASSUME NEW j \in Keys, NEW v \in Range(slots.wait[j]), Waiting(want', v), config.limit > 0, slots.count[j] = config.limit
        PROVE \/ v \in slots'.dialing
              \/ v \in Range(slots'.wait[j]) /\ slots'.count[j] = config.limit
    BY <2>2, <2>6, <1>1, <1>2, <1>3, <2>3
  <2> QED BY <2>4, <2>5, <2>6
<1> QED BY <1>1, <1>4, <1>5

\* ... and so keeps the invariant.
LEMMA CalmKeeps ==
  ASSUME TypeOK, TypeOK', StrandedInv, Calm PROVE StrandedInv'
<1>1. Bounded' BY CalmSlots DEF StrandedInv
<1>2. FailedDial' BY DEF Calm, UsersCalm, StrandedInv, FailedDial
<1>3. ASSUME NEW r \in Reqs, rt'[r] = rt[r] PROVE WantOf(r)' = WantOf(r) /\ WantOf(r) \in Wants /\ rt[r].key \in Keys
  BY <1>3 DEF WantOf, TypeOK, Wants
<1>4. InSlotQueueOrDialled'
  BY <1>3, CalmSlots DEF InSlotQueueOrDialled, Waiting, Calm, UsersCalm, StrandedInv
<1>5. InIdleQueue'
  BY <1>3 DEF InIdleQueue, Waiting, Calm, UsersCalm, StrandedInv, IdleCalm
<1> QED BY <1>1, <1>2, <1>4, <1>5 DEF StrandedInv

-----------------------------------------------------------------------------
(* The calm actions.                                                         *)

\* Slots that do not change are calm ...
LEMMA QuietSlots == TypeOK /\ slots' = slots => SlotsCalm
<1>1. TypeOK => slots \in SlotsType BY DEF TypeOK
<1> QED BY <1>1 DEF SlotsCalm

\* ... and so is closing a connection.
LEMMA CloseIsCalm == ASSUME TypeOK, DialedInv, NEW c \in Dialed, Close(want', c) PROVE SlotsCalm
BY DEF Close, TypeOK, DialedInv, KeyInv, Dialed, SlotsCalm

\* A pool that does not change is calm ...
LEMMA QuietIdle == idle' = idle => IdleCalm
BY DEF IdleCalm

\* ... and so is removing from it.
LEMMA RemoveIdleIsCalm ==
  ASSUME TypeOK, DialedInv, NEW c \in Dialed, idle' = RemoveIdle(idle, c) PROVE IdleCalm
<1>1. idle \in IdleType /\ KeyInv BY DEF TypeOK, DialedInv
<1> QED BY <1>1, RemoveIdleFacts DEF IdleCalm

\* Ready is calm.
LEMMA ReadyCalm ==
  ASSUME TypeOK, DialedInv, NEW r \in Reqs, Ready(r) PROVE Calm
BY ReadyEffect, QuietSlots, QuietIdle DEF UsersCalm, Moves, PutBecomes, Waiting, Putters, Calm

\* EnterRoundTrip is calm.
LEMMA EnterRoundTripCalm ==
  ASSUME TypeOK, DialedInv, NEW r \in Reqs, EnterRoundTrip(r) PROVE Calm
BY EnterRoundTripEffect, QuietSlots, QuietIdle DEF UsersCalm, Moves, PutBecomes, Waiting, Putters, Calm

\* RequestFails is calm.
LEMMA RequestFailsCalm ==
  ASSUME TypeOK, DialedInv, NEW r \in Reqs, RequestFails(r) PROVE Calm
BY RequestFailsEffect, QuietSlots, QuietIdle DEF UsersCalm, Moves, PutBecomes, Waiting, Putters, Calm

\* HTTP2Returns is calm.
LEMMA HTTP2ReturnsCalm ==
  ASSUME TypeOK, DialedInv, NEW r \in Reqs, HTTP2Returns(r) PROVE Calm
BY HTTP2ReturnsEffect, QuietSlots, QuietIdle DEF UsersCalm, Moves, PutBecomes, Waiting, Putters, Calm

\* RemoveNoCached is calm.
LEMMA RemoveNoCachedCalm ==
  ASSUME TypeOK, DialedInv, NEW r \in Reqs, RemoveNoCached(r) PROVE Calm
BY RemoveNoCachedEffect, QuietSlots, RemoveIdleIsCalm DEF UsersCalm, Moves, PutBecomes, Waiting, Putters, Calm

\* DecNoCached is calm.
LEMMA DecNoCachedCalm ==
  ASSUME TypeOK, DialedInv, NEW r \in Reqs, DecNoCached(r) PROVE Calm
BY DecNoCachedEffect, QuietIdle DEF UsersCalm, Moves, PutBecomes, Waiting, Putters, TypeOK, DialedInv, KeyInv,
   Dialed, SlotsCalm, Calm

\* Answered is calm.
LEMMA AnsweredCalm ==
  ASSUME TypeOK, DialedInv, NEW r \in Reqs, Answered(r) PROVE Calm
BY AnsweredEffect, QuietSlots, QuietIdle DEF UsersCalm, Moves, PutBecomes, Waiting, Putters, Calm

\* Cancelled is calm.
LEMMA CancelledCalm ==
  ASSUME TypeOK, DialedInv, NEW r \in Reqs, Cancelled(r) PROVE Calm
BY CancelledEffect, QuietSlots, QuietIdle DEF UsersCalm, Moves, PutBecomes, Waiting, Putters, Calm

\* GiveUp is calm.
LEMMA GiveUpCalm ==
  ASSUME TypeOK, DialedInv, NEW r \in Reqs, GiveUp(r) PROVE Calm
BY GiveUpEffect, QuietSlots, QuietIdle DEF UsersCalm, Moves, PutBecomes, Waiting, Putters, Calm

\* ClosedInUse is calm.
LEMMA ClosedInUseCalm ==
  ASSUME TypeOK, DialedInv, NEW r \in Reqs, ClosedInUse(r) PROVE Calm
BY ClosedInUseEffect, CloseIsCalm, QuietIdle DEF UsersCalm, Moves, PutBecomes, Waiting, Putters, Calm

\* PutCheck is calm.
LEMMA PutCheckCalm ==
  ASSUME TypeOK, DialedInv, NEW p \in Putters, PutCheck(p) PROVE Calm
BY PutCheckEffect, QuietSlots, QuietIdle DEF UsersCalm, Moves, PutBecomes, Waiting, Putters, Calm

\* PutClose is calm.
LEMMA PutCloseCalm ==
  ASSUME TypeOK, DialedInv, NEW p \in Putters, PutClose(p) PROVE Calm
BY PutCloseEffect, CloseIsCalm, QuietIdle DEF UsersCalm, Moves, PutBecomes, Waiting, Putters, Calm

\* DialSucceeds is calm.
LEMMA DialSucceedsCalm ==
  ASSUME TypeOK, DialedInv, NEW w \in Wants, NEW c \in Conns, DialSucceeds(w, c) PROVE Calm
<1>1. UsersCalm
  <2>1. want \in WantType /\ want' = Deliver(want, {w}, c) BY DialSucceedsEffect DEF TypeOK
  <2>2. \A v \in Wants : Waiting(want', v) => Waiting(want, v) BY <2>1, DeliverFacts
  <2>3. \A v \in Wants : put'[v].at = "dec" => put[v].at = "dec"
    BY DialSucceedsEffect DEF PutBecomes, Putters
  <2> QED BY <2>2, <2>3, DialSucceedsEffect DEF UsersCalm
<1>2. SlotsCalm
  <2>1. want \in WantType /\ want' = Deliver(want, {w}, c) BY DialSucceedsEffect DEF TypeOK
  <2>2. ~Waiting(want', w) BY <2>1, DeliverFacts
  <2> QED BY <2>2, DialSucceedsEffect DEF SlotsCalm, SlotsAre
<1>3. IdleCalm BY DialSucceedsEffect, QuietIdle
<1> QED BY <1>1, <1>2, <1>3 DEF Calm

\* DialFails is calm.
LEMMA DialFailsCalm ==
  ASSUME TypeOK, DialedInv, NEW w \in Wants, DialFails(w) PROVE Calm
BY DialFailsEffect, QuietSlots, QuietIdle DEF UsersCalm, Moves, PutBecomes, Waiting, Putters, Calm

\* DialDec is calm.
LEMMA DialDecCalm ==
  ASSUME TypeOK, DialedInv, FailedDial, NEW w \in Wants, DialDec(w) PROVE Calm
<1>1. UsersCalm BY DialDecEffect DEF UsersCalm, Moves, PutBecomes, Waiting, Putters
<1>2. SlotsCalm
  <2> DEFINE s == [slots EXCEPT !.dialing = @ \ {w}]
  <2>1. /\ SlotsAre(s, slots.count, slots.wait, slots.dialing \ {w}, slots.panic) /\ KeyOfWant(w) \in Keys
        /\ slots' = DecConnsPerHost(want, s, KeyOfWant(w)) /\ want' = want /\ ~Waiting(want, w)
    BY DialDecEffect DEF FailedDial
  <2> HIDE DEF s
  <2> QED BY <2>1 DEF SlotsCalm, SlotsAre
<1>3. IdleCalm BY DialDecEffect, QuietIdle
<1> QED BY <1>1, <1>2, <1>3 DEF Calm

\* ReadFails is calm.
LEMMA ReadFailsCalm ==
  ASSUME TypeOK, DialedInv, NEW c \in Conns, ReadFails(c) PROVE Calm
BY ReadFailsEffect, QuietSlots, QuietIdle DEF UsersCalm, Moves, PutBecomes, Waiting, Putters, Calm

\* ReadLoopRemoves is calm.
LEMMA ReadLoopRemovesCalm ==
  ASSUME TypeOK, DialedInv, NEW c \in Conns, ReadLoopRemoves(c) PROVE Calm
BY ReadLoopRemovesEffect, QuietSlots, RemoveIdleIsCalm DEF UsersCalm, Moves, PutBecomes, Waiting, Putters, Calm

\* CloseConnIfStillIdle is calm.
LEMMA CloseConnIfStillIdleCalm ==
  ASSUME TypeOK, DialedInv, NEW c \in Conns, CloseConnIfStillIdle(c) PROVE Calm
BY CloseConnIfStillIdleEffect, CloseIsCalm, RemoveIdleIsCalm DEF UsersCalm, Moves, PutBecomes, Waiting, Putters,
   Calm

\* CloseTaken is calm.
LEMMA CloseTakenCalm ==
  ASSUME TypeOK, DialedInv, NEW c \in Conns, CloseTaken(c) PROVE Calm
BY CloseTakenEffect, CloseIsCalm, QuietIdle DEF UsersCalm, Moves, PutBecomes, Waiting, Putters, Calm

\* CloseIdleConnections is calm.
LEMMA CloseIdleConnectionsCalm ==
  ASSUME TypeOK, DialedInv, CloseIdleConnections PROVE Calm
BY CloseIdleConnectionsEffect, QuietSlots DEF UsersCalm, Moves, PutBecomes, Waiting, Putters, IdleCalm, IdleAre,
   Calm

-----------------------------------------------------------------------------
(* The actions that queue a request or give it a connection.                 *)

\* PutInsert is calm.
LEMMA PutInsertCalm == ASSUME TypeOK, DialedInv, NEW p \in Putters, PutInsert(p) PROVE Calm
<1> DEFINE c == put[p].conn
           k == conn[c].key
           q == idle.wait[k]
           w == q[FirstWaiting(want, q)]
<1>1. /\ c \in Dialed /\ c \in Conns /\ k \in Keys /\ want \in WantType /\ idle \in IdleType
      /\ q \in Seq(Wants) /\ idle.wait \in [Keys -> Seq(Wants)]
  BY PutInsertEffect DEF Dialed, TypeOK, IdleType, KeyQueue
<1>2. \A v \in Wants : Waiting(want', v) => Waiting(want, v)
  <2>1. want' = want \/ \E ws : want' = Deliver(want, ws, c) BY PutInsertEffect DEF Delivered
  <2> HIDE DEF c
  <2> QED BY <1>1, <2>1, DeliverFacts
<1>3. UsersCalm
  <2>1. PutBecomes(p, "none", None) \/ PutBecomes(p, "close", c) BY PutInsertEffect
  <2>2. \A v \in Wants : put'[v].at = "dec" => put[v].at = "dec"
    <3>1. \A v \in Wants : v \in Putters BY DEF Putters
    <3> HIDE DEF c
    <3> QED BY <2>1, <3>1 DEF PutBecomes
  <2> QED BY <1>2, <2>2, PutInsertEffect DEF UsersCalm
<1>4. CASE UNCHANGED <<idle, slots>> BY <1>3, <1>4, QuietSlots, QuietIdle DEF Calm
<1>5. CASE /\ ~conn[c].alt /\ w \in Range(q) /\ w \in Wants /\ Waiting(want, w)
           /\ want' = Deliver(want, {w}, c)
           /\ IdleAre(idle', idle.conns, idle.lru, [idle.wait EXCEPT ![k] = PopWaiting(want, q)])
           /\ UNCHANGED <<conn, slots>>
  <2>1. want' = Deliver(want, {w}, c) BY <1>5
  <2>2. ~Waiting(want', w)
    <3>1. w \in Wants /\ Waiting(want, w) BY <1>5
    <3> HIDE DEF c, w
    <3> QED BY <1>1, <2>1, <3>1, DeliverFacts
  <2>3. \A v \in Range(q) : Waiting(want, v) /\ v # w => v \in Range(PopWaiting(want, q))
    <3>1. FirstWaiting(want, q) # 0
      <4> HIDE DEF q, w
      <4> QED BY <1>1, <1>5, FirstWaitingRange
    <3> HIDE DEF q
    <3> QED BY <1>1, <3>1, PopWaitingFacts DEF w
  <2>4. Range(q) \subseteq Wants BY <1>1, RangeType
  <2>5. \A v \in Range(q) : Waiting(want', v) => v \in Range(PopWaiting(want, q))
    BY <1>2, <2>2, <2>3, <2>4
  <2>6. idle'.conns = idle.conns /\ idle'.wait = [idle.wait EXCEPT ![k] = PopWaiting(want, q)]
    BY <1>5 DEF IdleAre
  <2> HIDE DEF q, k
  <2>7. q = idle.wait[k] BY DEF q
  <2>8. IdleCalm BY <1>1, <2>5, <2>6, <2>7 DEF IdleCalm
  <2> QED BY <1>3, <1>5, <2>8, QuietSlots DEF Calm
<1>6. CASE want' = Delivered(c) /\ (~conn[c].alt => \A v \in Range(q) : ~Waiting(want, v))
  <2>1. \A v \in Range(q) : ~Waiting(want', v)
    <3>1. Range(q) \subseteq Wants BY <1>1, RangeType
    <3>2. CASE ~conn[c].alt BY <3>1, <3>2, <1>2, <1>6
    <3>3. CASE conn[c].alt
      <4>1. want' = Deliver(want, Range(q), c) BY <1>6, <3>3 DEF Delivered
      <4> HIDE DEF c, q
      <4> QED BY <1>1, <3>1, <4>1, DeliverFacts
    <3> QED BY <3>2, <3>3
  <2>2. CASE IdleAre(idle', idle.conns, idle.lru, [idle.wait EXCEPT ![k] = <<>>]) /\ UNCHANGED <<conn, slots>>
    BY <2>2, <1>1, <2>1, <1>3, QuietSlots DEF IdleAre, IdleCalm, Calm
  <2>3. CASE Emptied(k) \in IdleType /\ AddIdle(Emptied(k), want', c)
    <3>1. /\ Emptied(k).conns = idle.conns
          /\ \A j \in Keys : j # k => Emptied(k).wait[j] = idle.wait[j]
            BY <1>1 DEF Emptied, IdleType
    <3>2. KeyInv BY DEF DialedInv
    <3>9. PICK a \in IdleType : Added(Emptied(k), want', c, a)
      BY <2>3, <3>2, <1>1, AddIdleFacts
    <3>3. /\ a.wait = Emptied(k).wait
          /\ Range(a.lru) = Range(Emptied(k).lru) \cup {c}
          /\ \A j \in Keys : j # k => a.conns[j] = idle.conns[j]
          /\ \/ idle' = a /\ UNCHANGED <<conn, slots>>
             \/ \E o \in Range(a.lru) : idle' = RemoveIdle(a, o) /\ Close(want', o)
      BY <3>9, <3>1 DEF Added
    <3>4. \A j \in Keys : j # k => a.wait[j] = idle.wait[j] BY <3>1, <3>3
    <3>5. CASE idle' = a /\ UNCHANGED <<conn, slots>>
      <4>1. IdleCalm BY <2>1, <3>3, <3>4, <3>5 DEF IdleCalm
      <4> QED BY <1>3, <3>5, <4>1, QuietSlots DEF Calm
    <3>6. CASE \E o \in Range(a.lru) : idle' = RemoveIdle(a, o) /\ Close(want', o)
      <4>1. PICK o \in Range(a.lru) : idle' = RemoveIdle(a, o) /\ Close(want', o) BY <3>6
      <4>2. Emptied(k).lru = idle.lru BY <1>1 DEF Emptied, IdleType
      <4>3. o \in Dialed BY <3>3, <4>1, <4>2, <1>1 DEF DialedInv, PoolInv
      <4>4. /\ idle'.wait = a.wait
            /\ \A j \in Keys : a.conns[j] = <<>> => idle'.conns[j] = <<>>
        BY <4>1, <4>3, <3>2, <3>3, RemoveIdleFacts
      <4>5. IdleCalm BY <2>1, <3>3, <3>4, <4>4 DEF IdleCalm
      <4>6. SlotsCalm BY <4>1, <4>3, CloseIsCalm
      <4> QED BY <1>3, <4>5, <4>6 DEF Calm
    <3> QED BY <3>3, <3>5, <3>6
  <2> QED BY <2>2, <2>3, <1>4, <1>6, PutInsertEffect
<1> QED BY <1>4, <1>5, <1>6, PutInsertEffect

\* A request begins to wait for an idle connection: it is queued for one, and none is listed.
LEMMA QueueForIdleConnKeeps ==
  ASSUME TypeOK, TypeOK', DialedInv, StrandedInv, NEW r \in Reqs, QueueForIdleConn(r)
  PROVE  StrandedInv'
<1> DEFINE k == rt[r].key
           u == Usable(idle.conns[k])
           last == u[Len(u)]
           w == WantOf(r)
           e == Enqueue(idle.wait[k], w)
<1>1. /\ rt[r] \in Rec /\ k \in Keys /\ w \in Wants /\ want \in WantType
      /\ idle.conns \in [Keys -> Seq(Conns)] /\ idle.wait \in [Keys -> Seq(Wants)]
      /\ idle.conns[k] \in Seq(Conns) /\ idle.wait[k] \in Seq(Wants)
  BY DEF TypeOK, Rec, WantOf, Wants, IdleType, KeyQueue
<1>2. /\ config' = config /\ slots' = slots /\ put' = put
      /\ \A q \in Reqs : q # r => rt'[q] = rt[q]
      /\ rt'[r].key = k /\ rt'[r].try = rt[r].try
  BY QueueForIdleConnEffect DEF Moves
<1>3. \A q \in Reqs : /\ (WantOf(q))' = WantOf(q) /\ WantOf(q) \in Wants /\ rt'[q].key = rt[q].key /\ rt[q].key \in Keys
                      /\ q # r => WantOf(q) # w
  BY <1>2 DEF WantOf, Wants, TypeOK
<1>4. \A v \in Wants : Waiting(want', v) => Waiting(want, v)
  <2>1. last \in Range(idle.conns[k]) => last \in Conns BY <1>1, RangeType
  <2>2. \/ want' = want
        \/ last \in Range(idle.conns[k]) /\ want' = Deliver(want, {w}, last)
    BY QueueForIdleConnEffect
  <2> HIDE DEF last, w
  <2> QED BY <1>1, <2>1, <2>2, DeliverFacts
<1>5. Bounded' BY <1>2 DEF Bounded, StrandedInv
<1>6. FailedDial' BY <1>2, <1>4 DEF FailedDial, StrandedInv
<1>7. InSlotQueueOrDialled'
  <2>1. rt'[r].at # "wait" BY QueueForIdleConnEffect DEF Moves
  <2> SUFFICES ASSUME NEW q \in Reqs, rt'[q].at = "wait", Waiting(want', WantOf(q)')
               PROVE \/ WantOf(q)' \in slots'.dialing
                     \/ /\ WantOf(q)' \in Range(slots'.wait[rt'[q].key])
                        /\ config'.limit > 0 /\ slots'.count[rt'[q].key] = config'.limit
    BY DEF InSlotQueueOrDialled, Waiting
  <2>2. q # r BY <2>1
  <2>3. Waiting(want', WantOf(q)) BY <1>3
  <2> QED BY <2>2, <2>3, <1>2, <1>3, <1>4 DEF StrandedInv, InSlotQueueOrDialled
<1>8. InIdleQueue'
  <2> SUFFICES ASSUME NEW q \in Reqs, rt'[q].at \in {"queueDial", "wait"}, Waiting(want', WantOf(q)'), config'.keepAlives
               PROVE WantOf(q)' \in Range(idle'.wait[rt'[q].key]) /\ idle'.conns[rt'[q].key] = <<>>
    BY DEF InIdleQueue, Waiting
  <2>1. Waiting(want', WantOf(q)) /\ Waiting(want, WantOf(q)) /\ config.keepAlives
    BY <1>2, <1>3, <1>4
  <2>2. q # r => WantOf(q) \in Range(idle.wait[rt[q].key]) /\ idle.conns[rt[q].key] = <<>>
    BY <1>2, <2>1 DEF StrandedInv, InIdleQueue
  <2>3. CASE u # <<>>
    <3>1. rt'[r].at = "got" BY <2>1, <2>3, QueueForIdleConnEffect DEF Moves
    <3>2. q # r BY <3>1
    <3>3. idle.conns[k] # <<>> BY <1>1, <2>3, UsableFacts
    <3>4. idle'.wait = idle.wait /\ \A j \in Keys : j # k => idle'.conns[j] = idle.conns[j]
      <4>1. \/ idle'.conns = [idle.conns EXCEPT ![k] = u]
            \/ idle'.conns = [idle.conns EXCEPT ![k] = Front(u)]
        BY <2>1, <2>3, QueueForIdleConnEffect DEF IdleAre
      <4>2. idle'.wait = idle.wait BY <2>1, <2>3, QueueForIdleConnEffect DEF IdleAre
      <4> HIDE DEF k, u
      <4> QED BY <4>1, <4>2, <1>1
    <3> QED BY <1>3, <2>2, <3>2, <3>3, <3>4
  <2>4. CASE u = <<>>
    <3>1. idle'.conns = [idle.conns EXCEPT ![k] = <<>>] /\ idle'.wait = [idle.wait EXCEPT ![k] = e]
      BY <2>1, <2>4, QueueForIdleConnEffect DEF IdleAre
    <3>2. /\ w \in Range(e)
          /\ \A v \in Range(idle.wait[k]) : Waiting(want, v) => v \in Range(e)
      BY <1>1, EnqueueFacts
    <3>3. idle'.conns[k] = <<>> /\ \A j \in Keys : j # k => idle'.conns[j] = idle.conns[j]
      BY <1>1, <3>1
    <3>4. Range(idle'.wait[k]) = Range(e) /\ \A j \in Keys : j # k => idle'.wait[j] = idle.wait[j]
      BY <1>1, <3>1
    <3> HIDE DEF e
    <3>5. CASE q = r BY <3>2, <3>3, <3>4, <3>5, <1>3
    <3>6. CASE q # r /\ rt[q].key = k
      BY <2>2, <3>6, <2>1, <3>2, <3>3, <3>4, <1>3
    <3>7. CASE q # r /\ rt[q].key # k BY <2>2, <3>3, <3>4, <3>7, <1>3
    <3> QED BY <3>5, <3>6, <3>7
  <2> QED BY <2>3, <2>4
<1> QED BY <1>5, <1>6, <1>7, <1>8 DEF StrandedInv

\* A request begins to wait for a dial: it has a slot, or all are taken and it is queued for one.
LEMMA QueueForDialKeeps ==
  ASSUME TypeOK, TypeOK', StrandedInv, NEW r \in Reqs, QueueForDial(r) PROVE StrandedInv'
<1> DEFINE k == rt[r].key
           w == WantOf(r)
           e == Enqueue(slots.wait[k], w)
<1>1. /\ rt[r] \in Rec /\ k \in Keys /\ w \in Wants
      /\ slots.count \in [Keys -> Nat] /\ slots.wait \in [Keys -> Seq(Wants)] /\ slots.wait[k] \in Seq(Wants)
      /\ config.limit \in Nat
  BY ConstantsAssumption DEF TypeOK, Rec, WantOf, Wants, SlotsType, KeyQueue
<1>2. /\ config' = config /\ idle' = idle /\ want' = want /\ put' = put
      /\ \A q \in Reqs : q # r => rt'[q] = rt[q]
      /\ rt[r].at = "queueDial" /\ rt'[r].key = k /\ rt'[r].try = rt[r].try
  BY QueueForDialEffect DEF Moves
<1>3. \A q \in Reqs : (WantOf(q))' = WantOf(q) /\ rt'[q].key = rt[q].key /\ rt[q].key \in Keys
  BY <1>2 DEF WantOf, TypeOK
<1>4. \A j \in Keys : \/ slots'.count[j] = slots.count[j]
                      \/ config.limit > 0 /\ slots.count[j] < config.limit /\ slots'.count[j] = slots.count[j] + 1
  BY <1>1, QueueForDialEffect DEF SlotsAre
<1>5. Bounded'
  <2>1. \A j \in Keys : slots.count[j] \in Nat BY <1>1
  <2>2. ASSUME NEW j \in Keys, config.limit > 0, slots.count[j] <= config.limit PROVE slots'.count[j] <= config.limit
    BY <1>1, <1>4, <2>2
  <2> QED BY <2>2, <1>2 DEF Bounded, StrandedInv
<1>6. FailedDial' BY <1>2 DEF FailedDial, StrandedInv
<1>7. /\ \A v \in slots.dialing : v \in slots'.dialing
      /\ \A j \in Keys : \A v \in Range(slots.wait[j]) : Waiting(want, v) => v \in Range(slots'.wait[j])
  <2>1. \A v \in Range(slots.wait[k]) : Waiting(want, v) => v \in Range(e) BY <1>1, EnqueueFacts
  <2>2. slots'.wait = slots.wait \/ slots'.wait = [slots.wait EXCEPT ![k] = e]
    BY QueueForDialEffect DEF SlotsAre
  <2>3. \A v \in slots.dialing : v \in slots'.dialing BY QueueForDialEffect DEF SlotsAre
  <2> HIDE DEF e, k
  <2> QED BY <1>1, <2>1, <2>2, <2>3
<1>8. \/ w \in slots'.dialing
      \/ w \in Range(slots'.wait[k]) /\ config.limit > 0 /\ slots'.count[k] >= config.limit
  <2>1. w \in Range(e) BY <1>1, EnqueueFacts
  <2>2. CASE SlotsAre(slots', slots.count, [slots.wait EXCEPT ![k] = e], slots.dialing, slots.panic)
    <3>1. slots'.wait[k] = e /\ slots'.count = slots.count BY <2>2, <1>1 DEF SlotsAre
    <3> HIDE DEF e, w
    <3> QED BY <2>1, <3>1, <2>2, QueueForDialEffect DEF SlotsAre, e, w
  <2>3. CASE w \in slots'.dialing BY <2>3
  <2> QED BY <2>2, <2>3, QueueForDialEffect DEF SlotsAre
<1>9. InSlotQueueOrDialled'
  <2> SUFFICES ASSUME NEW q \in Reqs, rt'[q].at = "wait", Waiting(want', WantOf(q)')
               PROVE \/ WantOf(q)' \in slots'.dialing
                     \/ /\ WantOf(q)' \in Range(slots'.wait[rt'[q].key])
                        /\ config'.limit > 0 /\ slots'.count[rt'[q].key] = config'.limit
    BY DEF InSlotQueueOrDialled, Waiting
  <2>1. Waiting(want, WantOf(q)) BY <1>2, <1>3
  <2>2. CASE q = r
    BY <1>1, <1>2, <1>5, <2>2, <1>3, <1>8 DEF Bounded, TypeOK, SlotsType
  <2>3. CASE q # r
    <3>1. \/ WantOf(q) \in slots.dialing
          \/ /\ WantOf(q) \in Range(slots.wait[rt[q].key])
             /\ config.limit > 0 /\ slots.count[rt[q].key] = config.limit
      BY <2>1, <2>3, <1>2 DEF StrandedInv, InSlotQueueOrDialled
    <3>2. slots.count[rt[q].key] = config.limit => slots'.count[rt[q].key] = config.limit
      <4> DEFINE j == rt[q].key
      <4>1. j \in Keys BY <1>3
      <4> HIDE DEF j
      <4> SUFFICES slots.count[j] = config.limit => slots'.count[j] = config.limit BY DEF j
      <4>2. \/ slots'.count[j] = slots.count[j]
            \/ slots.count[j] < config.limit /\ slots'.count[j] = slots.count[j] + 1
        BY <4>1, <1>4
      <4> QED BY <4>2, <1>1
    <3> QED BY <2>1, <3>1, <3>2, <1>2, <1>3, <1>7
  <2> QED BY <2>2, <2>3
<1>10. InIdleQueue'
  BY <1>2, <1>3 DEF InIdleQueue, Waiting, StrandedInv
<1> QED BY <1>5, <1>6, <1>9, <1>10 DEF StrandedInv

-----------------------------------------------------------------------------
(* The second theorem.                                                       *)

\* Initially nothing waits.
LEMMA InitStranded == Init => StrandedInv
BY InitTyped, ConstantsAssumption DEF Init, Bounded, TypeOK, FailedDial, NoPut, Putters, StrandedInv,
   InSlotQueueOrDialled, InIdleQueue

\* Every step keeps the invariant: two put a request in a queue, the others are calm.
LEMMA StepStranded == TypeOK /\ TypeOK' /\ DialedInv /\ StrandedInv /\ [Next]_vars => StrandedInv'
<1> SUFFICES ASSUME TypeOK, TypeOK', DialedInv, StrandedInv, [Next]_vars PROVE StrandedInv' OBVIOUS
<1>0. FailedDial BY DEF StrandedInv
<1>1. CASE UNCHANGED vars
  BY <1>1 DEF vars, StrandedInv, Bounded, FailedDial, InSlotQueueOrDialled, InIdleQueue, Waiting,
     WantOf
<1>2. CASE Next
  <2>1. ASSUME NEW r \in Reqs, RequestStep(r) PROVE StrandedInv' \/ Calm
    BY <2>1, QueueForIdleConnKeeps, QueueForDialKeeps, ReadyCalm, EnterRoundTripCalm,
       RequestFailsCalm,
       HTTP2ReturnsCalm, RemoveNoCachedCalm, DecNoCachedCalm DEF RequestStep
  <2>2. ASSUME NEW r \in Reqs, Answered(r) \/ Cancelled(r) \/ GiveUp(r) \/ ClosedInUse(r) PROVE Calm
    BY <2>2, AnsweredCalm, CancelledCalm, GiveUpCalm, ClosedInUseCalm
  <2>3. ASSUME NEW p \in Putters, PutStep(p) PROVE Calm
    BY <2>3, PutCheckCalm, PutInsertCalm, PutCloseCalm DEF PutStep
  <2>4. ASSUME NEW w \in Wants, DialStep(w) PROVE Calm
    BY <2>4, <1>0, DialSucceedsCalm, DialFailsCalm, DialDecCalm DEF DialStep
  <2>5. ASSUME NEW c \in Conns,
               ReadFails(c) \/ ReadLoopRemoves(c) \/ CloseConnIfStillIdle(c) \/ CloseTaken(c)
        PROVE Calm
    BY <2>5, ReadFailsCalm, ReadLoopRemovesCalm, CloseConnIfStillIdleCalm, CloseTakenCalm
  <2>6. Finished => StrandedInv' BY <1>1 DEF Finished
  <2> QED BY <1>2, <2>1, <2>2, <2>3, <2>4, <2>5, <2>6, CalmKeeps, CloseIdleConnectionsCalm DEF Next
<1> QED BY <1>1, <1>2

\* The invariant implies the property.
LEMMA StrandedMeans == TypeOK /\ StrandedInv => NeverStranded
BY ContainsIsInRange DEF TypeOK, SlotsType, IdleType, KeyQueue, DialledOrQueued, StrandedInv,
   InSlotQueueOrDialled, LateBinding, InIdleQueue, NeverStranded

\* A request that waits in getConn is dialled for or queued while every slot of its host is
\* taken, and no connection is listed as idle meanwhile: whatever gives a slot or a connection
\* back, and in whatever order, finds it (decConnsPerHost, tryPutIdleConn).
THEOREM RequestsNeverStranded == Spec => []NeverStranded
BY InitTyped, InitStranded, StepTyped, StepStranded, StrandedMeans, PTL DEF Spec

-----------------------------------------------------------------------------
(* The count of slots.                                                       *)

\* The slots of a Transport with a limit, none of whose HTTP/2 connections refuse requests.
InSlotQueue(w) == \E k \in Keys : w \in Range(slots.wait[k])
\* The try of w has not begun its dial.
Before(w) == \/ rt[w[1]].try < w[2]
             \/ rt[w[1]].try = w[2] /\ rt[w[1]].at \in {"start", "queueDial"}
\* The dials of d for host k.
DialingOf(d, k) == {w \in d : KeyOfWant(w) = k}
\* A request is queued once for a slot, for its own host, and not while it is dialled for.
SlotQueues(s) == \A k \in Keys :
  /\ IsInjective(s.wait[k])
  /\ \A w \in Range(s.wait[k]) : KeyOfWant(w) = k /\ w \notin s.dialing

\* No HTTP/2 connection refuses requests.
NoRefusals   == ~config.http2Fails /\ \A r \in Reqs : rt[r].at \notin {"removeIdle", "decConns"}
\* A request is dialled for or queued only after queueForDial.
FreshDial    == \A w \in Wants : Before(w) => w \notin slots.dialing /\ ~InSlotQueue(w)
\* A dial that failed is counted until its slot is given back.
FailedIsDial == \A w \in Wants : put[w].at = "dec" => w \in slots.dialing
\* There are finitely many dials and connections.
SlotsFinite  == IsFiniteSet(slots.dialing) /\ IsFiniteSet(Dialed)
\* The count of SlotsAccounted.
CountInv     == /\ ~slots.panic
                /\ \A k \in Keys : slots.count[k] = Cardinality(Dialing(k)) + Cardinality(Open(k))
\* The inductive invariant behind SlotsAccounted.
SlotInv == /\ NoRefusals /\ FreshDial /\ FailedIsDial /\ SlotsFinite /\ CountInv
           /\ SlotQueues(slots)

\* Counting the dials of a host, with one more and with one less.
LEMMA FiniteDialing ==
  ASSUME TypeOK, NEW d \in SUBSET Wants, IsFiniteSet(d)
  PROVE  /\ \A k : IsFiniteSet(DialingOf(d, k)) /\ Cardinality(DialingOf(d, k)) \in Nat
         /\ \A w \in Wants \ d : /\ IsFiniteSet(d \cup {w})
              /\ Cardinality(DialingOf(d \cup {w}, KeyOfWant(w))) = Cardinality(DialingOf(d, KeyOfWant(w))) + 1
              /\ \A j : j # KeyOfWant(w) => DialingOf(d \cup {w}, j) = DialingOf(d, j)
         /\ \A w \in d : /\ IsFiniteSet(d \ {w})
              /\ Cardinality(DialingOf(d \ {w}, KeyOfWant(w))) = Cardinality(DialingOf(d, KeyOfWant(w))) - 1
              /\ \A j : j # KeyOfWant(w) => DialingOf(d \ {w}, j) = DialingOf(d, j)
<1>1. \A k : IsFiniteSet(DialingOf(d, k)) /\ Cardinality(DialingOf(d, k)) \in Nat
  <2> TAKE k
  <2>1. DialingOf(d, k) \subseteq d BY DEF DialingOf
  <2> QED BY <2>1, FS_Subset, FS_CardinalityType
<1>2. ASSUME NEW w \in Wants \ d
      PROVE /\ IsFiniteSet(d \cup {w})
            /\ Cardinality(DialingOf(d \cup {w}, KeyOfWant(w))) = Cardinality(DialingOf(d, KeyOfWant(w))) + 1
            /\ \A j : j # KeyOfWant(w) => DialingOf(d \cup {w}, j) = DialingOf(d, j)
  <2>1. DialingOf(d \cup {w}, KeyOfWant(w)) = DialingOf(d, KeyOfWant(w)) \cup {w} /\ w \notin DialingOf(d, KeyOfWant(w))
    BY DEF DialingOf
  <2>2. \A j : j # KeyOfWant(w) => DialingOf(d \cup {w}, j) = DialingOf(d, j) BY DEF DialingOf
  <2> QED BY <2>1, <2>2, <1>1, FS_AddElement
<1>3. ASSUME NEW w \in d
      PROVE /\ IsFiniteSet(d \ {w})
            /\ Cardinality(DialingOf(d \ {w}, KeyOfWant(w))) = Cardinality(DialingOf(d, KeyOfWant(w))) - 1
            /\ \A j : j # KeyOfWant(w) => DialingOf(d \ {w}, j) = DialingOf(d, j)
  <2>1. DialingOf(d \ {w}, KeyOfWant(w)) = DialingOf(d, KeyOfWant(w)) \ {w} /\ w \in DialingOf(d, KeyOfWant(w))
    BY DEF DialingOf
  <2>2. \A j : j # KeyOfWant(w) => DialingOf(d \ {w}, j) = DialingOf(d, j) BY DEF DialingOf
  <2>3. IsFiniteSet(d \ {w}) BY FS_RemoveElement
  <2>4. Cardinality(DialingOf(d, KeyOfWant(w)) \ {w}) = Cardinality(DialingOf(d, KeyOfWant(w))) - 1
    <3> DEFINE e == DialingOf(d, KeyOfWant(w))
    <3>1. IsFiniteSet(e) /\ w \in e BY <1>1, <2>1
    <3> HIDE DEF e
    <3>2. Cardinality(e \ {w}) = Cardinality(e) - 1 BY <3>1, FS_RemoveElement
    <3> QED BY <3>2 DEF e
  <2> QED BY <2>1, <2>2, <2>3, <2>4
<1> QED BY <1>1, <1>2, <1>3

\* The slots s are those of their dials and of the open connections, O[j] for host j, and one
\* more of host k.
Counts(s, O, k) == \A j \in Keys :
  s.count[j] = Cardinality(DialingOf(s.dialing, j)) + O[j] + (IF j = k THEN 1 ELSE 0)
\* The slots d are those of their dials and of the open connections; only queued dials were begun.
Counted(s, d, O) ==
  /\ ~d.panic /\ IsFiniteSet(d.dialing) /\ SlotQueues(d)
  /\ \A j \in Keys : d.count[j] = Cardinality(DialingOf(d.dialing, j)) + O[j]
  /\ s.dialing \subseteq d.dialing
  /\ \A w \in d.dialing : w \in s.dialing \/ \E j \in Keys : w \in Range(s.wait[j])
  /\ \A j \in Keys : Range(d.wait[j]) \subseteq Range(s.wait[j])

\* When that one is given back, the others still count (decConnsPerHost).
LEMMA DecCounts ==
  ASSUME TypeOK, config.limit > 0,
         NEW s \in SlotsType, NEW wn, NEW k \in Keys, NEW O \in [Keys -> Nat],
         ~s.panic, IsFiniteSet(s.dialing), SlotQueues(s), Counts(s, O, k)
  PROVE  Counted(s, DecConnsPerHost(wn, s, k), O)
<1> DEFINE d == DecConnsPerHost(wn, s, k)
           q == s.wait[k]
           w == q[FirstWaiting(wn, q)]
           p == PopWaiting(wn, q)
<1>1. /\ s.count \in [Keys -> Nat] /\ s.wait \in [Keys -> Seq(Wants)] /\ q \in Seq(Wants) /\ s.dialing \in SUBSET Wants
  BY DEF SlotsType, KeyQueue
<1>2. \A j : Cardinality(DialingOf(s.dialing, j)) \in Nat BY <1>1, FiniteDialing
<1>3. s.count[k] > 0
  BY <1>2 DEF Counts
<1>4. \/ /\ w \in Range(q) /\ w \in Wants /\ Waiting(wn, w)
         /\ d.count = s.count /\ d.dialing = s.dialing \cup {w}
         /\ d.wait = [s.wait EXCEPT ![k] = p]
         /\ d.panic = s.panic
      \/ /\ d.count = [s.count EXCEPT ![k] = s.count[k] - 1] /\ d.dialing = s.dialing
         /\ d.wait = [s.wait EXCEPT ![k] = <<>>]
         /\ d.panic = s.panic
  <2>1. GivenBack(wn, s, k, d) BY DecFacts
  <2>2. config.limit \in Nat /\ s.count[k] \in Nat BY <1>1, ConstantsAssumption DEF TypeOK
  <2>3. config.limit # 0 /\ s.count[k] # 0 BY <2>2, <1>3
  <2> HIDE DEF d
  <2> QED BY <2>1, <2>3 DEF GivenBack
<1>5. w \in Range(q) /\ Waiting(wn, w) =>
        /\ Range(p) \subseteq Range(q) /\ IsInjective(q) => IsInjective(p) /\ w \notin Range(p)
  <2> SUFFICES ASSUME w \in Range(q), Waiting(wn, w)
               PROVE Range(p) \subseteq Range(q) /\ (IsInjective(q) => IsInjective(p) /\ w \notin Range(p))
    OBVIOUS
  <2>1. FirstWaiting(wn, q) # 0
    <3> HIDE DEF q, w
    <3> QED BY <1>1, FirstWaitingRange
  <2> HIDE DEF q
  <2> QED BY <1>1, <2>1, PopWaitingFacts DEF w, p
<1>6. Range(p) \subseteq Range(q)
  <2> HIDE DEF q
  <2> QED BY <1>1, PopWaitingFacts DEF p
<1> HIDE DEF d, w, p
<1>7. CASE /\ w \in Range(q) /\ w \in Wants /\ Waiting(wn, w)
           /\ d.count = s.count /\ d.dialing = s.dialing \cup {w}
           /\ d.wait = [s.wait EXCEPT ![k] = p]
           /\ d.panic = s.panic
  <2>1. w \in Wants \ s.dialing /\ KeyOfWant(w) = k /\ IsInjective(q) BY <1>7 DEF SlotQueues
  <2>2. IsInjective(p) /\ w \notin Range(p) BY <2>1, <1>5, <1>6, <1>7
  <2>3. /\ IsFiniteSet(d.dialing)
        /\ Cardinality(DialingOf(d.dialing, k)) = Cardinality(DialingOf(s.dialing, k)) + 1
        /\ \A j : j # k => DialingOf(d.dialing, j) = DialingOf(s.dialing, j)
    <3>1. w \in Wants \ s.dialing BY <2>1
    <3>2. /\ IsFiniteSet(s.dialing \cup {w})
          /\ Cardinality(DialingOf(s.dialing \cup {w}, KeyOfWant(w))) = Cardinality(DialingOf(s.dialing, KeyOfWant(w))) + 1
          /\ \A j : j # KeyOfWant(w) => DialingOf(s.dialing \cup {w}, j) = DialingOf(s.dialing, j)
      BY <3>1, <1>1, FiniteDialing
    <3> QED BY <3>2, <2>1, <1>7
  <2>4. \A j \in Keys : IF j = k THEN d.wait[j] = p ELSE d.wait[j] = s.wait[j] BY <1>1, <1>7
  <2>5. SlotQueues(d)
    BY <2>2, <2>4, <1>6, <1>7, <2>1 DEF SlotQueues
  <2>6. ASSUME NEW j \in Keys PROVE d.count[j] = Cardinality(DialingOf(d.dialing, j)) + O[j]
    <3>1. Cardinality(DialingOf(s.dialing, j)) \in Nat /\ O[j] \in Nat BY <1>2
    <3>2. CASE j = k BY <3>1, <3>2, <2>3, <1>7 DEF Counts
    <3>3. CASE j # k BY <3>1, <3>3, <2>3, <1>7 DEF Counts
    <3> QED BY <3>2, <3>3
  <2> QED BY <2>3, <2>4, <2>5, <2>6, <1>6, <1>7 DEF d, Counted
<1>8. CASE /\ d.count = [s.count EXCEPT ![k] = s.count[k] - 1] /\ d.dialing = s.dialing
           /\ d.wait = [s.wait EXCEPT ![k] = <<>>]
           /\ d.panic = s.panic
  <2>1. \A j \in Keys : IF j = k THEN d.wait[j] = <<>> ELSE d.wait[j] = s.wait[j] BY <1>1, <1>8
  <2>2. SlotQueues(d) BY <2>1, <1>8, RangeOfEmpty DEF SlotQueues
  <2>3. ASSUME NEW j \in Keys PROVE d.count[j] = Cardinality(DialingOf(d.dialing, j)) + O[j]
    BY <1>2, <1>1, <1>8 DEF Counts
  <2> QED BY <2>1, <2>2, <2>3, <1>8, RangeOfEmpty DEF d, Counted
<1> QED BY <1>4, <1>7, <1>8

-----------------------------------------------------------------------------
(* Steps that leave the count alone, and steps that close a connection.      *)

\* A step that begins no dial: no request goes back to a point before its dial.
Onward == /\ config' = config
          /\ \A q \in Reqs : rt'[q].key = rt[q].key /\ rt'[q].at \notin {"removeIdle", "decConns"}
          /\ \A w \in Wants : Before(w)' => Before(w)
\* No connection is dialled or closed.
SameConns == \A d \in Conns : /\ conn'[d].dialed = conn[d].dialed /\ conn'[d].key = conn[d].key
                              /\ conn'[d].closed = conn[d].closed
\* No dial has failed.
NoNewFailure == \A w \in Wants : put'[w].at = "dec" => put[w].at = "dec"

\* A request that goes on, or begins its next try ...
LEMMA OnwardMoves ==
  ASSUME TypeOK, NoRefusals, config' = config, NEW r \in Reqs, NEW a, NEW t, NEW c, Moves(r, a, t, c),
         a \notin {"removeIdle", "decConns"},
         \/ t = rt[r].try /\ (a \notin {"start", "queueDial"} \/ rt[r].at \in {"start", "queueDial"})
         \/ t = rt[r].try + 1
  PROVE  Onward
BY ConstantsAssumption DEF Moves, NoRefusals, Wants, TypeOK, Before, Onward

\* ... or does nothing.
LEMMA OnwardSame == ASSUME NoRefusals, config' = config, rt' = rt PROVE Onward
BY DEF NoRefusals, Onward, Before

\* Such a step changes the dials and connections of no host.
LEMMA SameSets ==
  ASSUME TypeOK, Onward
  PROVE  /\ \A w \in Wants : (KeyOfWant(w))' = KeyOfWant(w)
         /\ \A d \in SUBSET Wants, k \in Keys : DialingOf(d, k)' = DialingOf(d, k)
         /\ SameConns => Dialed' = Dialed /\ \A k \in Keys : (Open(k))' = Open(k)
BY DEF KeyOfWant, Wants, Onward, DialingOf, SameConns, Dialed, Open

\* A step that leaves slots and connections alone keeps the invariant ...
LEMMA SlotQuiet ==
  ASSUME TypeOK, SlotInv, Onward, slots' = slots, SameConns,
         \A w \in Wants : put'[w].at = "dec" => w \in slots.dialing
  PROVE  SlotInv'
<1>1. slots.dialing \in SUBSET Wants /\ \A k \in Keys : Range(slots.wait[k]) \subseteq Wants
  BY RangeType DEF TypeOK, SlotsType, KeyQueue
<1>2. \A k \in Keys : (Dialing(k))' = Dialing(k)
  BY <1>1, SameSets DEF Dialing, DialingOf
<1>3. NoRefusals' BY DEF Onward, NoRefusals, SlotInv
<1>4. FreshDial' BY DEF Onward, FreshDial, InSlotQueue, SlotInv
<1>5. FailedIsDial' BY DEF FailedIsDial
<1>6. SlotsFinite' BY SameSets DEF SlotsFinite, SlotInv
<1>7. CountInv' BY <1>2, SameSets DEF CountInv, SlotInv
<1>8. SlotQueues(slots)' BY <1>1, SameSets DEF SlotQueues, SlotInv
<1> QED BY <1>3, <1>4, <1>5, <1>6, <1>7, <1>8 DEF SlotInv

\* The open connections of a host are finitely many.
LEMMA OpenFinite ==
  ASSUME TypeOK, DialedInv, IsFiniteSet(Dialed), NEW k \in Keys
  PROVE  Open(k) \subseteq Dialed /\ IsFiniteSet(Open(k)) /\ Cardinality(Open(k)) \in Nat
BY ConstantsAssumption, FS_Subset, FS_CardinalityType DEF Open, Dialed, DialedInv, KeyInv

\* A slot given back by s, once the connection that held it is counted no more.
LEMMA SlotGivenBack ==
  ASSUME TypeOK, TypeOK', DialedInv', SlotInv, config.limit > 0, Onward,
         NEW s \in SlotsType, NEW wn, NEW k \in Keys, slots' = DecConnsPerHost(wn, s, k),
         s.panic = slots.panic, s.wait = slots.wait, s.dialing \subseteq slots.dialing,
         \A j \in Keys : s.count[j] = Cardinality(DialingOf(s.dialing, j)) + Cardinality(Open(j)')
                                      + (IF j = k THEN 1 ELSE 0),
         Dialed' = Dialed, \A w \in Wants : put'[w].at = "dec" => w \in s.dialing
  PROVE  SlotInv'
<1> DEFINE O == [j \in Keys |-> Cardinality(Open(j)')]
<1>1. slots.dialing \in SUBSET Wants /\ s.dialing \in SUBSET Wants /\ \A j \in Keys : Range(slots.wait[j]) \subseteq Wants
  BY RangeType DEF TypeOK, SlotsType, KeyQueue
<1>2. slots'.dialing \in SUBSET Wants /\ \A j \in Keys : Range(slots'.wait[j]) \subseteq Wants
  BY RangeType DEF TypeOK, SlotsType, KeyQueue
<1>3. O \in [Keys -> Nat]
  <2>1. IsFiniteSet(Dialed)' BY DEF SlotInv, SlotsFinite
  <2>2. \A j \in Keys : Cardinality(Open(j))' \in Nat
    <3> TAKE j \in Keys
    <3>1. j # None BY ConstantsAssumption
    <3>2. Open(j)' \subseteq Dialed' BY <3>1 DEF Open, Dialed, DialedInv, KeyInv
    <3> QED BY <3>2, <2>1, FS_Subset, FS_CardinalityType
  <2> QED BY <2>2
<1>4. IsFiniteSet(s.dialing) BY FS_Subset DEF SlotInv, SlotsFinite
<1>5. SlotQueues(s) BY DEF SlotInv, SlotQueues
<1>6. Counts(s, O, k) BY DEF Counts
<1>7. ~s.panic BY DEF SlotInv, CountInv
<1> HIDE DEF O
<1>8. /\ ~slots'.panic /\ IsFiniteSet(slots'.dialing) /\ SlotQueues(slots')
      /\ \A j \in Keys : slots'.count[j] = Cardinality(DialingOf(slots'.dialing, j)) + O[j]
      /\ s.dialing \subseteq slots'.dialing
      /\ \A w \in slots'.dialing : w \in s.dialing \/ \E j \in Keys : w \in Range(s.wait[j])
      /\ \A j \in Keys : Range(slots'.wait[j]) \subseteq Range(s.wait[j])
  <2>1. Counted(s, slots', O) BY <1>3, <1>4, <1>5, <1>6, <1>7, DecCounts
  <2> QED BY <2>1 DEF Counted
<1>9. NoRefusals' BY DEF Onward, NoRefusals, SlotInv
<1>10. FreshDial'
  BY <1>8 DEF Onward, SlotInv, FreshDial, InSlotQueue
<1>11. FailedIsDial' BY <1>8 DEF FailedIsDial
<1>12. SlotsFinite' BY <1>8 DEF SlotInv, SlotsFinite
<1>13. CountInv'
  BY <1>2, SameSets, <1>8 DEF Dialing, DialingOf, O, CountInv
<1>14. SlotQueues(slots)' BY <1>2, <1>8, SameSets DEF SlotQueues
<1> QED BY <1>9, <1>10, <1>11, <1>12, <1>13, <1>14 DEF SlotInv

\* ... and so does one that closes a connection.
LEMMA SlotClose ==
  ASSUME TypeOK, TypeOK', DialedInv, DialedInv', SlotInv, config.limit > 0, Onward, NoNewFailure,
         NEW wn, NEW c \in Dialed, Close(wn, c)
  PROVE  SlotInv'
<1>1. c \in Conns /\ conn[c].key \in Keys /\ KeyInv BY DEF Dialed, DialedInv, KeyInv
<1>2. \A w \in Wants : put'[w].at = "dec" => w \in slots.dialing
  BY DEF NoNewFailure, SlotInv, FailedIsDial
<1>3. CASE conn[c].closed
  <2>1. slots' = slots /\ SameConns BY <1>1, <1>3, CloseFacts DEF SameConns
  <2> QED BY <2>1, <1>2, SlotQuiet
<1>4. CASE ~conn[c].closed
  <2>0. PICK k \in Keys : k = conn[c].key BY <1>1
  <2>1. /\ slots' = DecConnsPerHost(wn, slots, k)
        /\ \A d \in Conns : /\ conn'[d].dialed = conn[d].dialed /\ conn'[d].key = conn[d].key
                            /\ conn'[d].closed = (conn[d].closed \/ d = c)
    BY <2>0, <1>1, <1>4, CloseFacts
  <2>2. Dialed' = Dialed BY <2>1 DEF Dialed
  <2>3. c \in Open(k) /\ Open(k)' = Open(k) \ {c} /\ \A j \in Keys : j # k => Open(j)' = Open(j)
    BY <2>0, <2>1, <1>1, <1>4 DEF Open
  <2>4. IsFiniteSet(Dialed) BY DEF SlotInv, SlotsFinite
  <2>5. IsFiniteSet(Open(k)) /\ Cardinality(Open(k)) \in Nat BY <2>4, <1>1, OpenFinite
  <2>6. Cardinality(Open(k) \ {c}) = Cardinality(Open(k)) - 1 BY <2>3, <2>5, FS_RemoveElement
  <2>7. slots \in SlotsType /\ slots.dialing \in SUBSET Wants BY DEF TypeOK, SlotsType
  <2>8. \A j \in Keys : slots.count[j] = Cardinality(DialingOf(slots.dialing, j)) + Cardinality(Open(j))
    BY DEF SlotInv, CountInv, Dialing, DialingOf
  <2>9. ASSUME NEW j \in Keys
        PROVE slots.count[j] = Cardinality(DialingOf(slots.dialing, j)) + Cardinality(Open(j)')
                               + (IF j = k THEN 1 ELSE 0)
    BY <2>7, FiniteDialing, <2>4, OpenFinite, <2>3, <2>6, <2>8 DEF SlotInv, SlotsFinite
  <2> QED BY <2>1, <2>2, <2>7, <2>9, <1>2, SlotGivenBack
<1> QED BY <1>3, <1>4

-----------------------------------------------------------------------------
(* Every action keeps the count.                                             *)

\* QueueForIdleConn keeps the slots accounted for.
LEMMA QueueForIdleConnSlots ==
  ASSUME TypeOK, TypeOK', DialedInv, DialedInv', SlotInv, config.limit > 0,
         NEW r \in Reqs, QueueForIdleConn(r) PROVE SlotInv'
<1>0. NoRefusals BY DEF SlotInv
<1>1. Onward
  <2>1. /\ rt[r].at = "start" /\ config' = config
        /\ (\E c : Moves(r, "queueDial", rt[r].try, c)) \/ (\E c : Moves(r, "got", rt[r].try, c))
    BY QueueForIdleConnEffect
  <2> QED BY <1>0, <2>1, OnwardMoves
<1>2. slots' = slots /\ SameConns BY QueueForIdleConnEffect DEF SameConns
<1>3. \A v \in Wants : put'[v].at = "dec" => v \in slots.dialing
  BY QueueForIdleConnEffect DEF SlotInv, FailedIsDial, PutBecomes, Putters
<1> QED BY <1>1, <1>2, <1>3, SlotQuiet

\* Ready keeps the slots accounted for.
LEMMA ReadySlots ==
  ASSUME TypeOK, TypeOK', DialedInv, DialedInv', SlotInv, config.limit > 0,
         NEW r \in Reqs, Ready(r) PROVE SlotInv'
BY ReadyEffect, OnwardMoves, SlotQuiet DEF SlotInv, NoRefusals, SameConns, FailedIsDial, PutBecomes, Putters

\* EnterRoundTrip keeps the slots accounted for.
LEMMA EnterRoundTripSlots ==
  ASSUME TypeOK, TypeOK', DialedInv, DialedInv', SlotInv, config.limit > 0,
         NEW r \in Reqs, EnterRoundTrip(r) PROVE SlotInv'
BY EnterRoundTripEffect, OnwardMoves, SlotQuiet DEF SlotInv, NoRefusals, SameConns, FailedIsDial, PutBecomes,
   Putters

\* RequestFails keeps the slots accounted for.
LEMMA RequestFailsSlots ==
  ASSUME TypeOK, TypeOK', DialedInv, DialedInv', SlotInv, config.limit > 0,
         NEW r \in Reqs, RequestFails(r) PROVE SlotInv'
BY RequestFailsEffect, OnwardMoves, SlotQuiet DEF SlotInv, NoRefusals, SameConns, FailedIsDial, PutBecomes,
   Putters

\* HTTP2Returns keeps the slots accounted for.
LEMMA HTTP2ReturnsSlots ==
  ASSUME TypeOK, TypeOK', DialedInv, DialedInv', SlotInv, config.limit > 0,
         NEW r \in Reqs, HTTP2Returns(r) PROVE SlotInv'
BY HTTP2ReturnsEffect, OnwardMoves, SlotQuiet DEF SlotInv, NoRefusals, SameConns, FailedIsDial, PutBecomes,
   Putters

\* RemoveNoCached keeps the slots accounted for.
LEMMA RemoveNoCachedSlots ==
  ASSUME TypeOK, TypeOK', DialedInv, DialedInv', SlotInv, config.limit > 0,
         NEW r \in Reqs, RemoveNoCached(r) PROVE SlotInv'
BY RemoveNoCachedEffect DEF SlotInv, NoRefusals

\* DecNoCached keeps the slots accounted for.
LEMMA DecNoCachedSlots ==
  ASSUME TypeOK, TypeOK', DialedInv, DialedInv', SlotInv, config.limit > 0,
         NEW r \in Reqs, DecNoCached(r) PROVE SlotInv'
BY DecNoCachedEffect DEF SlotInv, NoRefusals

\* Answered keeps the slots accounted for.
LEMMA AnsweredSlots ==
  ASSUME TypeOK, TypeOK', DialedInv, DialedInv', SlotInv, config.limit > 0,
         NEW r \in Reqs, Answered(r) PROVE SlotInv'
BY AnsweredEffect, OnwardMoves, SlotQuiet DEF SlotInv, NoRefusals, SameConns, FailedIsDial, PutBecomes, Putters

\* Cancelled keeps the slots accounted for.
LEMMA CancelledSlots ==
  ASSUME TypeOK, TypeOK', DialedInv, DialedInv', SlotInv, config.limit > 0,
         NEW r \in Reqs, Cancelled(r) PROVE SlotInv'
BY CancelledEffect, OnwardMoves, SlotQuiet DEF SlotInv, NoRefusals, SameConns, FailedIsDial, PutBecomes, Putters

\* GiveUp keeps the slots accounted for.
LEMMA GiveUpSlots ==
  ASSUME TypeOK, TypeOK', DialedInv, DialedInv', SlotInv, config.limit > 0,
         NEW r \in Reqs, GiveUp(r) PROVE SlotInv'
BY GiveUpEffect, OnwardMoves, SlotQuiet DEF SlotInv, NoRefusals, SameConns, FailedIsDial, PutBecomes, Putters

\* ClosedInUse keeps the slots accounted for.
LEMMA ClosedInUseSlots ==
  ASSUME TypeOK, TypeOK', DialedInv, DialedInv', SlotInv, config.limit > 0,
         NEW r \in Reqs, ClosedInUse(r) PROVE SlotInv'
BY ClosedInUseEffect, OnwardSame, SlotClose DEF SlotInv, NoNewFailure, PutBecomes, Putters

\* PutCheck keeps the slots accounted for.
LEMMA PutCheckSlots ==
  ASSUME TypeOK, TypeOK', DialedInv, DialedInv', SlotInv, config.limit > 0,
         NEW p \in Putters, PutCheck(p) PROVE SlotInv'
BY PutCheckEffect, OnwardSame, SlotQuiet DEF SlotInv, SameConns, FailedIsDial, PutBecomes, Putters

\* PutClose keeps the slots accounted for.
LEMMA PutCloseSlots ==
  ASSUME TypeOK, TypeOK', DialedInv, DialedInv', SlotInv, config.limit > 0,
         NEW p \in Putters, PutClose(p) PROVE SlotInv'
BY PutCloseEffect, OnwardSame, SlotClose DEF SlotInv, NoNewFailure, PutBecomes, Putters

\* DialFails keeps the slots accounted for.
LEMMA DialFailsSlots ==
  ASSUME TypeOK, TypeOK', DialedInv, DialedInv', SlotInv, config.limit > 0,
         NEW w \in Wants, DialFails(w) PROVE SlotInv'
BY DialFailsEffect, OnwardSame, SlotQuiet DEF SlotInv, SameConns, FailedIsDial, PutBecomes, Putters

\* ReadFails keeps the slots accounted for.
LEMMA ReadFailsSlots ==
  ASSUME TypeOK, TypeOK', DialedInv, DialedInv', SlotInv, config.limit > 0,
         NEW c \in Conns, ReadFails(c) PROVE SlotInv'
BY ReadFailsEffect, OnwardSame, SlotQuiet DEF SlotInv, SameConns, FailedIsDial, PutBecomes, Putters

\* ReadLoopRemoves keeps the slots accounted for.
LEMMA ReadLoopRemovesSlots ==
  ASSUME TypeOK, TypeOK', DialedInv, DialedInv', SlotInv, config.limit > 0,
         NEW c \in Conns, ReadLoopRemoves(c) PROVE SlotInv'
BY ReadLoopRemovesEffect, OnwardSame, SlotQuiet DEF SlotInv, SameConns, FailedIsDial, PutBecomes, Putters

\* CloseConnIfStillIdle keeps the slots accounted for.
LEMMA CloseConnIfStillIdleSlots ==
  ASSUME TypeOK, TypeOK', DialedInv, DialedInv', SlotInv, config.limit > 0,
         NEW c \in Conns, CloseConnIfStillIdle(c) PROVE SlotInv'
BY CloseConnIfStillIdleEffect, OnwardSame, SlotClose DEF SlotInv, NoNewFailure, PutBecomes, Putters

\* CloseTaken keeps the slots accounted for.
LEMMA CloseTakenSlots ==
  ASSUME TypeOK, TypeOK', DialedInv, DialedInv', SlotInv, config.limit > 0,
         NEW c \in Conns, CloseTaken(c) PROVE SlotInv'
BY CloseTakenEffect, OnwardSame, SlotClose DEF SlotInv, NoNewFailure, PutBecomes, Putters

\* CloseIdleConnections keeps the slots accounted for.
LEMMA CloseIdleConnectionsSlots ==
  ASSUME TypeOK, TypeOK', DialedInv, DialedInv', SlotInv, config.limit > 0, CloseIdleConnections
  PROVE  SlotInv'
BY CloseIdleConnectionsEffect, OnwardSame, SlotQuiet DEF SlotInv, SameConns, FailedIsDial, PutBecomes, Putters

\* PutInsert keeps the slots accounted for.
LEMMA PutInsertSlots ==
  ASSUME TypeOK, TypeOK', DialedInv, DialedInv', SlotInv, config.limit > 0,
         NEW p \in Putters, PutInsert(p)
  PROVE  SlotInv'
<1> DEFINE c == put[p].conn
           k == conn[c].key
<1>1. Onward BY PutInsertEffect, OnwardSame DEF SlotInv
<1>2. NoNewFailure
  <2>1. PutBecomes(p, "none", None) \/ PutBecomes(p, "close", c) BY PutInsertEffect
  <2>2. \A v \in Wants : v \in Putters BY DEF Putters
  <2> HIDE DEF c
  <2> QED BY <2>1, <2>2 DEF NoNewFailure, PutBecomes
<1>3. CASE UNCHANGED <<conn, slots>>
  <2>1. slots' = slots /\ SameConns BY <1>3 DEF SameConns
  <2> QED BY <1>1, <1>2, <2>1, SlotQuiet DEF NoNewFailure, SlotInv, FailedIsDial
<1>4. CASE Emptied(k) \in IdleType /\ AddIdle(Emptied(k), want', c)
  <2>1. KeyInv /\ c \in Dialed /\ idle \in IdleType BY PutInsertEffect DEF DialedInv, TypeOK
  <2>2. PICK a \in IdleType : Added(Emptied(k), want', c, a) BY <1>4, <2>1, AddIdleFacts
  <2>3. CASE \E o \in Range(a.lru) : idle' = RemoveIdle(a, o) /\ Close(want', o)
    BY <2>3, <2>1, <2>2, <1>1, <1>2, SlotClose DEF Emptied, IdleType, Added, DialedInv, PoolInv
  <2> QED BY <2>2, <2>3, <1>3 DEF Added
<1> QED BY <1>3, <1>4, PutInsertEffect

\* QueueForDial keeps the slots accounted for.
LEMMA QueueForDialSlots ==
  ASSUME TypeOK, TypeOK', DialedInv, DialedInv', SlotInv, config.limit > 0,
         NEW r \in Reqs, QueueForDial(r)
  PROVE  SlotInv'
<1>1. PICK k \in Keys, w \in Wants : k = rt[r].key /\ w = WantOf(r) /\ KeyOfWant(w) = k
  <2>1. rt[r].key \in Keys /\ WantOf(r) \in Wants /\ KeyOfWant(WantOf(r)) = rt[r].key
    BY DEF TypeOK, WantOf, Wants, KeyOfWant
  <2> QED BY <2>1
<1>2. NoRefusals /\ rt[r].at = "queueDial" /\ config' = config /\ Moves(r, "wait", rt[r].try, rt[r].conn)
  BY QueueForDialEffect DEF SlotInv
<1>3. Onward BY <1>2, OnwardMoves
<1>4. SameConns /\ put' = put BY QueueForDialEffect DEF SameConns
<1>5. Before(w) /\ ~Before(w)'
  BY <1>2, ConstantsAssumption, <1>1 DEF Moves, TypeOK, Before, WantOf
<1>6. w \notin slots.dialing /\ ~InSlotQueue(w) BY <1>5 DEF SlotInv, FreshDial
<1>7. slots \in SlotsType /\ slots.dialing \in SUBSET Wants /\ IsFiniteSet(slots.dialing)
      /\ slots.count \in [Keys -> Nat] /\ slots.wait \in [Keys -> Seq(Wants)]
      /\ \A j \in Keys : Range(slots.wait[j]) \subseteq Wants
  BY RangeType DEF TypeOK, SlotsType, SlotInv, SlotsFinite, KeyQueue
<1>8. /\ Dialed' = Dialed /\ (\A j \in Keys : (Open(j))' = Open(j))
      /\ \A v \in Wants : (KeyOfWant(v))' = KeyOfWant(v)
      /\ \A d \in SUBSET Wants, j \in Keys : DialingOf(d, j)' = DialingOf(d, j)
  BY <1>3, <1>4, SameSets
<1>9. CASE SlotsAre(slots', [slots.count EXCEPT ![k] = slots.count[k] + 1], slots.wait,
                    slots.dialing \cup {w}, slots.panic)
  <2>1. /\ IsFiniteSet(slots.dialing \cup {w})
        /\ Cardinality(DialingOf(slots.dialing \cup {w}, k)) = Cardinality(DialingOf(slots.dialing, k)) + 1
        /\ \A j : j # k => DialingOf(slots.dialing \cup {w}, j) = DialingOf(slots.dialing, j)
    <3>1. w \in Wants \ slots.dialing BY <1>6
    <3> QED BY ZenonT(60), <3>1, <1>1, <1>7, FiniteDialing
  <2>2. /\ slots'.count = [slots.count EXCEPT ![k] = slots.count[k] + 1] /\ slots'.wait = slots.wait
        /\ slots'.dialing = slots.dialing \cup {w} /\ slots'.panic = slots.panic
    BY <1>9 DEF SlotsAre
  <2>3. ASSUME NEW j \in Keys PROVE slots'.count[j] = Cardinality(Dialing(j)') + Cardinality(Open(j)')
    <3>1. Dialing(j) = DialingOf(slots.dialing, j) /\ Dialing(j)' = DialingOf(slots.dialing \cup {w}, j)
      BY <2>2, <1>7, <1>8 DEF Dialing, DialingOf
    <3>2. slots.count[j] = Cardinality(DialingOf(slots.dialing, j)) + Cardinality(Open(j))
      BY <3>1 DEF SlotInv, CountInv
    <3>3. Cardinality(DialingOf(slots.dialing, j)) \in Nat BY <1>7, FiniteDialing
    <3>4. Cardinality(Open(j)) \in Nat BY OpenFinite DEF SlotInv, SlotsFinite
    <3>5. Cardinality(Open(j)') = Cardinality(Open(j)) BY <1>8
    <3>6. CASE j = k
      <4>1. slots'.count[j] = slots.count[j] + 1 BY <3>6, <2>2, <1>7
      <4>2. Cardinality(Dialing(j)') = Cardinality(DialingOf(slots.dialing, j)) + 1
        BY <3>1, <3>6, <2>1
      <4> QED BY <4>1, <4>2, <3>2, <3>3, <3>4, <3>5
    <3>7. CASE j # k
      BY <3>7, <2>2, <1>7, <3>1, <2>1, <3>2, <3>3, <3>4, <3>5
    <3> QED BY <3>6, <3>7
  <2>4. CountInv' BY <2>2, <2>3 DEF CountInv, SlotInv
  <2>5. SlotQueues(slots)' BY <2>2, <1>6, <1>7, <1>8 DEF SlotQueues, SlotInv, InSlotQueue
  <2>6. FreshDial' BY <2>2, <1>3, <1>5 DEF FreshDial, SlotInv, InSlotQueue, Onward
  <2>7. FailedIsDial' /\ SlotsFinite'
    BY <2>1, <2>2, <1>4, <1>8 DEF FailedIsDial, SlotsFinite, SlotInv
  <2> QED BY <2>4, <2>5, <2>6, <2>7, <1>3 DEF SlotInv, NoRefusals, Onward
<1>10. CASE SlotsAre(slots', slots.count, [slots.wait EXCEPT ![k] = Enqueue(slots.wait[k], w)],
                     slots.dialing, slots.panic)
  <2> DEFINE e == Enqueue(slots.wait[k], w)
  <2>1. slots.wait[k] \in Seq(Wants) BY <1>7
  <2>2. /\ e \in Seq(Wants) /\ Range(e) \subseteq Range(slots.wait[k]) \cup {w}
        /\ IsInjective(slots.wait[k]) /\ w \notin Range(slots.wait[k]) => IsInjective(e)
    BY <2>1, EnqueueFacts
  <2>3. IsInjective(e) BY <2>2, <1>6 DEF SlotInv, SlotQueues, InSlotQueue
  <2> HIDE DEF e
  <2>4. /\ slots'.count = slots.count /\ slots'.wait = [slots.wait EXCEPT ![k] = e]
        /\ slots'.dialing = slots.dialing /\ slots'.panic = slots.panic
    BY <1>10 DEF SlotsAre, e
  <2>5. \A j \in Keys : IF j = k THEN slots'.wait[j] = e ELSE slots'.wait[j] = slots.wait[j]
    BY <2>4, <1>7
  <2>6. \A j \in Keys : (Dialing(j))' = Dialing(j) BY <2>4, <1>7, <1>8 DEF Dialing
  <2>7. CountInv' BY <2>4, <2>6, <1>8 DEF CountInv, SlotInv
  <2>8. SlotQueues(slots)'
    <3> SUFFICES ASSUME NEW j \in Keys
                 PROVE IsInjective(slots'.wait[j])
                       /\ \A v \in Range(slots'.wait[j]) : (KeyOfWant(v))' = j /\ v \notin slots'.dialing
      BY DEF SlotQueues
    <3>1. CASE j = k
      <4>1. \A v \in Range(e) : v \in Wants /\ KeyOfWant(v) = k /\ v \notin slots.dialing
        BY <2>2, <1>1, <1>6, <1>7 DEF SlotInv, SlotQueues
      <4> QED BY <4>1, <3>1, <2>3, <2>4, <2>5, <1>8
    <3>2. CASE j # k
      BY <1>7, <3>2, <2>4, <2>5, <1>8 DEF SlotInv, SlotQueues
    <3> QED BY <3>1, <3>2
  <2>9. FreshDial'
    BY <1>3, <1>5, <2>2, <2>5, <2>4 DEF Onward, SlotInv, FreshDial, InSlotQueue
  <2>10. FailedIsDial' /\ SlotsFinite' BY <2>4, <1>4, <1>8 DEF FailedIsDial, SlotsFinite, SlotInv
  <2> QED BY <2>7, <2>8, <2>9, <2>10, <1>3 DEF SlotInv, NoRefusals, Onward
<1> QED BY <1>1, <1>9, <1>10, QueueForDialEffect

\* DialDec keeps the slots accounted for.
LEMMA DialDecSlots ==
  ASSUME TypeOK, TypeOK', DialedInv, DialedInv', SlotInv, config.limit > 0,
         NEW w \in Wants, DialDec(w)
  PROVE  SlotInv'
<1> DEFINE s == [slots EXCEPT !.dialing = @ \ {w}]
<1>1. PICK k \in Keys : k = KeyOfWant(w) BY DialDecEffect
<1>2. /\ SlotsAre(s, slots.count, slots.wait, slots.dialing \ {w}, slots.panic)
      /\ slots' = DecConnsPerHost(want, s, k)
  BY <1>1, DialDecEffect
<1> HIDE DEF s
<1>3. Onward BY DialDecEffect, OnwardSame DEF SlotInv
<1>4. SameConns BY DialDecEffect DEF SameConns
<1>5. /\ Dialed' = Dialed /\ (\A j \in Keys : (Open(j))' = Open(j)) BY <1>3, <1>4, SameSets
<1>6. w \in slots.dialing BY DialDecEffect DEF SlotInv, FailedIsDial
<1>7. slots.dialing \in SUBSET Wants /\ IsFiniteSet(slots.dialing)
  BY DEF TypeOK, SlotsType, SlotInv, SlotsFinite
<1>8. /\ Cardinality(DialingOf(slots.dialing \ {w}, k)) = Cardinality(DialingOf(slots.dialing, k)) - 1
      /\ \A j : j # k => DialingOf(slots.dialing \ {w}, j) = DialingOf(slots.dialing, j)
  BY <1>1, <1>6, <1>7, FiniteDialing
<1>9. s \in SlotsType /\ s.count = slots.count /\ s.wait = slots.wait /\ s.dialing = slots.dialing \ {w} /\ s.panic = slots.panic
  BY <1>2 DEF SlotsAre
<1>10. ASSUME NEW j \in Keys
       PROVE s.count[j] = Cardinality(DialingOf(s.dialing, j)) + Cardinality(Open(j)') + (IF j = k THEN 1 ELSE 0)
  <2>1. slots.count[j] = Cardinality(DialingOf(slots.dialing, j)) + Cardinality(Open(j))
    BY DEF SlotInv, CountInv, Dialing, DialingOf
  <2>2. Cardinality(DialingOf(slots.dialing, j)) \in Nat BY <1>7, FiniteDialing
  <2>3. Cardinality(Open(j)) \in Nat BY OpenFinite DEF SlotInv, SlotsFinite
  <2>4. Cardinality(Open(j)') = Cardinality(Open(j)) BY <1>5
  <2>5. CASE j = k
    BY <2>5, <1>8, <1>9, <2>1, <2>2, <2>3, <2>4
  <2>6. CASE j # k
    <3>1. Cardinality(DialingOf(s.dialing, j)) = Cardinality(DialingOf(slots.dialing, j))
      BY <2>6, <1>8, <1>9
    <3> QED BY <3>1, <2>1, <2>2, <2>3, <2>4, <2>6, <1>9
  <2> QED BY <2>5, <2>6
<1>11. \A v \in Wants : put'[v].at = "dec" => v \in s.dialing
  BY DialDecEffect, <1>9 DEF Putters, PutBecomes, SlotInv, FailedIsDial
<1>12. s.dialing \subseteq slots.dialing BY <1>9
<1> QED BY <1>2, <1>3, <1>5, <1>9, <1>10, <1>11, <1>12, SlotGivenBack

\* DialSucceeds keeps the slots accounted for.
LEMMA DialSucceedsSlots ==
  ASSUME TypeOK, TypeOK', DialedInv, DialedInv', SlotInv, config.limit > 0,
         NEW w \in Wants, NEW c \in Conns, DialSucceeds(w, c)
  PROVE  SlotInv'
<1>1. PICK k \in Keys : k = KeyOfWant(w) BY DEF KeyOfWant, Wants, TypeOK
<1>2. /\ w \in slots.dialing /\ c \notin Dialed /\ put[w].at = "none" /\ conn'[c].dialed /\ conn'[c].key = k
      /\ conn'[c].closed = conn[c].closed /\ \A d \in Conns : d # c => conn'[d] = conn[d]
  BY <1>1, DialSucceedsEffect
<1>3. Onward BY DialSucceedsEffect, OnwardSame DEF SlotInv
<1>4. /\ slots'.count = slots.count /\ slots'.wait = slots.wait
      /\ slots'.dialing = slots.dialing \ {w} /\ slots'.panic = slots.panic
  BY DialSucceedsEffect DEF SlotsAre
<1>5. Dialed' = Dialed \cup {c} BY <1>2 DEF Dialed
<1>6. IsFiniteSet(Dialed) /\ IsFiniteSet(slots.dialing) /\ slots.dialing \in SUBSET Wants
      /\ \A j \in Keys : Range(slots.wait[j]) \subseteq Wants
  BY RangeType DEF SlotInv, SlotsFinite, TypeOK, SlotsType, KeyQueue
<1>7. /\ c \notin Open(k) /\ Open(k)' = Open(k) \cup {c}
      /\ \A j \in Keys : j # k => Open(j)' = Open(j)
  BY <1>2, ConstantsAssumption DEF DialedInv, KeyInv, Dialed, Open
<1>8. /\ Cardinality(DialingOf(slots.dialing \ {w}, k)) = Cardinality(DialingOf(slots.dialing, k)) - 1
      /\ \A j : j # k => DialingOf(slots.dialing \ {w}, j) = DialingOf(slots.dialing, j)
      /\ IsFiniteSet(slots.dialing \ {w})
  BY ZenonT(60), <1>1, <1>2, <1>6, FiniteDialing
<1>9. /\ \A v \in Wants : (KeyOfWant(v))' = KeyOfWant(v)
      /\ \A d \in SUBSET Wants, j \in Keys : DialingOf(d, j)' = DialingOf(d, j)
  BY <1>3, SameSets
<1>10. ASSUME NEW j \in Keys PROVE slots'.count[j] = Cardinality(Dialing(j)') + Cardinality(Open(j)')
  <2>1. Dialing(j) = DialingOf(slots.dialing, j) /\ Dialing(j)' = DialingOf(slots.dialing \ {w}, j)
    BY <1>4, <1>6, <1>9 DEF Dialing, DialingOf
  <2>2. slots.count[j] = Cardinality(DialingOf(slots.dialing, j)) + Cardinality(Open(j))
    BY <2>1 DEF SlotInv, CountInv
  <2>3. Cardinality(DialingOf(slots.dialing, j)) \in Nat BY <1>6, FiniteDialing
  <2>4. IsFiniteSet(Open(j)) /\ Cardinality(Open(j)) \in Nat BY <1>6, OpenFinite
  <2>5. CASE j = k
    <3>1. Cardinality(Open(j)') = Cardinality(Open(j)) + 1 BY <2>4, <2>5, <1>7, FS_AddElement
    <3> QED BY <3>1, <2>1, <2>2, <2>3, <2>4, <2>5, <1>4, <1>8
  <2>6. CASE j # k
    BY <2>6, <1>7, <2>1, <2>2, <2>3, <2>4, <1>4, <1>8
  <2> QED BY <2>5, <2>6
<1>11. CountInv' BY <1>4, <1>10 DEF CountInv, SlotInv
<1>12. SlotQueues(slots)' BY <1>4, <1>6, <1>9 DEF SlotQueues, SlotInv
<1>13. FreshDial' BY <1>3, <1>4 DEF FreshDial, SlotInv, InSlotQueue, Onward
<1>14. SlotsFinite' BY <1>4, <1>5, <1>6, <1>8, FS_AddElement DEF SlotsFinite
<1>15. FailedIsDial'
  <2>1. \A v \in Wants : v \in Putters BY DEF Putters
  <2>2. put' = put \/ PutBecomes(w, "check", c) BY DialSucceedsEffect
  <2>3. \A v \in Wants : put'[v].at = "dec" => put[v].at = "dec" /\ v # w
    BY <2>1, <2>2, <1>2 DEF PutBecomes
  <2> QED BY <2>3, <1>4 DEF FailedIsDial, SlotInv
<1> QED BY <1>3, <1>11, <1>12, <1>13, <1>14, <1>15 DEF SlotInv, NoRefusals, Onward

-----------------------------------------------------------------------------
(* The third theorem.                                                        *)

\* Initially no slot is taken.
LEMMA InitSlots ==
  ASSUME Init, config.limit > 0 => ~config.http2Fails, config.limit > 0
  PROVE  SlotInv
<1>1. \A r \in Reqs : rt[r].at \in {"start", "done"} /\ rt[r].try = 1 BY DEF Init
<1>2. \A k \in Keys : Open(k) = {} /\ Dialing(k) = {} BY ConstantsAssumption DEF Init, Open, Dialing
<1>3. Dialed = {} BY DEF Init, Dialed
<1>4. /\ slots.dialing = {} /\ ~slots.panic
      /\ \A k \in Keys : slots.wait[k] = <<>> /\ slots.count[k] = 0
  BY DEF Init
<1>5. NoRefusals BY <1>1 DEF NoRefusals
<1>6. SlotsFinite BY <1>3, <1>4, FS_EmptySet DEF SlotsFinite
<1>7. CountInv
  <2>1. Cardinality({}) = 0 BY FS_EmptySet
  <2>2. ASSUME NEW k \in Keys
        PROVE  slots.count[k] = Cardinality(Dialing(k)) + Cardinality(Open(k))
    <3>1. Cardinality(Dialing(k)) = 0 /\ Cardinality(Open(k)) = 0 BY <1>2, <2>1
    <3> QED BY <3>1, <1>4
  <2> QED BY <2>2, <1>4 DEF CountInv
<1>8. Range(<<>>) = {} /\ IsInjective(<<>>) BY DEF Range, IsInjective
<1>9. SlotQueues(slots) BY <1>4, <1>8 DEF SlotQueues
<1>10. FreshDial BY <1>4, <1>8 DEF FreshDial, InSlotQueue
<1>11. FailedIsDial BY DEF Init, FailedIsDial, NoPut, Putters
<1> QED BY <1>5, <1>6, <1>7, <1>9, <1>10, <1>11 DEF SlotInv

\* The Transport's settings do not change.
LEMMA ConfigFixed == [Next]_vars => config' = config
BY DEF vars, Next, RequestStep, PutStep, DialStep, Finished, QueueForIdleConn, QueueForDial, Ready,
       EnterRoundTrip, RequestFails, HTTP2Returns, RemoveNoCached, DecNoCached, Answered, Cancelled, GiveUp,
       ClosedInUse, PutCheck, PutInsert, PutClose, DialSucceeds, DialFails, DialDec, ReadFails,
       ReadLoopRemoves, CloseConnIfStillIdle, CloseTaken, CloseIdleConnections

\* Every step keeps the invariant.
LEMMA StepSlots ==
  TypeOK /\ TypeOK' /\ DialedInv /\ DialedInv' /\ SlotInv /\ config.limit > 0 /\ [Next]_vars => SlotInv'
<1> SUFFICES ASSUME TypeOK, TypeOK', DialedInv, DialedInv', SlotInv, config.limit > 0, [Next]_vars
             PROVE  SlotInv'
  OBVIOUS
<1>1. CASE UNCHANGED vars
  BY <1>1, OnwardSame, SlotQuiet DEF SlotInv, vars, SameConns, FailedIsDial
<1>2. CASE Next
  <2>1. ASSUME NEW r \in Reqs, RequestStep(r) PROVE SlotInv'
    BY <2>1, QueueForIdleConnSlots, QueueForDialSlots, ReadySlots, EnterRoundTripSlots,
       RequestFailsSlots,
       HTTP2ReturnsSlots, RemoveNoCachedSlots, DecNoCachedSlots DEF RequestStep
  <2>2. ASSUME NEW r \in Reqs, Answered(r) \/ Cancelled(r) \/ GiveUp(r) \/ ClosedInUse(r) PROVE SlotInv'
    BY <2>2, AnsweredSlots, CancelledSlots, GiveUpSlots, ClosedInUseSlots
  <2>3. ASSUME NEW p \in Putters, PutStep(p) PROVE SlotInv'
    BY <2>3, PutCheckSlots, PutInsertSlots, PutCloseSlots DEF PutStep
  <2>4. ASSUME NEW w \in Wants, DialStep(w) PROVE SlotInv'
    BY <2>4, DialSucceedsSlots, DialFailsSlots, DialDecSlots DEF DialStep
  <2>5. ASSUME NEW c \in Conns,
               ReadFails(c) \/ ReadLoopRemoves(c) \/ CloseConnIfStillIdle(c) \/ CloseTaken(c)
        PROVE SlotInv'
    BY <2>5, ReadFailsSlots, ReadLoopRemovesSlots, CloseConnIfStillIdleSlots, CloseTakenSlots
  <2>6. Finished => SlotInv' BY <1>1 DEF Finished
  <2> QED BY <1>2, <2>1, <2>2, <2>3, <2>4, <2>5, <2>6, CloseIdleConnectionsSlots DEF Next
<1> QED BY <1>1, <1>2

\* The invariant implies the property.
LEMMA SlotsMean == TypeOK /\ Bounded /\ (config.limit > 0 => SlotInv) => SlotsAccounted
BY DEF SlotsAccounted, SlotInv, CountInv, Bounded

\* With a limit, connsPerHost is the number of dials in progress and of connections not
\* closed, and never above the limit; decConnsPerHost never panics.  Assumed: no HTTP/2
\* connection refuses requests (RoundTrip gives the slot of one back without closing it).
THEOREM SlotsAreAccounted ==
  ASSUME \A c \in Configs : c.limit > 0 => ~c.http2Fails
  PROVE  Spec => []SlotsAccounted
<1> DEFINE Limited == config.limit > 0 => SlotInv
<1>1. Init => Limited BY InitSlots DEF Init
<1>2. TypeOK /\ TypeOK' /\ DialedInv /\ DialedInv' /\ Limited /\ [Next]_vars => Limited'
  BY StepSlots, ConfigFixed
<1>3. TypeOK /\ StrandedInv /\ Limited => SlotsAccounted BY SlotsMean DEF StrandedInv
<1> QED BY <1>1, <1>2, <1>3, InitTyped, InitStranded, StepTyped, StepStranded, PTL DEF Spec

-----------------------------------------------------------------------------
(* A connection is in one place at a time: with a request, on its way to one  *)
(* (in a wantConn), on its way back to the pool (in the goroutine that calls  *)
(* putOrCloseIdleConn), or in the pool.  The proof follows a connection       *)
(* through every step: it stays where it is, is passed on by the one that has *)
(* it, or no longer lives.                                                    *)

(* The invariant.                                                            *)

\* A wantConn that a dial, or a queue, may deliver to.
Awaited(w) == \/ w \in slots.dialing
              \/ \E k \in Keys : w \in Range(slots.wait[k]) \/ w \in Range(idle.wait[k])
\* If it still waits, it is its request's, and getConn waits for it.
CurrentInv == \A w \in Wants :
  Awaited(w) /\ Waiting(want, w) => w[2] = rt[w[1]].try /\ rt[w[1]].at \in {"queueDial", "wait"}
\* A wantConn that is not made yet has no connection.
Early(w)  == rt[w[1]].try < w[2] \/ (rt[w[1]].try = w[2] /\ rt[w[1]].at = "start")
FreshWant == \A w \in Wants : Early(w) => want[w].pc = None
\* Which goroutines put connections back, and which connections have a read loop.
CallInv ==
  /\ \A r \in Reqs : put[r].at # "none" => rt[r].at = "done"
  /\ \A c \in Conns : put[c].at # "none" => put[c].conn = c /\ readLoop[c] = "ending"
  /\ \A c \in Conns : readLoop[c] # "none" => ~conn[c].alt
  /\ \A r \in Reqs : rt[r].at \in {"removeIdle", "decConns"} => conn[rt[r].conn].alt
\* A connection is listed once, for its host, and is then in the LRU, once.
ListInv ==
  /\ IsInjective(idle.lru)
  /\ \A k \in Keys : /\ IsInjective(idle.conns[k])
                     /\ \A c \in Range(idle.conns[k]) : conn[c].key = k /\ c \in Range(idle.lru)

\* The places a connection may be in, as OneHolder counts them.
Places == {"request", "want", "put", "idle"}
Holder == Putters \cup Keys
Holds(c, p, h) ==
  \/ p = "request" /\ h \in Reqs /\ rt[h].conn = c
  \/ p = "want" /\ h \in Reqs /\ rt[h].at \in {"queueDial", "wait"} /\ want[WantOf(h)].pc = c
  \/ p = "put" /\ h \in Putters /\ Puts(h, c)
  \/ p = "idle" /\ h \in Keys /\ c \in Range(idle.conns[h])
\* A connection that lives, and that CloseIdleConnections has not taken.
Alive(c)   == readLoop[c] = "peek" /\ ~conn[c].closed /\ c \notin closing
InOnePlace(c) ==
  /\ \A p, q \in Places, g, h \in Holder : Holds(c, p, g) /\ Holds(c, q, h) => p = q /\ g = h
  /\ Alive(c) => \E p \in Places, h \in Holder : Holds(c, p, h)
\* One that is in the LRU is listed, or closed, and in no other place.
LruOnly(c) ==
  c \in Range(idle.lru) => /\ conn[c].closed \/ \E k \in Keys : c \in Range(idle.conns[k])
                           /\ \A p \in Places, h \in Holder : Holds(c, p, h) => p = "idle"
PlaceInv == \A c \in Conns : ~conn[c].alt => InOnePlace(c) /\ LruOnly(c)
\* The inductive invariant behind OneHolder.
HolderInv == CurrentInv /\ FreshWant /\ CallInv /\ ListInv /\ PlaceInv

-----------------------------------------------------------------------------
(* How a step keeps each part.                                               *)

\* No wantConn is queued or dialled for by this step.
Shrinks == \A w \in Wants : Awaited(w)' => Awaited(w)
\* No wantConn is made to wait again.
Settles == \A w \in Wants : Waiting(want', w) => Waiting(want, w)

\* Slots that do not change, with queues that shrink.
LEMMA SameShrinks ==
  ASSUME slots' = slots, \A k \in Keys : Range(idle'.wait[k]) \subseteq Range(idle.wait[k])
  PROVE  Shrinks
BY DEF Shrinks, Awaited

\* decConnsPerHost only begins a dial for a request it takes out of a queue.
LEMMA DecShrinks ==
  ASSUME TypeOK, NEW s \in SlotsType, NEW wn, NEW k \in Keys,
         s.wait = slots.wait, s.dialing \subseteq slots.dialing,
         slots' = DecConnsPerHost(wn, s, k),
         \A j \in Keys : Range(idle'.wait[j]) \subseteq Range(idle.wait[j])
  PROVE  Shrinks
<1> DEFINE q == s.wait[k]
           w == q[FirstWaiting(wn, q)]
           p == PopWaiting(wn, q)
<1>1. GivenBack(wn, s, k, slots') BY DecFacts
<1>2. s.wait \in [Keys -> Seq(Wants)] BY DEF SlotsType, KeyQueue
<1>3. Range(p) \subseteq Range(q) BY <1>2, PopWaitingFacts
<1>4. Range(<<>>) = {} BY RangeOfEmpty
<1>5. slots'.dialing = s.dialing \/ (w \in Range(q) /\ slots'.dialing = s.dialing \cup {w})
  BY <1>1 DEF GivenBack
<1>6. \/ slots'.wait = s.wait
      \/ slots'.wait = [s.wait EXCEPT ![k] = p]
      \/ slots'.wait = [s.wait EXCEPT ![k] = <<>>]
  BY <1>1 DEF GivenBack
<1> HIDE DEF q, w, p
<1>7. \A j \in Keys : Range(slots'.wait[j]) \subseteq Range(s.wait[j])
  BY <1>2, <1>3, <1>4, <1>6 DEF q
<1> QED BY <1>5, <1>7 DEF Shrinks, Awaited, q

\* Nor does closing a connection.
LEMMA CloseShrinks ==
  ASSUME TypeOK, DialedInv, NEW wn, NEW c \in Dialed, Close(wn, c),
         \A k \in Keys : Range(idle'.wait[k]) \subseteq Range(idle.wait[k])
  PROVE  Shrinks
BY SameShrinks, DecShrinks DEF DialedInv, KeyInv, Dialed, TypeOK, Close

\* A step of a request that getConn does not wait for, or of none, keeps CurrentInv ...
LEMMA CurrentKept ==
  ASSUME CurrentInv, Shrinks, Settles,
         \A r \in Reqs : \/ rt'[r] = rt[r]
                         \/ rt[r].at \notin {"queueDial", "wait"}
                         \/ \A n \in 1..MaxTries : n = rt[r].try => ~Waiting(want', <<r, n>>)
  PROVE  CurrentInv'
BY DEF CurrentInv, Waiting, Shrinks, Settles, Wants

\* ... and FreshWant, if wantConns are only given connections that were waited for.
LEMMA FreshKept ==
  ASSUME TypeOK, FreshWant,
         \A w \in Wants : want'[w].pc \in {want[w].pc, None} \/ ~Early(w),
         \A r \in Reqs : \/ rt'[r] = rt[r]
                         \/ rt'[r].try = rt[r].try /\ rt'[r].at # "start"
                         \/ rt'[r].try = rt[r].try + 1
  PROVE  FreshWant'
BY DEF FreshWant, Wants, TypeOK, Early

\* Lists that do not change, or lose entries, keep ListInv.
LEMMA ListKept ==
  ASSUME ListInv, \A c \in Conns : conn'[c].key = conn[c].key \/ \A k \in Keys : c \notin Range(idle.conns[k]),
         idle'.conns = idle.conns, idle'.lru = idle.lru,
         \A k \in Keys : Range(idle.conns[k]) \subseteq Conns
  PROVE  ListInv'
BY DEF ListInv

\* What a step does to a connection: it stays where it is, leaves because it no longer lives,
\* or is in one new place.
Stays(c)  == /\ \A p \in Places, h \in Holder : Holds(c, p, h)' <=> Holds(c, p, h)
             /\ Alive(c)' => Alive(c)
Leaves(c) == /\ \A p \in Places, h \in Holder : Holds(c, p, h)' => Holds(c, p, h)
             /\ ~Alive(c)'
Appears(c, q, g) == /\ Holds(c, q, g)'
                    /\ \A p \in Places, h \in Holder : Holds(c, p, h)' => p = q /\ h = g
Moved(c) == \/ Stays(c) \/ Leaves(c)
            \/ \E q \in Places, g \in Holder : Appears(c, q, g)

\* In each case it is in one place.
LEMMA OnePlaceKept ==
  ASSUME NEW c, InOnePlace(c), Moved(c) PROVE InOnePlace(c)'
BY DEF Stays, InOnePlace, Leaves, Appears, Moved

\* A step that keeps the lists and takes no connection out of the pool keeps LruOnly.
LEMMA LruKept ==
  ASSUME NEW c, LruOnly(c), idle'.lru = idle.lru, idle'.conns = idle.conns, conn[c].closed => conn'[c].closed,
         \A p \in Places, h \in Holder :
           Holds(c, p, h)' => \/ Holds(c, p, h)
                              \/ \E q \in Places, g \in Holder : q # "idle" /\ Holds(c, q, g)
  PROVE  LruOnly(c)'
BY DEF LruOnly

-----------------------------------------------------------------------------
(* Every action keeps the invariant.                                         *)

\* A step moves a connection, and takes none out of the pool.
Tracked(c) == /\ Moved(c)
              /\ \A p \in Places, h \in Holder :
                   Holds(c, p, h)' => \/ Holds(c, p, h)
                                      \/ \E q \in Places, g \in Holder : q # "idle" /\ Holds(c, q, g)

\* A connection that stays, one that is no longer used, and one that is passed on.
LEMMA Rests ==
  ASSUME NEW c, Alive(c)' => Alive(c), \A p \in Places, h \in Holder : Holds(c, p, h)' <=> Holds(c, p, h)
  PROVE  Tracked(c)
BY DEF Tracked, Moved, Stays

LEMMA Drops ==
  ASSUME NEW c, ~Alive(c)', \A p \in Places, h \in Holder : Holds(c, p, h)' => Holds(c, p, h)
  PROVE  Tracked(c)
BY DEF Tracked, Moved, Leaves

LEMMA Passes ==
  ASSUME NEW c, InOnePlace(c), NEW p \in Places, NEW q \in Places, NEW g \in Holder, NEW h \in Holder,
         p # "idle", Holds(c, p, g), Holds(c, q, h)',
         \A o \in Places, i \in Holder :
           Holds(c, o, i)' /\ ~(o = q /\ i = h) => Holds(c, o, i) /\ ~(o = p /\ i = g)
  PROVE  Tracked(c)
BY DEF InOnePlace, Appears, Tracked, Moved

\* A step that leaves the lists alone and tracks each connection keeps the invariant.
LEMMA Kept ==
  ASSUME TypeOK, DialedInv, HolderInv, CurrentInv', FreshWant', CallInv',
         idle'.conns = idle.conns, idle'.lru = idle.lru,
         \A c \in Conns : /\ conn'[c].key = conn[c].key /\ conn'[c].alt = conn[c].alt
                          /\ conn[c].closed => conn'[c].closed,
         \A c \in Conns : ~conn[c].alt => Tracked(c)
  PROVE  HolderInv'
BY ListKept, OnePlaceKept, LruKept DEF HolderInv, DialedInv, PoolInv, Dialed, PlaceInv, Tracked

\* A step of request r that is not in getConn and that changes no wantConn keeps the first parts.
LEMMA RequestKeeps ==
  ASSUME TypeOK, HolderInv, NEW r \in Reqs, Shrinks, want' = want,
         rt[r].at \notin {"queueDial", "wait"} \/ ~Waiting(want, WantOf(r)),
         \A q \in Reqs \ {r} : rt'[q] = rt[q],
         (rt'[r].try = rt[r].try /\ rt'[r].at # "start") \/ rt'[r].try = rt[r].try + 1
  PROVE  CurrentInv' /\ FreshWant'
BY CurrentKept, FreshKept DEF Settles, WantOf, HolderInv

\* So does a step of no request.
LEMMA OthersKeep ==
  ASSUME TypeOK, HolderInv, Shrinks, Settles, rt' = rt,
         \A w \in Wants : want'[w].pc \in {want[w].pc, None} \/ (Awaited(w) /\ Waiting(want, w))
  PROVE  CurrentInv' /\ FreshWant'
BY CurrentKept, FreshKept DEF HolderInv, CurrentInv, Wants, Early

\* Ready keeps it: the connection passes from the wantConn to the request.
LEMMA ReadyHolds ==
  ASSUME TypeOK, DialedInv, HolderInv, NEW r \in Reqs, Ready(r) PROVE HolderInv'
<1>1. /\ rt[r].at = "wait" /\ ~Waiting(want, WantOf(r))
      /\ UNCHANGED <<config, idle, slots, want, conn, readLoop, put, closing, closes>>
      /\ \/ want[WantOf(r)].pc # None /\ Moves(r, "got", rt[r].try, want[WantOf(r)].pc)
         \/ want[WantOf(r)].pc = None /\ Moves(r, "done", rt[r].try, None)
  BY ReadyEffect
<1>2. /\ \A q \in Reqs \ {r} : rt'[q] = rt[q]
      /\ rt'[r].try = rt[r].try /\ rt'[r].at \in {"got", "done"} /\ rt'[r].conn = want[WantOf(r)].pc
  BY <1>1 DEF Moves
<1>3. CurrentInv' /\ FreshWant' BY <1>1, <1>2, SameShrinks, RequestKeeps
<1>4. CallInv' BY <1>1, <1>2 DEF HolderInv, CallInv
<1>5. ASSUME NEW c \in Conns, ~conn[c].alt PROVE Tracked(c)
  <2>1. rt[r].conn = None BY <1>1 DEF DialedInv, PointInv
  <2>2. r \in Holder /\ "want" \in Places /\ "request" \in Places /\ c # None
    BY ConstantsAssumption DEF Holder, Putters, Places
  <2>3. CASE want[WantOf(r)].pc = c
    <3>1. Holds(c, "want", r) /\ Holds(c, "request", r)' BY <1>1, <1>2, <2>3 DEF Holds
    <3>2. \A p \in Places, h \in Holder :
            Holds(c, p, h)' /\ ~(p = "request" /\ h = r) => Holds(c, p, h) /\ ~(p = "want" /\ h = r)
      BY <1>1, <1>2 DEF Holds, Puts, WantOf
    <3> QED BY <2>2, <3>1, <3>2, <1>5, Passes DEF HolderInv, PlaceInv
  <2>4. CASE want[WantOf(r)].pc # c
    BY <1>1, <1>2, <2>1, <2>2, <2>4, Rests DEF Holds, Puts, WantOf, Alive
  <2> QED BY <2>3, <2>4
<1> QED BY <1>1, <1>3, <1>4, <1>5, Kept

\* Closing a connection, and nothing else, keeps it.
LEMMA CloseHolds ==
  ASSUME TypeOK, DialedInv, HolderInv, NEW d \in Dialed, NEW wn, Close(wn, d),
         UNCHANGED <<idle, want, rt, readLoop, put>>, closing' = closing \/ closing' = closing \ {d}
  PROVE  HolderInv'
<1>1. /\ \A c \in Conns : /\ conn'[c].alt = conn[c].alt /\ conn'[c].key = conn[c].key
                          /\ conn'[c].closed = (conn[c].closed \/ c = d)
      /\ d \in Conns
  BY CloseFacts DEF DialedInv, Dialed
<1>2. CurrentInv' /\ FreshWant'
  <2>1. Shrinks /\ Settles BY CloseShrinks DEF Settles
  <2> QED BY <2>1, OthersKeep
<1>3. CallInv'
  BY <1>1 DEF DialedInv, PointInv, UserInv, Dialed, HolderInv, CallInv
<1>4. ASSUME NEW c \in Conns, ~conn[c].alt PROVE Tracked(c)
  <2>1. \A q \in Places, h \in Holder : Holds(c, q, h)' <=> Holds(c, q, h)
    BY DEF Holds, Puts, WantOf
  <2> QED BY <1>1, <2>1, Rests DEF Alive
<1> QED BY <1>1, <1>2, <1>3, <1>4, Kept

\* EnterRoundTrip keeps it: a cancelled request puts its connection back.
LEMMA EnterRoundTripHolds ==
  ASSUME TypeOK, DialedInv, HolderInv, NEW r \in Reqs, EnterRoundTrip(r) PROVE HolderInv'
<1>1. /\ rt[r].at = "got" /\ rt[r].conn \in Dialed
      /\ UNCHANGED <<config, idle, slots, want, conn, readLoop, closing, closes>>
      /\ \/ Moves(r, "using", rt[r].try, rt[r].conn) /\ put' = put
         \/ ~conn[rt[r].conn].alt /\ Moves(r, "done", rt[r].try, None) /\ PutBecomes(r, "check", rt[r].conn)
  BY EnterRoundTripEffect
<1>2. /\ \A q \in Reqs \ {r} : rt'[q] = rt[q]
      /\ rt'[r].try = rt[r].try /\ rt'[r].at \in {"using", "done"}
  BY <1>1 DEF Moves
<1>3. CurrentInv' /\ FreshWant' BY <1>1, <1>2, SameShrinks, RequestKeeps
<1>4. put[r].at = "none" BY <1>1, ConstantsAssumption DEF HolderInv, CallInv, TypeOK, Putters, PutPoints
<1>5. CallInv'
  <2>1. r \notin Conns BY ConstantsAssumption
  <2> QED BY <1>1, <1>2, <2>1 DEF HolderInv, CallInv, PutBecomes, Moves, Putters
<1>6. ASSUME NEW c \in Conns, ~conn[c].alt PROVE Tracked(c)
  <2>1. r \in Holder /\ "put" \in Places /\ "request" \in Places /\ c # None
    BY ConstantsAssumption DEF Holder, Putters, Places
  <2>2. CASE Moves(r, "using", rt[r].try, rt[r].conn) /\ put' = put
    BY <1>1, <1>2, <2>2, Rests DEF Holds, Puts, WantOf, Moves, Alive
  <2>3. CASE /\ Moves(r, "done", rt[r].try, None) /\ PutBecomes(r, "check", rt[r].conn) /\ rt[r].conn = c
    <3>1. Holds(c, "request", r) /\ Holds(c, "put", r)'
      BY <2>3 DEF Holds, PutBecomes, Puts, Putters
    <3>2. \A p \in Places, h \in Holder :
            Holds(c, p, h)' /\ ~(p = "put" /\ h = r) => Holds(c, p, h) /\ ~(p = "request" /\ h = r)
      BY <1>1, <1>2, <2>1, <2>3 DEF Holds, Puts, WantOf, PutBecomes, Moves
    <3> QED BY <2>1, <3>1, <3>2, <1>6, Passes DEF HolderInv, PlaceInv
  <2>4. CASE /\ Moves(r, "done", rt[r].try, None) /\ PutBecomes(r, "check", rt[r].conn) /\ rt[r].conn # c
    BY <1>1, <1>2, <1>4, <2>1, <2>4, Rests DEF Holds, Puts, WantOf, PutBecomes, Moves, Alive
  <2> QED BY <1>1, <2>2, <2>3, <2>4
<1> QED BY <1>1, <1>3, <1>5, <1>6, Kept

\* RequestFails keeps it: the connection no longer lives.
LEMMA RequestFailsHolds ==
  ASSUME TypeOK, DialedInv, HolderInv, NEW r \in Reqs, RequestFails(r) PROVE HolderInv'
<1>1. /\ rt[r].at = "using" /\ ~conn[rt[r].conn].alt
      /\ conn[rt[r].conn].closed \/ readLoop[rt[r].conn] # "peek"
      /\ UNCHANGED <<config, idle, slots, want, conn, readLoop, put, closing, closes>>
      /\ Moves(r, "done", rt[r].try, None) \/ Moves(r, "start", rt[r].try + 1, None)
  BY RequestFailsEffect
<1>2. /\ \A q \in Reqs \ {r} : rt'[q] = rt[q]
      /\ rt'[r].conn = None /\ rt'[r].at \in {"done", "start"}
      /\ (rt'[r].try = rt[r].try /\ rt'[r].at # "start") \/ rt'[r].try = rt[r].try + 1
  BY <1>1 DEF Moves
<1>3. CurrentInv' /\ FreshWant' BY <1>1, <1>2, SameShrinks, RequestKeeps
<1>4. CallInv' BY <1>1, <1>2 DEF HolderInv, CallInv
<1>5. ASSUME NEW c \in Conns, ~conn[c].alt PROVE Tracked(c)
  BY ConstantsAssumption, <1>1, <1>2, Drops, Rests DEF Holds, Puts, WantOf, Alive
<1> QED BY <1>1, <1>3, <1>4, <1>5, Kept

\* HTTP2Returns keeps it: an HTTP/2 connection is shared.
LEMMA HTTP2ReturnsHolds ==
  ASSUME TypeOK, DialedInv, HolderInv, NEW r \in Reqs, HTTP2Returns(r) PROVE HolderInv'
<1>1. /\ rt[r].at = "using" /\ conn[rt[r].conn].alt
      /\ UNCHANGED <<config, idle, slots, want, conn, readLoop, put, closing, closes>>
      /\ \/ Moves(r, "done", rt[r].try, None)
         \/ Moves(r, "removeIdle", rt[r].try, rt[r].conn)
  BY HTTP2ReturnsEffect
<1>2. /\ \A q \in Reqs \ {r} : rt'[q] = rt[q]
      /\ rt'[r].try = rt[r].try /\ rt'[r].at \in {"done", "removeIdle"} /\ rt'[r].conn \in {None, rt[r].conn}
      /\ rt'[r].at = "removeIdle" => rt'[r].conn = rt[r].conn
  BY <1>1 DEF Moves
<1>3. CurrentInv' /\ FreshWant' BY <1>1, <1>2, SameShrinks, RequestKeeps
<1>4. CallInv' BY <1>1, <1>2 DEF HolderInv, CallInv
<1>5. ASSUME NEW c \in Conns, ~conn[c].alt PROVE Tracked(c)
  BY <1>1, <1>5, ConstantsAssumption, <1>2, Rests DEF Holds, Puts, WantOf, Alive
<1> QED BY <1>1, <1>3, <1>4, <1>5, Kept

\* DecNoCached keeps it.
LEMMA DecNoCachedHolds ==
  ASSUME TypeOK, DialedInv, HolderInv, NEW r \in Reqs, DecNoCached(r) PROVE HolderInv'
<1>1. /\ rt[r].at = "decConns" /\ conn[rt[r].conn].key \in Keys
      /\ UNCHANGED <<config, idle, want, conn, readLoop, put, closing, closes>>
      /\ slots' = DecConnsPerHost(want, slots, conn[rt[r].conn].key)
      /\ Moves(r, "done", rt[r].try, None) \/ Moves(r, "start", rt[r].try + 1, None)
  BY DecNoCachedEffect
<1>2. /\ \A q \in Reqs \ {r} : rt'[q] = rt[q]
      /\ rt'[r].conn = None /\ rt'[r].at \in {"done", "start"}
      /\ (rt'[r].try = rt[r].try /\ rt'[r].at # "start") \/ rt'[r].try = rt[r].try + 1
  BY <1>1 DEF Moves
<1>3. CurrentInv' /\ FreshWant'
  BY <1>1, DecShrinks, <1>2, RequestKeeps DEF TypeOK
<1>4. CallInv' BY <1>1, <1>2 DEF HolderInv, CallInv
<1>5. ASSUME NEW c \in Conns, ~conn[c].alt PROVE Tracked(c)
  BY <1>1, <1>5, ConstantsAssumption, <1>2, Rests DEF HolderInv, CallInv, Holds, Puts, WantOf, Alive
<1> QED BY <1>1, <1>3, <1>4, <1>5, Kept

\* GiveUp keeps it.
LEMMA GiveUpHolds ==
  ASSUME TypeOK, DialedInv, HolderInv, NEW r \in Reqs, GiveUp(r) PROVE HolderInv'
<1>1. /\ rt[r].at = "start" /\ UNCHANGED <<config, idle, slots, want, conn, readLoop, put, closing, closes>>
      /\ Moves(r, "done", rt[r].try, None)
  BY GiveUpEffect
<1>2. /\ \A q \in Reqs \ {r} : rt'[q] = rt[q]
      /\ rt'[r].conn = None /\ rt'[r].at = "done" /\ rt'[r].try = rt[r].try
  BY <1>1 DEF Moves
<1>3. CurrentInv' /\ FreshWant' BY <1>1, <1>2, SameShrinks, RequestKeeps
<1>4. CallInv' BY <1>1, <1>2 DEF HolderInv, CallInv
<1>5. ASSUME NEW c \in Conns, ~conn[c].alt PROVE Tracked(c)
  BY <1>1, <1>2, Rests DEF DialedInv, PointInv, Holds, Puts, WantOf, Alive
<1> QED BY <1>1, <1>3, <1>4, <1>5, Kept

\* QueueForDial keeps it.
LEMMA QueueForDialHolds ==
  ASSUME TypeOK, DialedInv, HolderInv, NEW r \in Reqs, QueueForDial(r) PROVE HolderInv'
<1> DEFINE k == rt[r].key
           w == WantOf(r)
<1>1. /\ rt[r].at = "queueDial" /\ UNCHANGED <<config, idle, want, conn, readLoop, put, closing, closes>>
      /\ Moves(r, "wait", rt[r].try, rt[r].conn) /\ w \in Wants
      /\ \/ SlotsAre(slots', slots.count, slots.wait, slots.dialing \cup {w}, slots.panic)
         \/ SlotsAre(slots', [slots.count EXCEPT ![k] = slots.count[k] + 1], slots.wait,
                     slots.dialing \cup {w}, slots.panic)
         \/ SlotsAre(slots', slots.count, [slots.wait EXCEPT ![k] = Enqueue(slots.wait[k], w)],
                     slots.dialing, slots.panic)
  BY QueueForDialEffect
<1>2. /\ \A q \in Reqs \ {r} : rt'[q] = rt[q]
      /\ rt'[r].conn = rt[r].conn /\ rt'[r].at = "wait" /\ rt'[r].try = rt[r].try
  BY <1>1 DEF Moves
<1>3. \A v \in Wants : Awaited(v)' => Awaited(v) \/ v = w
  <2>1. k \in Keys /\ slots.wait \in [Keys -> Seq(Wants)] BY DEF TypeOK, SlotsType, KeyQueue
  <2>2. Range(Enqueue(slots.wait[k], w)) \subseteq Range(slots.wait[k]) \cup {w} BY <1>1, <2>1, EnqueueFacts
  <2>3. slots'.dialing \subseteq slots.dialing \cup {w} BY <1>1 DEF SlotsAre
  <2>4. \A j \in Keys : Range(slots'.wait[j]) \subseteq Range(slots.wait[j]) \cup {w}
    BY <1>1, <2>1, <2>2 DEF SlotsAre
  <2> QED BY <1>1, <2>3, <2>4 DEF Awaited
<1>4. CurrentInv'
  BY <1>2, <1>1, <1>3 DEF CurrentInv, Waiting, WantOf, HolderInv, Wants
<1>5. FreshWant' BY <1>1, <1>2, FreshKept DEF HolderInv
<1>6. CallInv' BY <1>1, <1>2 DEF HolderInv, CallInv
<1>7. ASSUME NEW c \in Conns, ~conn[c].alt PROVE Tracked(c)
  BY <1>1, <1>2, Rests DEF Holds, Puts, WantOf, Alive
<1> QED BY <1>1, <1>4, <1>5, <1>6, <1>7, Kept

\* Answered keeps it: the read loop takes the connection.
LEMMA AnsweredHolds ==
  ASSUME TypeOK, DialedInv, HolderInv, NEW r \in Reqs, Answered(r) PROVE HolderInv'
<1> DEFINE d == rt[r].conn
<1>1. /\ rt[r].at = "using" /\ readLoop[d] = "peek" /\ d \in Dialed
      /\ UNCHANGED <<config, idle, slots, want, conn, closing, closes>>
      /\ Moves(r, "done", rt[r].try, None)
      /\ readLoop' = [readLoop EXCEPT ![d] = "ending"]
      /\ PutBecomes(d, "check", d) \/ PutBecomes(d, "close", d)
  BY AnsweredEffect
<1>2. /\ \A q \in Reqs \ {r} : rt'[q] = rt[q]
      /\ rt'[r].conn = None /\ rt'[r].at = "done" /\ rt'[r].try = rt[r].try
  BY <1>1 DEF Moves
<1>3. CurrentInv' /\ FreshWant' BY <1>1, <1>2, SameShrinks, RequestKeeps
<1>4. /\ d \in Conns /\ d \in Putters /\ d \notin Reqs /\ d \in Holder
      /\ \A c \in Conns : readLoop'[c] = IF c = d THEN "ending" ELSE readLoop[c]
      /\ \A p \in Putters : p # d => put'[p] = put[p]
      /\ put'[d].conn = d /\ put'[d].at \in {"check", "close"}
  BY <1>1, ConstantsAssumption DEF Dialed, Putters, PutBecomes, TypeOK, Holder
<1>5. CallInv' BY <1>1, <1>2, <1>4 DEF HolderInv, CallInv, Putters
<1>6. put[d].at = "none" BY <1>1, <1>4 DEF HolderInv, CallInv
<1>7. ASSUME NEW c \in Conns, ~conn[c].alt PROVE Tracked(c)
  <2>1. r \in Holder /\ "put" \in Places /\ "request" \in Places /\ c # None
    BY ConstantsAssumption DEF Holder, Putters, Places
  <2>2. CASE c = d /\ put'[d].at = "check"
    <3>1. c \in Holder /\ Holds(c, "request", r) /\ Holds(c, "put", c)' BY <1>4, <2>2 DEF Holds, Puts
    <3>2. \A p \in Places, h \in Holder :
            Holds(c, p, h)' /\ ~(p = "put" /\ h = c) => Holds(c, p, h) /\ ~(p = "request" /\ h = r)
      BY <1>1, <1>2, <1>4, <2>1, <2>2 DEF Holds, Puts, WantOf
    <3> QED BY <1>4, <2>1, <3>1, <3>2, <1>7, Passes DEF HolderInv, PlaceInv
  <2>3. CASE c = d /\ put'[d].at = "close"
    BY <1>1, <1>2, <1>4, <2>1, <2>3, Drops DEF Holds, Puts, WantOf, Alive
  <2>4. CASE c # d
    BY <1>1, <1>2, <1>4, <1>6, <2>1, <2>4, Rests DEF Holds, Puts, WantOf, Alive
  <2> QED BY <1>4, <2>2, <2>3, <2>4
<1> QED BY <1>1, <1>3, <1>5, <1>7, Kept

\* Cancelled keeps it: the request puts back what its wantConn was given.
LEMMA CancelledHolds ==
  ASSUME TypeOK, DialedInv, HolderInv, NEW r \in Reqs, Cancelled(r) PROVE HolderInv'
<1> DEFINE w == WantOf(r)
<1>1. /\ rt[r].at = "wait" /\ w \in Wants
      /\ UNCHANGED <<config, idle, slots, conn, readLoop, closing, closes>>
      /\ Moves(r, "done", rt[r].try, None)
      /\ want' \in WantType /\ want'[w].pc = None /\ want'[w].err
      /\ \A v \in Wants : v # w => want'[v] = want[v]
      /\ \/ want[w].pc = None /\ put' = put
         \/ want[w].pc \in Dialed /\ PutBecomes(r, "check", want[w].pc)
  BY CancelledEffect
<1>2. /\ \A q \in Reqs \ {r} : rt'[q] = rt[q]
      /\ rt'[r].conn = None /\ rt'[r].at = "done" /\ rt'[r].try = rt[r].try /\ rt[r].conn = None
  BY <1>1 DEF Moves, DialedInv, PointInv
<1>3. CurrentInv'
  BY <1>1, SameShrinks, <1>2, CurrentKept DEF Settles, Waiting, WantOf, HolderInv
<1>4. FreshWant' BY <1>1, <1>2, FreshKept DEF HolderInv
<1>5. put[r].at = "none" BY <1>1, ConstantsAssumption DEF HolderInv, CallInv, TypeOK, Putters, PutPoints
<1>6. CallInv'
  <2>1. r \notin Conns BY ConstantsAssumption
  <2> QED BY <1>1, <1>2, <2>1 DEF HolderInv, CallInv, PutBecomes, Putters
<1>7. \A q \in Reqs \ {r} : want'[WantOf(q)] = want[WantOf(q)]
  BY <1>1 DEF WantOf, Wants, TypeOK
<1>8. ASSUME NEW c \in Conns, ~conn[c].alt PROVE Tracked(c)
  <2>1. r \in Holder /\ "put" \in Places /\ "want" \in Places /\ c # None
    BY ConstantsAssumption DEF Holder, Putters, Places
  <2>2. CASE c = want[w].pc
    <3>0. PutBecomes(r, "check", c) BY <1>1, <2>1, <2>2
    <3>1. Holds(c, "want", r) /\ Holds(c, "put", r)' BY <1>1, <2>2, <3>0 DEF Holds, Puts, PutBecomes, Putters
    <3>2. \A p \in Places, h \in Holder :
            Holds(c, p, h)' /\ ~(p = "put" /\ h = r) => Holds(c, p, h) /\ ~(p = "want" /\ h = r)
      BY <1>1, <1>2, <1>7, <2>1, <3>0 DEF Holds, Puts, WantOf, PutBecomes
    <3> QED BY <2>1, <3>1, <3>2, <1>8, Passes DEF HolderInv, PlaceInv
  <2>3. CASE c # want[w].pc
    BY <1>1, <1>2, <1>5, <1>7, <2>1, <2>3, Rests DEF Holds, Puts, WantOf, PutBecomes, Alive
  <2> QED BY <2>2, <2>3
<1> QED BY <1>1, <1>3, <1>4, <1>6, <1>8, Kept

\* ClosedInUse keeps it.
LEMMA ClosedInUseHolds ==
  ASSUME TypeOK, DialedInv, HolderInv, NEW r \in Reqs, ClosedInUse(r) PROVE HolderInv'
BY ClosedInUseEffect, CloseHolds

\* PutCheck keeps it.
LEMMA PutCheckHolds ==
  ASSUME TypeOK, DialedInv, HolderInv, NEW p \in Putters, PutCheck(p) PROVE HolderInv'
<1> DEFINE d == put[p].conn
<1>1. /\ put[p].at = "check" /\ d \in Dialed
      /\ UNCHANGED <<config, idle, slots, want, rt, readLoop, closing, closes>>
      /\ \A c \in Conns : /\ conn'[c].dialed = conn[c].dialed /\ conn'[c].alt = conn[c].alt
                          /\ conn'[c].key = conn[c].key /\ conn'[c].closed = conn[c].closed
      /\ PutBecomes(p, "close", d) \/ PutBecomes(p, "insert", d)
  BY PutCheckEffect
<1>2. /\ \A q \in Putters : q # p => put'[q] = put[q]
      /\ put'[p].conn = d /\ put'[p].at \in {"close", "insert"}
  BY <1>1 DEF PutBecomes
<1>3. CurrentInv' /\ FreshWant'
  <2>1. Shrinks /\ Settles BY <1>1, SameShrinks DEF Settles
  <2> QED BY <1>1, <2>1, OthersKeep
<1>4. CallInv'
  BY <1>1, <1>2 DEF DialedInv, PointInv, UserInv, Dialed, HolderInv, CallInv, Putters
<1>5. ASSUME NEW c \in Conns, ~conn[c].alt PROVE Tracked(c)
  BY <1>1, <1>2, Drops, Rests DEF Holds, Puts, WantOf, HolderInv, CallInv, Alive
<1> QED BY <1>1, <1>3, <1>4, <1>5, Kept

\* PutClose keeps it.
LEMMA PutCloseHolds ==
  ASSUME TypeOK, DialedInv, HolderInv, NEW p \in Putters, PutClose(p) PROVE HolderInv'
<1> DEFINE d == put[p].conn
<1>1. /\ put[p].at = "close" /\ d \in Dialed /\ Close(want, d)
      /\ UNCHANGED <<config, idle, want, rt, closing, closes>>
      /\ PutBecomes(p, "none", None)
      /\ readLoop' = IF p = d THEN [readLoop EXCEPT ![d] = "remove"] ELSE readLoop
  BY PutCloseEffect
<1>2. /\ \A q \in Putters : q # p => put'[q] = put[q]
      /\ put'[p].conn = None /\ put'[p].at = "none"
  BY <1>1 DEF PutBecomes
<1>3. /\ \A c \in Conns : /\ conn'[c].alt = conn[c].alt /\ conn'[c].key = conn[c].key
                          /\ conn'[c].closed = (conn[c].closed \/ c = d)
      /\ d \in Conns
  BY <1>1, CloseFacts DEF DialedInv, Dialed
<1>4. CurrentInv' /\ FreshWant'
  BY <1>1, CloseShrinks, OthersKeep DEF Settles
<1>5. readLoop \in [Conns -> LoopPoints] BY DEF TypeOK
<1>6. \A c \in Conns : readLoop'[c] = IF p = d /\ c = d THEN "remove" ELSE readLoop[c] BY <1>1, <1>5
<1>7. CallInv'
  BY <1>1, <1>2, <1>6, <1>3 DEF DialedInv, PointInv, UserInv, Dialed, HolderInv, CallInv, Putters
<1>8. ASSUME NEW c \in Conns, ~conn[c].alt PROVE Tracked(c)
  <2>1. c # None BY ConstantsAssumption
  <2>2. \A q \in Places, h \in Holder : Holds(c, q, h)' => Holds(c, q, h)
    BY <1>1, <1>2, <2>1 DEF Holds, Puts, WantOf
  <2>3. CASE c = d BY <1>3, <2>2, <2>3, Drops DEF Alive
  <2>4. CASE c # d
    <3>1. \A q \in Places, h \in Holder : Holds(c, q, h) => Holds(c, q, h)'
      BY <1>1, <1>2, <2>1, <2>4 DEF Holds, Puts, WantOf
    <3>2. Alive(c)' => Alive(c) BY <1>1, <1>3, <1>6, <2>4 DEF Alive
    <3> QED BY <2>2, <3>1, <3>2, Rests
  <2> QED BY <2>3, <2>4
<1> QED BY <1>1, <1>3, <1>4, <1>7, <1>8, Kept

\* DialFails keeps it.
LEMMA DialFailsHolds ==
  ASSUME TypeOK, DialedInv, HolderInv, NEW w \in Wants, DialFails(w) PROVE HolderInv'
<1>1. /\ w \in slots.dialing /\ put[w].at = "none"
      /\ UNCHANGED <<config, idle, slots, rt, conn, readLoop, closing, closes>>
      /\ want' \in WantType /\ want'[w].pc = want[w].pc /\ ~Waiting(want', w)
      /\ \A v \in Wants : v # w => want'[v] = want[v]
      /\ PutBecomes(w, "dec", put[w].conn)
  BY DialFailsEffect
<1>2. w \in Putters /\ w \notin Reqs /\ w \notin Conns BY ConstantsAssumption DEF Putters
<1>3. /\ \A q \in Putters : q # w => put'[q] = put[q]
      /\ put'[w].conn = None /\ put'[w].at = "dec" /\ put[w].conn = None
  BY <1>1, <1>2 DEF PutBecomes, DialedInv, PointInv
<1>4. \A v \in Wants : want'[v].pc = want[v].pc BY <1>1
<1>5. CurrentInv' /\ FreshWant'
  BY <1>1, SameShrinks, <1>4, OthersKeep DEF Settles, Waiting
<1>6. CallInv' BY <1>1, <1>2, <1>3 DEF HolderInv, CallInv, Putters
<1>7. ASSUME NEW c \in Conns, ~conn[c].alt PROVE Tracked(c)
  BY ConstantsAssumption, <1>4, <1>1, <1>3, Rests DEF WantOf, Wants, TypeOK, Holds, Puts, Alive
<1> QED BY <1>1, <1>5, <1>6, <1>7, Kept

\* DialDec keeps it.
LEMMA DialDecHolds ==
  ASSUME TypeOK, DialedInv, HolderInv, NEW w \in Wants, DialDec(w) PROVE HolderInv'
<1> DEFINE s == [slots EXCEPT !.dialing = @ \ {w}]
<1>1. /\ put[w].at = "dec" /\ KeyOfWant(w) \in Keys
      /\ UNCHANGED <<config, idle, want, rt, conn, readLoop, closing, closes>>
      /\ SlotsAre(s, slots.count, slots.wait, slots.dialing \ {w}, slots.panic)
      /\ slots' = DecConnsPerHost(want, s, KeyOfWant(w))
      /\ PutBecomes(w, "none", None)
  BY DialDecEffect
<1>2. w \in Putters /\ w \notin Reqs /\ w \notin Conns BY ConstantsAssumption DEF Putters
<1>3. /\ \A q \in Putters : q # w => put'[q] = put[q]
      /\ put'[w].conn = None /\ put'[w].at = "none"
  BY <1>1, <1>2 DEF PutBecomes
<1>4. CurrentInv' /\ FreshWant'
  <2>1. s \in SlotsType /\ s.wait = slots.wait /\ s.dialing \subseteq slots.dialing BY <1>1 DEF SlotsAre
  <2> HIDE DEF s
  <2>2. Shrinks BY <1>1, <2>1, DecShrinks
  <2>3. Settles BY <1>1 DEF Settles
  <2> QED BY <1>1, <2>2, <2>3, OthersKeep
<1>5. CallInv' BY <1>1, <1>2, <1>3 DEF HolderInv, CallInv, Putters
<1>6. ASSUME NEW c \in Conns, ~conn[c].alt PROVE Tracked(c)
  BY ConstantsAssumption, <1>1, <1>3, Rests DEF Holds, Puts, WantOf, Alive
<1> QED BY <1>1, <1>4, <1>5, <1>6, Kept

\* ReadFails keeps it.
LEMMA ReadFailsHolds ==
  ASSUME TypeOK, DialedInv, HolderInv, NEW d \in Conns, ReadFails(d) PROVE HolderInv'
<1>1. /\ readLoop[d] = "peek"
      /\ readLoop' = [readLoop EXCEPT ![d] = "ending"]
      /\ PutBecomes(d, "close", d)
      /\ UNCHANGED <<config, idle, slots, want, rt, conn, closing, closes>>
  BY ReadFailsEffect
<1>2. d \in Putters /\ d \notin Reqs BY ConstantsAssumption DEF Putters
<1>3. /\ \A q \in Putters : q # d => put'[q] = put[q]
      /\ put'[d].conn = d /\ put'[d].at = "close"
      /\ \A c \in Conns : readLoop'[c] = IF c = d THEN "ending" ELSE readLoop[c]
  BY <1>1, <1>2 DEF PutBecomes, TypeOK
<1>4. CurrentInv' /\ FreshWant'
  <2>1. Shrinks /\ Settles BY <1>1, SameShrinks DEF Settles
  <2> QED BY <1>1, <2>1, OthersKeep
<1>5. CallInv' BY <1>1, <1>2, <1>3 DEF HolderInv, CallInv, Putters
<1>6. ASSUME NEW c \in Conns, ~conn[c].alt PROVE Tracked(c)
  BY <1>1, <1>3, Drops, Rests DEF HolderInv, CallInv, Holds, Puts, WantOf, Alive
<1> QED BY <1>1, <1>4, <1>5, <1>6, Kept

\* A step on the lists and the LRU keeps the invariant, if it keeps each part of it.
LEMMA ListsKept ==
  ASSUME TypeOK, DialedInv, HolderInv, CurrentInv', FreshWant', CallInv', ListInv',
         \A c \in Conns : conn'[c].alt = conn[c].alt,
         \A c \in Conns : ~conn[c].alt => Moved(c) /\ LruOnly(c)'
  PROVE  HolderInv'
<1>1. PlaceInv' BY OnePlaceKept DEF HolderInv, PlaceInv
<1> QED BY <1>1 DEF HolderInv

\* Removing a connection from the pool.
LEMMA RemovedFacts ==
  ASSUME TypeOK, DialedInv, HolderInv, NEW d \in Dialed, idle' = RemoveIdle(idle, d)
  PROVE  /\ idle'.wait = idle.wait
         /\ Range(idle'.lru) = Range(idle.lru) \ {d}
         /\ \A k \in Keys : Range(idle'.conns[k]) = Range(idle.conns[k]) \ {d}
         /\ IsInjective(idle'.lru) /\ \A k \in Keys : IsInjective(idle'.conns[k])
<1>1. idle \in IdleType /\ KeyInv BY DEF TypeOK, DialedInv
<1>2. IsInjective(idle.lru) /\ \A k \in Keys : IsInjective(idle.conns[k]) BY DEF HolderInv, ListInv
<1>3. /\ idle'.wait = idle.wait
      /\ Range(idle'.lru) \subseteq Range(idle.lru) /\ Range(idle.lru) \ {d} \subseteq Range(idle'.lru)
      /\ IsInjective(idle'.lru) /\ d \notin Range(idle'.lru)
      /\ \A k \in Keys :
           /\ Range(idle'.conns[k]) \subseteq Range(idle.conns[k])
           /\ Range(idle.conns[k]) \ {d} \subseteq Range(idle'.conns[k])
           /\ IsInjective(idle'.conns[k])
           /\ conn[d].key = k => d \notin Range(idle'.conns[k])
  BY <1>1, <1>2, RemoveIdleFacts
<1>4. \A k \in Keys : d \notin Range(idle'.conns[k])
  BY <1>3 DEF HolderInv, ListInv
<1> QED BY <1>3, <1>4

\* The lists keep their invariant when connections are taken out of them.
LEMMA ListsShrink ==
  ASSUME TypeOK, DialedInv, HolderInv, NEW d,
         \A c \in Conns : conn'[c].key = conn[c].key,
         Range(idle'.lru) = Range(idle.lru) \ {d},
         \A k \in Keys : Range(idle'.conns[k]) \subseteq Range(idle.conns[k]) \ {d},
         IsInjective(idle'.lru), \A k \in Keys : IsInjective(idle'.conns[k])
  PROVE  ListInv'
BY DEF DialedInv, PoolInv, Dialed, HolderInv, ListInv

\* RemoveNoCached keeps it: an HTTP/2 connection is removed.
LEMMA RemoveNoCachedHolds ==
  ASSUME TypeOK, DialedInv, HolderInv, NEW r \in Reqs, RemoveNoCached(r) PROVE HolderInv'
<1> DEFINE d == rt[r].conn
<1>1. /\ rt[r].at = "removeIdle" /\ d \in Dialed
      /\ UNCHANGED <<config, slots, want, conn, readLoop, put, closing, closes>>
      /\ idle' = RemoveIdle(idle, d)
      /\ Moves(r, "decConns", rt[r].try, d)
  BY RemoveNoCachedEffect
<1>2. /\ \A q \in Reqs \ {r} : rt'[q] = rt[q]
      /\ rt'[r].conn = d /\ rt'[r].at = "decConns" /\ rt'[r].try = rt[r].try
  BY <1>1 DEF Moves
<1>3. /\ idle'.wait = idle.wait
      /\ Range(idle'.lru) = Range(idle.lru) \ {d}
      /\ \A k \in Keys : Range(idle'.conns[k]) = Range(idle.conns[k]) \ {d}
      /\ IsInjective(idle'.lru) /\ \A k \in Keys : IsInjective(idle'.conns[k])
  BY <1>1, RemovedFacts
<1>4. CurrentInv' /\ FreshWant'
  <2>1. Shrinks BY <1>1, <1>3, SameShrinks
  <2> QED BY <1>1, <1>2, <2>1, RequestKeeps
<1>5. CallInv' BY <1>1, <1>2 DEF HolderInv, CallInv
<1>6. ListInv' BY <1>1, <1>3, ListsShrink
<1>7. ASSUME NEW c \in Conns, ~conn[c].alt PROVE Moved(c) /\ LruOnly(c)'
  <2>1. c # d BY <1>1, <1>7 DEF HolderInv, CallInv
  <2>2. \A p \in Places, h \in Holder : Holds(c, p, h)' <=> Holds(c, p, h)
    BY <1>1, <1>2, <1>3, <2>1 DEF Holds, Puts, WantOf
  <2>3. Moved(c) BY <1>1, <2>2 DEF Moved, Stays, Alive
  <2>4. LruOnly(c) BY <1>7 DEF HolderInv, PlaceInv
  <2>5. LruOnly(c)' BY <1>1, <1>3, <2>1, <2>2, <2>4 DEF LruOnly
  <2> QED BY <2>3, <2>5
<1> QED BY <1>1, <1>4, <1>5, <1>6, <1>7, ListsKept

\* ReadLoopRemoves keeps it.
LEMMA ReadLoopRemovesHolds ==
  ASSUME TypeOK, DialedInv, HolderInv, NEW d \in Conns, ReadLoopRemoves(d) PROVE HolderInv'
<1>1. /\ readLoop[d] = "remove" /\ d \in Dialed
      /\ idle' = RemoveIdle(idle, d)
      /\ readLoop' = [readLoop EXCEPT ![d] = "gone"]
      /\ UNCHANGED <<config, slots, want, rt, conn, put, closing, closes>>
  BY ReadLoopRemovesEffect
<1>2. \A c \in Conns : readLoop'[c] = IF c = d THEN "gone" ELSE readLoop[c] BY <1>1 DEF TypeOK
<1>3. /\ idle'.wait = idle.wait
      /\ Range(idle'.lru) = Range(idle.lru) \ {d}
      /\ \A k \in Keys : Range(idle'.conns[k]) = Range(idle.conns[k]) \ {d}
      /\ IsInjective(idle'.lru) /\ \A k \in Keys : IsInjective(idle'.conns[k])
  BY <1>1, RemovedFacts
<1>4. CurrentInv' /\ FreshWant'
  BY <1>1, <1>3, SameShrinks, OthersKeep DEF Settles
<1>5. CallInv' BY <1>1, <1>2 DEF HolderInv, CallInv
<1>6. ListInv' BY <1>1, <1>3, ListsShrink
<1>7. ASSUME NEW c \in Conns, ~conn[c].alt PROVE Moved(c) /\ LruOnly(c)'
  <2>1. \A p \in Places, h \in Holder : Holds(c, p, h)' => Holds(c, p, h)
    BY <1>1, <1>3 DEF Holds, Puts, WantOf
  <2>2. CASE c = d
    <3>1. Moved(c) BY <1>2, <2>1, <2>2 DEF Moved, Leaves, Alive
    <3> QED BY <1>3, <2>2, <3>1 DEF LruOnly
  <2>3. CASE c # d
    <3>1. \A p \in Places, h \in Holder : Holds(c, p, h) => Holds(c, p, h)'
      BY <1>1, <1>3, <2>3 DEF Holds, Puts, WantOf
    <3>2. Alive(c)' => Alive(c) BY <1>1, <1>2, <2>3 DEF Alive
    <3>3. Moved(c) BY <2>1, <3>1, <3>2 DEF Moved, Stays
    <3>4. LruOnly(c) BY <1>7 DEF HolderInv, PlaceInv
    <3>5. LruOnly(c)' BY <1>1, <1>3, <2>1, <2>3, <3>4 DEF LruOnly
    <3> QED BY <3>3, <3>5
  <2> QED BY <2>2, <2>3
<1> QED BY <1>1, <1>4, <1>5, <1>6, <1>7, ListsKept

\* CloseConnIfStillIdle keeps it.
LEMMA CloseConnIfStillIdleHolds ==
  ASSUME TypeOK, DialedInv, HolderInv, NEW d \in Conns, CloseConnIfStillIdle(d) PROVE HolderInv'
<1>1. /\ d \in Dialed /\ idle' = RemoveIdle(idle, d) /\ Close(want, d)
      /\ UNCHANGED <<config, want, rt, readLoop, put, closing, closes>>
  BY CloseConnIfStillIdleEffect
<1>2. \A c \in Conns : /\ conn'[c].alt = conn[c].alt /\ conn'[c].key = conn[c].key
                       /\ conn'[c].closed = (conn[c].closed \/ c = d)
  BY <1>1, CloseFacts DEF DialedInv
<1>3. /\ idle'.wait = idle.wait
      /\ Range(idle'.lru) = Range(idle.lru) \ {d}
      /\ \A k \in Keys : Range(idle'.conns[k]) = Range(idle.conns[k]) \ {d}
      /\ IsInjective(idle'.lru) /\ \A k \in Keys : IsInjective(idle'.conns[k])
  BY <1>1, RemovedFacts
<1>4. CurrentInv' /\ FreshWant'
  BY <1>1, <1>3, CloseShrinks, OthersKeep DEF Settles
<1>5. CallInv'
  BY <1>1, <1>2 DEF DialedInv, PointInv, UserInv, Dialed, HolderInv, CallInv
<1>6. ListInv' BY <1>2, <1>3, ListsShrink
<1>7. ASSUME NEW c \in Conns, ~conn[c].alt PROVE Moved(c) /\ LruOnly(c)'
  <2>1. \A p \in Places, h \in Holder : Holds(c, p, h)' => Holds(c, p, h)
    BY <1>1, <1>3 DEF Holds, Puts, WantOf
  <2>2. CASE c = d
    <3>1. Moved(c) BY <1>2, <2>1, <2>2 DEF Moved, Leaves, Alive
    <3> QED BY <1>3, <2>2, <3>1 DEF LruOnly
  <2>3. CASE c # d
    <3>1. \A p \in Places, h \in Holder : Holds(c, p, h) => Holds(c, p, h)'
      BY <1>1, <1>3, <2>3 DEF Holds, Puts, WantOf
    <3>2. Alive(c)' => Alive(c) BY <1>1, <1>2 DEF Alive
    <3>3. Moved(c) BY <2>1, <3>1, <3>2 DEF Moved, Stays
    <3>4. LruOnly(c) BY <1>7 DEF HolderInv, PlaceInv
    <3>5. LruOnly(c)' BY <1>2, <1>3, <2>1, <2>3, <3>4 DEF LruOnly
    <3> QED BY <3>3, <3>5
  <2> QED BY <2>2, <2>3
<1> QED BY <1>2, <1>4, <1>5, <1>6, <1>7, ListsKept

\* CloseTaken keeps it.
LEMMA CloseTakenHolds ==
  ASSUME TypeOK, DialedInv, HolderInv, NEW c \in Conns, CloseTaken(c) PROVE HolderInv'
BY CloseTakenEffect, CloseHolds

\* CloseIdleConnections keeps it: what was listed is about to be closed.
LEMMA CloseIdleConnectionsHolds ==
  ASSUME TypeOK, DialedInv, HolderInv, CloseIdleConnections PROVE HolderInv'
<1>1. /\ closing = {} /\ closing' = {c \in Conns : Listed(c)}
      /\ IdleAre(idle', [k \in Keys |-> <<>>], <<>>, idle.wait)
      /\ UNCHANGED <<config, slots, want, rt, conn, readLoop, put>>
  BY CloseIdleConnectionsEffect
<1>2. Range(<<>>) = {} /\ IsInjective(<<>>) BY RangeOfEmpty
<1>3. /\ \A k \in Keys : idle'.conns[k] = <<>>
      /\ idle'.lru = <<>> /\ idle'.wait = idle.wait
  BY <1>1 DEF IdleAre
<1>4. CurrentInv' /\ FreshWant'
  BY <1>1, <1>3, SameShrinks, OthersKeep DEF Settles
<1>5. CallInv' BY <1>1 DEF HolderInv, CallInv
<1>6. ListInv' BY <1>2, <1>3 DEF ListInv
<1>7. ASSUME NEW c \in Conns, ~conn[c].alt PROVE Moved(c) /\ LruOnly(c)'
  BY <1>1, <1>2, <1>3, ContainsIsInRange DEF Holds, Puts, WantOf, LruOnly, TypeOK, IdleType, KeyQueue, Listed,
     Leaves, Alive, Moved, Stays
<1> QED BY <1>1, <1>4, <1>5, <1>6, <1>7, ListsKept

\* DialSucceeds keeps it: the new connection goes to the request that waits for it, or is put back.
LEMMA DialSucceedsHolds ==
  ASSUME TypeOK, TypeOK', DialedInv, HolderInv, NEW w \in Wants, NEW d \in Conns, DialSucceeds(w, d)
  PROVE  HolderInv'
<1>1. /\ w \in slots.dialing /\ put[w].at = "none" /\ d \notin Dialed
      /\ UNCHANGED <<config, idle, rt, closing, closes>>
      /\ SlotsAre(slots', slots.count, slots.wait, slots.dialing \ {w}, slots.panic)
      /\ want' = Deliver(want, {w}, d)
      /\ \A c \in Conns : c # d => conn'[c] = conn[c]
      /\ readLoop' = [readLoop EXCEPT ![d] = IF conn'[d].alt THEN "none" ELSE "peek"]
      /\ IF conn'[d].alt \/ ~Waiting(want, w) THEN PutBecomes(w, "check", d) ELSE put' = put
  BY DialSucceedsEffect
<1>2. w \in Putters /\ w \notin Reqs /\ w \notin Conns /\ w \in Holder /\ d # None
  BY ConstantsAssumption DEF Putters, Holder
<1>3. /\ \A q \in Putters : q # w => put'[q] = put[q]
      /\ IF conn'[d].alt \/ ~Waiting(want, w)
         THEN put'[w].conn = d /\ put'[w].at = "check" ELSE put'[w] = put[w]
      /\ put[w].conn = None
  BY <1>1, <1>2 DEF PutBecomes, DialedInv, PointInv
<1>4. \A c \in Conns : readLoop'[c] = IF c # d THEN readLoop[c] ELSE IF conn'[d].alt THEN "none" ELSE "peek"
  BY <1>1 DEF TypeOK
<1>5. \A v \in Wants : IF v = w /\ Waiting(want, w)
                       THEN want'[v].pc = d /\ ~Waiting(want', v)
                       ELSE want'[v] = want[v] /\ (Waiting(want', v) <=> Waiting(want, v))
  BY <1>1, DeliverFacts DEF TypeOK
<1>6. Awaited(w) BY <1>1 DEF Awaited
<1>7. /\ Waiting(want, w) => w = WantOf(w[1]) /\ rt[w[1]].at \in {"queueDial", "wait"}
      /\ w[1] \in Reqs /\ w[1] \in Holder
  BY <1>6 DEF Wants, HolderInv, CurrentInv, WantOf, Holder, Putters
<1>8. CurrentInv' /\ FreshWant'
  BY <1>1, <1>5, <1>6, OthersKeep DEF Shrinks, Awaited, SlotsAre, Settles
<1>9. /\ readLoop[d] = "none" /\ ~conn[d].closed
      /\ \A k \in Keys : d \notin Range(idle.conns[k])
      /\ d \notin Range(idle.lru)
      /\ \A v \in Wants : want[v].pc # d
      /\ \A r \in Reqs : rt[r].conn # d
      /\ \A p \in Putters : put[p].conn # d
  BY <1>1, <1>2 DEF DialedInv, KeyInv, PoolInv, UserInv, Dialed
<1>10. CallInv'
  BY <1>1, <1>2, <1>3, <1>9, <1>4 DEF DialedInv, PointInv, UserInv, Dialed, HolderInv, CallInv, Putters
<1>11. ListInv'
  BY <1>1, <1>9, ListKept DEF DialedInv, PoolInv, Dialed, HolderInv
<1>12. \A q \in Reqs : WantOf(q) \in Wants BY DEF WantOf, Wants, TypeOK
<1>13. ASSUME NEW c \in Conns, ~conn'[c].alt PROVE InOnePlace(c)' /\ LruOnly(c)'
  <2>1. "put" \in Places /\ "want" \in Places BY DEF Places
  <2>2. CASE c # d
    <3>1. ~conn[c].alt BY <1>1, <1>13, <2>2
    <3>2. \A q \in Reqs : want'[WantOf(q)].pc = c <=> want[WantOf(q)].pc = c
      BY ConstantsAssumption, <1>5, <1>12, <2>2 DEF Waiting
    <3>3. \A p \in Places, h \in Holder : Holds(c, p, h)' <=> Holds(c, p, h)
      <4>1. c # None BY ConstantsAssumption
      <4>2. \A h \in Putters : Puts(h, c)' <=> Puts(h, c) BY <1>3, <2>2, <4>1 DEF Puts
      <4>3. \A h \in Reqs : want'[WantOf(h)'].pc = c <=> want[WantOf(h)].pc = c BY <1>1, <3>2 DEF WantOf
      <4> QED BY <1>1, <4>2, <4>3 DEF Holds
    <3>4. Alive(c)' => Alive(c) BY <1>1, <1>4, <2>2 DEF Alive
    <3>5. Tracked(c) BY <3>3, <3>4, Rests
    <3>6. InOnePlace(c) /\ LruOnly(c) BY <3>1 DEF HolderInv, PlaceInv
    <3>7. InOnePlace(c)' BY <3>5, <3>6, OnePlaceKept DEF Tracked
    <3>8. LruOnly(c)' BY <1>1, <2>2, <3>5, <3>6, LruKept DEF Tracked
    <3> QED BY <3>7, <3>8
  <2>3. CASE c = d /\ ~Waiting(want, w)
    <3>1. PutBecomes(w, "check", d) BY <1>1, <2>3
    <3>2. \A p \in Places, h \in Holder : Holds(c, p, h)' <=> p = "put" /\ h = w
      BY <1>2, <1>3, <1>9, <2>3, <1>1, <1>5, <1>12, <2>1 DEF Puts, WantOf, Holds
    <3>3. InOnePlace(c)' BY <1>2, <2>1, <3>2 DEF InOnePlace
    <3> QED BY <1>1, <1>9, <2>3, <3>3 DEF LruOnly
  <2>4. CASE c = d /\ Waiting(want, w)
    <3>1. put' = put BY <1>1, <1>13, <2>4
    <3>2. \A q \in Reqs : want'[WantOf(q)].pc = c <=> WantOf(q) = w
      BY <1>5, <1>9, <1>12, <2>4
    <3>3. \A q \in Reqs : WantOf(q) = w <=> q = w[1] BY <1>7, <2>4 DEF WantOf
    <3>4. \A p \in Places, h \in Holder : Holds(c, p, h)' <=> p = "want" /\ h = w[1]
      BY <1>1, <1>7, <1>9, <2>1, <2>4, <3>1, <3>2, <3>3 DEF Holds, Puts, WantOf
    <3>5. InOnePlace(c)' BY <1>7, <2>1, <3>4 DEF InOnePlace
    <3> QED BY <1>1, <1>9, <2>4, <3>5 DEF LruOnly
  <2> QED BY <2>2, <2>3, <2>4
<1>14. PlaceInv' BY <1>13 DEF PlaceInv
<1> QED BY <1>8, <1>10, <1>11, <1>14 DEF HolderInv

\* QueueForIdleConn keeps it: an idle connection passes to the request.
LEMMA QueueForIdleConnHolds ==
  ASSUME TypeOK, TypeOK', DialedInv, HolderInv, NEW r \in Reqs, QueueForIdleConn(r) PROVE HolderInv'
<1> DEFINE k == rt[r].key
           list == idle.conns[k]
           u == Usable(list)
           last == u[Len(u)]
           w == WantOf(r)
<1>1. /\ rt[r].at = "start" /\ UNCHANGED <<config, slots, conn, readLoop, put, closing, closes>>
      /\ \/ /\ Moves(r, "queueDial", rt[r].try, rt[r].conn) /\ UNCHANGED <<idle, want>>
         \/ /\ u # <<>> /\ last \in Range(list) /\ ~conn[last].closed
            /\ Moves(r, "got", rt[r].try, last) /\ want' = Deliver(want, {w}, last)
            /\ IF conn[last].alt
               THEN IdleAre(idle', [idle.conns EXCEPT ![k] = u], idle.lru, idle.wait)
               ELSE IdleAre(idle', [idle.conns EXCEPT ![k] = Front(u)], RemoveFirst(idle.lru, last), idle.wait)
         \/ /\ u = <<>> /\ want' = want
            /\ Moves(r, "queueDial", rt[r].try, rt[r].conn)
            /\ IdleAre(idle', [idle.conns EXCEPT ![k] = <<>>], idle.lru,
                       [idle.wait EXCEPT ![k] = Enqueue(idle.wait[k], w)])
  BY QueueForIdleConnEffect
<1>2. /\ \A q \in Reqs \ {r} : rt'[q] = rt[q]
      /\ rt'[r].try = rt[r].try /\ rt'[r].at \in {"queueDial", "got"}
      /\ rt[r].conn = None /\ w \in Wants /\ k \in Keys
      /\ rt[r].try \in Nat
  <2>1. /\ \A q \in Reqs \ {r} : rt'[q] = rt[q]
        /\ rt'[r].try = rt[r].try /\ rt'[r].at \in {"queueDial", "got"}
    BY <1>1 DEF Moves
  <2>2. rt[r].conn = None BY <1>1 DEF DialedInv, PointInv
  <2>3. rt[r].try \in 1..MaxTries /\ k \in Keys BY DEF TypeOK
  <2> QED BY <2>1, <2>2, <2>3 DEF WantOf, Wants
<1>3. idle.conns \in [Keys -> Seq(Conns)] /\ idle.wait \in [Keys -> Seq(Wants)] /\ idle.lru \in Seq(Conns)
  BY DEF TypeOK, IdleType, KeyQueue
<1>4. /\ Range(u) \subseteq Range(list) /\ \A c \in Range(list) \ Range(u) : conn[c].closed
      /\ IsInjective(u)
      /\ u # <<>> => /\ last \in Range(u) /\ Range(Front(u)) = Range(u) \ {last} /\ IsInjective(Front(u))
                     /\ last \in Conns
  BY <1>2, <1>3, RangeType, UsableFacts DEF HolderInv, ListInv
<1>5. Range(RemoveFirst(idle.lru, last)) = Range(idle.lru) \ {last} /\ IsInjective(RemoveFirst(idle.lru, last))
  BY <1>3, RemoveFirstFacts DEF HolderInv, ListInv
<1>6. Range(<<>>) = {} /\ IsInjective(<<>>) BY RangeOfEmpty
<1>7. want[w].pc = None BY <1>1, <1>2 DEF HolderInv, FreshWant, Early, WantOf
<1>8. ~(Awaited(w) /\ Waiting(want, w)) BY <1>1, <1>2 DEF HolderInv, CurrentInv, WantOf
<1>9. /\ \A v \in Wants : v # w => want'[v] = want[v]
      /\ \A v \in Wants : Waiting(want', v) => Waiting(want, v)
  <2>1. want \in WantType BY DEF TypeOK
  <2>2. CASE want' = want BY <2>2
  <2>3. CASE u # <<>> /\ want' = Deliver(want, {w}, last)
    <3>1. last \in Conns BY <1>4, <2>3
    <3> HIDE DEF last, w
    <3> QED BY <2>1, <2>3, <3>1, DeliverFacts
  <2> QED BY <1>1, <2>2, <2>3
<1>10. Settles BY <1>9 DEF Settles
<1>11. \A v \in Wants : Awaited(v)' => Awaited(v) \/ (v = w /\ rt'[r].at = "queueDial")
  <2>1. Range(Enqueue(idle.wait[k], w)) \subseteq Range(idle.wait[k]) \cup {w} BY <1>2, <1>3, EnqueueFacts
  <2>2. \/ idle'.wait = idle.wait
        \/ /\ idle'.wait = [idle.wait EXCEPT ![k] = Enqueue(idle.wait[k], w)]
           /\ rt'[r].at = "queueDial"
    BY <1>1 DEF IdleAre, Moves
  <2>3. \A j \in Keys : \A v \in Range(idle'.wait[j]) :
          v \in Range(idle.wait[j]) \/ (v = w /\ rt'[r].at = "queueDial")
    BY <1>2, <1>3, <2>1, <2>2
  <2> QED BY <1>1, <2>3 DEF Awaited
<1>12. CurrentInv'
  <2> SUFFICES ASSUME NEW v \in Wants, Awaited(v)', Waiting(want', v)
               PROVE  v[2] = rt'[v[1]].try /\ rt'[v[1]].at \in {"queueDial", "wait"}
    BY DEF CurrentInv, Waiting
  <2>1. CASE v = w /\ rt'[r].at = "queueDial" BY <2>1, <1>2 DEF WantOf
  <2>2. CASE Awaited(v)
    BY <1>10, <2>2, <1>1, <1>2 DEF Settles, HolderInv, CurrentInv, Wants
  <2> QED BY <1>11, <2>1, <2>2
<1>13. FreshWant'
  BY <1>2, <1>9 DEF FreshWant, Wants, Early, WantOf, HolderInv
<1>14. CallInv'
  <2>1. put[r].at = "none" BY <1>1, ConstantsAssumption DEF HolderInv, CallInv, TypeOK, Putters, PutPoints
  <2>2. put' = put /\ conn' = conn /\ readLoop' = readLoop BY <1>1
  <2> HIDE DEF k, list, u, last, w
  <2> QED BY <1>2, <2>1, <2>2 DEF HolderInv, CallInv
<1>15. ListInv'
  <2>1. CASE idle' = idle BY <1>1, <2>1 DEF HolderInv, ListInv
  <2>2. ASSUME NEW q \in {u, <<>>}, idle'.conns = [idle.conns EXCEPT ![k] = q], idle'.lru = idle.lru
        PROVE ListInv'
    <3>1. Range(q) \subseteq Range(list) /\ IsInjective(q) BY <1>4, <1>6, <2>2
    <3>2. \A j \in Keys : idle'.conns[j] = IF j = k THEN q ELSE idle.conns[j] BY <1>2, <1>3, <2>2
    <3> HIDE DEF u
    <3> QED BY <1>1, <2>2, <3>1, <3>2 DEF HolderInv, ListInv
  <2>3. ASSUME u # <<>>, idle'.conns = [idle.conns EXCEPT ![k] = Front(u)], idle'.lru = RemoveFirst(idle.lru, last)
        PROVE ListInv'
    <3>1. \A j \in Keys : idle'.conns[j] = IF j = k THEN Front(u) ELSE idle.conns[j] BY <1>2, <1>3, <2>3
    <3>2. last \in Range(list) /\ Range(Front(u)) \subseteq Range(list) \ {last} /\ IsInjective(Front(u))
      BY <1>4, <2>3
    <3> HIDE DEF u, last
    <3>3. \A j \in Keys : IsInjective(idle'.conns[j]) BY <3>1, <3>2 DEF HolderInv, ListInv
    <3>4. \A j \in Keys : Range(idle'.conns[j]) \subseteq Range(idle.conns[j]) \ {last}
      BY <1>2, <3>1, <3>2 DEF HolderInv, ListInv
    <3> QED BY <1>1, <1>5, <2>3, <3>3, <3>4, ListsShrink
  <2> QED BY <1>1, <2>1, <2>2, <2>3 DEF IdleAre
<1>16. \A q \in Reqs \ {r} : want'[WantOf(q)] = want[WantOf(q)]
  BY <1>9 DEF WantOf, Wants, TypeOK
<1>17. ASSUME NEW c \in Conns, ~conn[c].alt PROVE Moved(c) /\ LruOnly(c)'
  <2>0. /\ InOnePlace(c) /\ LruOnly(c) /\ c # None
        /\ r \in Holder /\ k \in Holder /\ "idle" \in Places /\ "request" \in Places
    BY <1>2, <1>17, ConstantsAssumption DEF HolderInv, PlaceInv, Holder, Putters, Places
  <2>1. CASE Moves(r, "queueDial", rt[r].try, rt[r].conn) /\ UNCHANGED <<idle, want>>
    <3>1. \A p \in Places, h \in Holder : Holds(c, p, h)' <=> Holds(c, p, h)
      BY <1>1, <1>2, <1>7, <2>0, <2>1 DEF Holds, Puts, WantOf, Moves
    <3>2. Tracked(c) BY <1>1, <3>1, Rests DEF Alive
    <3> QED BY <1>1, <2>0, <2>1, <3>2, LruKept DEF Tracked
  <2>2. CASE /\ u = <<>> /\ want' = want
             /\ Moves(r, "queueDial", rt[r].try, rt[r].conn)
             /\ idle'.conns = [idle.conns EXCEPT ![k] = <<>>] /\ idle'.lru = idle.lru
    <3>1. \A j \in Keys : Range(idle'.conns[j]) = IF j = k THEN {} ELSE Range(idle.conns[j])
      BY <1>2, <1>3, <1>6, <2>2
    <3>2. \A p \in Places, h \in Holder : Holds(c, p, h)' => Holds(c, p, h)
      BY <1>1, <1>2, <1>7, <2>0, <2>2, <3>1 DEF Holds, Puts, WantOf, Moves
    <3>3. CASE c \in Range(list)
      BY <1>4, <1>6, <2>2, <3>3, <1>1, <3>2, <2>0 DEF Moved, Leaves, Alive, LruOnly
    <3>4. CASE c \notin Range(list)
      <4>1. \A p \in Places, h \in Holder : Holds(c, p, h) => Holds(c, p, h)'
        BY <1>1, <1>2, <1>7, <2>0, <2>2, <3>1, <3>4 DEF Holds, Puts, WantOf, Moves
      <4>2. Alive(c)' => Alive(c) BY <1>1 DEF Alive
      <4>3. Stays(c) BY <3>2, <4>1, <4>2 DEF Stays
      <4>4. \A j \in Keys : c \in Range(idle.conns[j]) => c \in Range(idle'.conns[j])
        BY <3>1, <3>4
      <4>5. LruOnly(c)' BY <1>1, <2>0, <2>2, <3>2, <4>4 DEF LruOnly
      <4> QED BY <4>3, <4>5 DEF Moved
    <3> QED BY <3>3, <3>4
  <2>3. CASE /\ u # <<>> /\ last \in Range(list) /\ ~conn[last].closed
             /\ Moves(r, "got", rt[r].try, last)
             /\ IF conn[last].alt
                THEN IdleAre(idle', [idle.conns EXCEPT ![k] = u], idle.lru, idle.wait)
                ELSE IdleAre(idle', [idle.conns EXCEPT ![k] = Front(u)], RemoveFirst(idle.lru, last), idle.wait)
    <3>1. rt'[r].conn = last /\ rt'[r].at = "got" BY <2>3 DEF Moves
    <3>2. CASE c = last
      <4>1. /\ idle'.conns = [idle.conns EXCEPT ![k] = Front(u)] /\ idle'.lru = RemoveFirst(idle.lru, last)
        BY <1>17, <2>3, <3>2 DEF IdleAre
      <4>2. \A j \in Keys : Range(idle'.conns[j]) = IF j = k THEN Range(u) \ {last} ELSE Range(idle.conns[j])
        BY <1>2, <1>3, <1>4, <2>3, <4>1
      <4>3. c \in Range(idle.conns[k]) /\ Holds(c, "idle", k) BY <1>2, <2>3, <3>2 DEF Holds
      <4>4. \A p \in Places, h \in Holder : Holds(c, p, h) => p = "idle" /\ h = k BY <2>0, <4>3 DEF InOnePlace
      <4>5. \A p \in Places, h \in Holder :
              Holds(c, p, h)' /\ ~(p = "request" /\ h = r) => Holds(c, p, h) /\ ~(p = "idle" /\ h = k)
        <5> HIDE DEF u, last
        <5> QED BY <1>1, <1>2, <1>16, <3>1, <3>2, <4>2 DEF Holds, Puts, WantOf
      <4>6. Holds(c, "request", r)' BY <3>1, <3>2 DEF Holds
      <4>7. Appears(c, "request", r) BY <4>4, <4>5, <4>6 DEF Appears
      <4>8. c \notin Range(idle'.lru) BY <1>5, <3>2, <4>1
      <4> QED BY <2>0, <4>7, <4>8 DEF Moved, LruOnly
    <3>3. CASE c # last
      <4>1. /\ Range(idle'.lru) = Range(idle.lru) \/ Range(idle'.lru) = Range(idle.lru) \ {last}
            /\ \A j \in Keys : j # k => Range(idle'.conns[j]) = Range(idle.conns[j])
            /\ Range(idle'.conns[k]) = Range(u) \/ Range(idle'.conns[k]) = Range(u) \ {last}
        BY <1>2, <1>3, <1>4, <1>5, <2>3 DEF IdleAre
      <4>2. /\ c \in Range(idle'.lru) <=> c \in Range(idle.lru)
            /\ \A j \in Keys : j # k => (c \in Range(idle'.conns[j]) <=> c \in Range(idle.conns[j]))
            /\ c \in Range(idle'.conns[k]) => c \in Range(idle.conns[k])
            /\ c \in Range(idle.conns[k]) => c \in Range(idle'.conns[k]) \/ conn[c].closed
        BY <1>4, <3>3, <4>1
      <4> HIDE DEF u, last
      <4>3. \A p \in Places, h \in Holder : Holds(c, p, h)' => Holds(c, p, h)
        BY <1>1, <1>2, <1>16, <2>0, <3>1, <3>3, <4>2 DEF Holds, Puts, WantOf
      <4>4. CASE c \in Range(idle.conns[k]) /\ c \notin Range(idle'.conns[k])
        BY <1>1, <4>2, <4>3, <4>4, <2>0 DEF Leaves, Alive, LruOnly, Moved
      <4>5. CASE ~(c \in Range(idle.conns[k]) /\ c \notin Range(idle'.conns[k]))
        <5>1. \A p \in Places, h \in Holder : Holds(c, p, h) => Holds(c, p, h)'
          BY <1>1, <1>2, <1>7, <1>16, <2>0, <3>1, <3>3, <4>2, <4>5 DEF Holds, Puts, WantOf
        <5>2. Alive(c)' => Alive(c) BY <1>1 DEF Alive
        <5>3. Stays(c) BY <4>3, <5>1, <5>2 DEF Stays
        <5>4. LruOnly(c)' BY <1>1, <2>0, <4>2, <4>3, <4>5 DEF LruOnly
        <5> QED BY <5>3, <5>4 DEF Moved
      <4> QED BY <4>4, <4>5
    <3> QED BY <3>2, <3>3
  <2> QED BY <1>1, <2>1, <2>2, <2>3 DEF IdleAre
<1> QED BY <1>1, <1>12, <1>13, <1>14, <1>15, <1>17, ListsKept

\* What a list of one connection more, and perhaps of the oldest less, holds.
LEMMA AddedHolds ==
  ASSUME TypeOK, DialedInv, HolderInv, NEW c \in Dialed, NEW wn, c \notin Range(idle.lru),
         AddIdle(Emptied(conn[c].key), wn, c), Emptied(conn[c].key) \in IdleType
  PROVE  \E o \in Dialed \cup {None} :
           /\ IF o = None THEN UNCHANGED <<conn, slots>> ELSE Close(wn, o)
           /\ \A d \in Conns : /\ conn'[d].alt = conn[d].alt /\ conn'[d].key = conn[d].key
                               /\ conn'[d].closed = (conn[d].closed \/ d = o)
           /\ Range(idle'.lru) = (Range(idle.lru) \cup {c}) \ {o}
           /\ \A j \in Keys : Range(idle'.conns[j]) =
                (IF j = conn[c].key THEN Range(idle.conns[j]) \cup {c} ELSE Range(idle.conns[j])) \ {o}
           /\ idle'.wait = [idle.wait EXCEPT ![conn[c].key] = <<>>]
           /\ IsInjective(idle'.lru) /\ \A j \in Keys : IsInjective(idle'.conns[j])
<1> DEFINE k == conn[c].key
           e == Emptied(k)
<1>1. /\ e \in IdleType /\ e.conns = idle.conns /\ e.lru = idle.lru /\ e.wait = [idle.wait EXCEPT ![k] = <<>>]
      /\ KeyInv /\ k \in Keys /\ c \in Conns /\ Dialed \subseteq Conns /\ None \notin Conns
  BY ConstantsAssumption DEF Emptied, IdleType, TypeOK, DialedInv, KeyInv, Dialed
<1> HIDE DEF e
<1>2. PICK a \in IdleType : Added(e, wn, c, a) BY <1>1, AddIdleFacts DEF e
<1>3. /\ \A j \in Keys : c \notin Range(idle.conns[j]) /\ IsInjective(idle.conns[j])
      /\ \A j \in Keys : \A d \in Range(idle.conns[j]) : conn[d].key = j /\ d \in Range(idle.lru) /\ d \in Dialed
      /\ IsInjective(idle.lru) /\ Range(idle.lru) \subseteq Dialed
  BY DEF HolderInv, ListInv, DialedInv, PoolInv
<1>4. /\ Range(a.lru) = Range(idle.lru) \cup {c} /\ IsInjective(a.lru)
      /\ a.wait = [idle.wait EXCEPT ![k] = <<>>]
      /\ \A j \in Keys : /\ Range(a.conns[j]) = IF j = k THEN Range(idle.conns[j]) \cup {c} ELSE Range(idle.conns[j])
                         /\ IsInjective(a.conns[j])
      /\ \/ idle' = a /\ UNCHANGED <<conn, slots>>
         \/ \E o \in Range(a.lru) : idle' = RemoveIdle(a, o) /\ Close(wn, o)
  BY <1>1, <1>2, <1>3 DEF Added
<1>5. CASE idle' = a /\ UNCHANGED <<conn, slots>>
  <2>1. None \notin Range(idle.lru) \cup {c} /\ \A j \in Keys : None \notin Range(idle.conns[j]) BY <1>1, <1>3
  <2>2. \A d \in Conns : /\ conn'[d].alt = conn[d].alt /\ conn'[d].key = conn[d].key
                         /\ conn'[d].closed = (conn[d].closed \/ d = None)
    BY <1>1, <1>5 DEF TypeOK, ConnType
  <2>3. Range(idle'.lru) = (Range(idle.lru) \cup {c}) \ {None} BY <1>4, <1>5, <2>1
  <2>4. \A j \in Keys : Range(idle'.conns[j]) =
                (IF j = k THEN Range(idle.conns[j]) \cup {c} ELSE Range(idle.conns[j])) \ {None}
    BY <1>4, <1>5, <2>1
  <2> HIDE DEF k
  <2> WITNESS None \in Dialed \cup {None}
  <2> QED BY <1>4, <1>5, <2>2, <2>3, <2>4 DEF k
<1>6. CASE \E o \in Range(a.lru) : idle' = RemoveIdle(a, o) /\ Close(wn, o)
  <2>1. PICK o \in Range(a.lru) : idle' = RemoveIdle(a, o) /\ Close(wn, o) BY <1>6
  <2>2. o \in Dialed /\ o # None BY <1>1, <1>3, <1>4
  <2>3. /\ idle'.wait = a.wait
        /\ Range(idle'.lru) \subseteq Range(a.lru) /\ Range(a.lru) \ {o} \subseteq Range(idle'.lru)
        /\ IsInjective(idle'.lru) /\ o \notin Range(idle'.lru)
        /\ \A j \in Keys :
             /\ Range(idle'.conns[j]) \subseteq Range(a.conns[j])
             /\ Range(a.conns[j]) \ {o} \subseteq Range(idle'.conns[j])
             /\ IsInjective(idle'.conns[j])
             /\ conn[o].key = j => o \notin Range(idle'.conns[j])
    BY <1>1, <1>4, <2>1, <2>2, RemoveIdleFacts
  <2>4. ASSUME NEW j \in Keys, o \in Range(a.conns[j]) PROVE conn[o].key = j
    <3>1. CASE j = k
      <4>1. o \in Range(idle.conns[k]) \cup {c} BY <1>1, <1>4, <2>4, <3>1
      <4> QED BY <1>1, <1>3, <3>1, <4>1
    <3>2. CASE j # k BY <1>3, <1>4, <2>4, <3>2
    <3> QED BY <3>1, <3>2
  <2>5. \A d \in Conns : /\ conn'[d].alt = conn[d].alt /\ conn'[d].key = conn[d].key
                         /\ conn'[d].closed = (conn[d].closed \/ d = o)
    BY <1>1, <2>1, <2>2, CloseFacts
  <2>6. Range(idle'.lru) = (Range(idle.lru) \cup {c}) \ {o} BY <1>4, <2>3
  <2>7. \A j \in Keys : Range(idle'.conns[j]) = Range(a.conns[j]) \ {o} BY <2>3, <2>4
  <2>8. \A j \in Keys : Range(idle'.conns[j]) =
                (IF j = k THEN Range(idle.conns[j]) \cup {c} ELSE Range(idle.conns[j])) \ {o}
    BY <1>4, <2>7
  <2> HIDE DEF k
  <2> o \in Dialed \cup {None} BY <2>2
  <2> WITNESS o \in Dialed \cup {None}
  <2> QED BY <1>4, <2>1, <2>2, <2>3, <2>5, <2>6, <2>8 DEF k
<1> QED BY <1>4, <1>5, <1>6

\* What tryPutIdleConn does to the goroutine that calls it and to the wantConns.
Hands(p, c) ==
  /\ p \in Putters /\ c \in Dialed /\ put[p].at = "insert" /\ put[p].conn = c
  /\ UNCHANGED <<config, rt, closing, closes>>
  /\ \A q \in Putters \ {p} : put'[q] = put[q]
  /\ \/ put'[p].at = "none" /\ put'[p].conn = None
     \/ put'[p].at = "close" /\ put'[p].conn = c
  /\ \A d \in Conns : readLoop'[d] = IF d = p /\ put'[p].at = "none" THEN "peek" ELSE readLoop[d]
  /\ \A d \in Conns : /\ conn'[d].alt = conn[d].alt /\ conn'[d].key = conn[d].key
                      /\ conn[d].closed => conn'[d].closed
  /\ \A v \in Wants : \/ want'[v] = want[v]
                      \/ Awaited(v) /\ Waiting(want, v) /\ want'[v].pc = c /\ ~Waiting(want', v)

\* The parts of the invariant that do not look at the lists are kept.
LEMMA HandsKeep ==
  ASSUME TypeOK, DialedInv, HolderInv, NEW p, NEW c, Hands(p, c), Shrinks
  PROVE  CurrentInv' /\ FreshWant' /\ CallInv'
BY OthersKeep DEF Hands, Settles, Waiting, DialedInv, PointInv, UserInv, Dialed, Putters, HolderInv, CallInv

\* Any other connection stays with whom it is, the lists apart.
LEMMA HandsOthers ==
  ASSUME TypeOK, DialedInv, HolderInv, NEW p, NEW c, Hands(p, c), NEW d \in Conns, d # c
  PROVE  /\ \A q \in Places, h \in Holder : q # "idle" => (Holds(d, q, h)' <=> Holds(d, q, h))
         /\ Alive(d)' => Alive(d)
<1>1. d # None BY ConstantsAssumption
<1>2. \A h \in Putters : Puts(h, d)' <=> Puts(h, d) BY <1>1 DEF Hands, Puts
<1>3. \A q \in Reqs : WantOf(q) \in Wants /\ WantOf(q)' = WantOf(q) BY DEF WantOf, Wants, TypeOK, Hands
<1>4. \A v \in Wants : want'[v].pc = d <=> want[v].pc = d BY <1>1 DEF Hands, Waiting
<1>5. \A q \in Reqs : want'[WantOf(q)'].pc = d <=> want[WantOf(q)].pc = d BY <1>3, <1>4
<1>6. rt' = rt BY DEF Hands
<1>7. \A q \in Places, h \in Holder : q # "idle" => (Holds(d, q, h)' <=> Holds(d, q, h))
  BY <1>2, <1>5, <1>6 DEF Holds
<1>8. readLoop'[d] = readLoop[d]
  <2>1. d = p => put[d].conn = d BY DEF HolderInv, CallInv, Hands
  <2> QED BY <2>1 DEF Hands
<1> QED BY <1>7, <1>8 DEF Alive, Hands

\* The connection itself is with the goroutine, and in no list.
LEMMA HandsOwn ==
  ASSUME TypeOK, DialedInv, HolderInv, NEW p, NEW c, Hands(p, c), ~conn[c].alt
  PROVE  /\ InOnePlace(c) /\ LruOnly(c) /\ Holds(c, "put", p) /\ c \notin Range(idle.lru)
         /\ \A q \in Places, h \in Holder : Holds(c, q, h) => q = "put" /\ h = p
         /\ c \in Conns /\ c # None /\ p \in Holder /\ Places = {"request", "want", "put", "idle"}
BY ConstantsAssumption DEF Hands, Dialed, Holder, Places, HolderInv, PlaceInv, Holds, Puts, LruOnly, InOnePlace

\* PutInsert keeps it: the connection passes to a request that waits, or to the pool, or is refused.
LEMMA PutInsertHolds ==
  ASSUME TypeOK, DialedInv, HolderInv, NEW p \in Putters, PutInsert(p) PROVE HolderInv'
<1>0. /\ put[p].at = "insert" /\ put[p].conn \in Dialed /\ conn[put[p].conn].key \in Keys
      /\ UNCHANGED <<config, rt, closing, closes>>
  BY PutInsertEffect
<1>c. PICK c : c = put[p].conn OBVIOUS
<1>k. PICK k : k = conn[c].key OBVIOUS
<1>q. PICK q : q = idle.wait[k] OBVIOUS
<1>w. PICK w : w = q[FirstWaiting(want, q)] OBVIOUS
<1>e. \/ /\ conn[c].alt /\ c \in Range(idle.lru)
         /\ UNCHANGED <<idle, want, conn, slots>>
         /\ PutBecomes(p, "none", None)
         /\ readLoop' = IF p = c THEN [readLoop EXCEPT ![c] = "peek"] ELSE readLoop
      \/ /\ ~conn[c].alt /\ w \in Range(q) /\ w \in Wants /\ Waiting(want, w)
         /\ want' = Deliver(want, {w}, c)
         /\ IdleAre(idle', idle.conns, idle.lru, [idle.wait EXCEPT ![k] = PopWaiting(want, q)])
         /\ UNCHANGED <<conn, slots>>
         /\ PutBecomes(p, "none", None)
         /\ readLoop' = IF p = c THEN [readLoop EXCEPT ![c] = "peek"] ELSE readLoop
      \/ /\ ~conn[c].alt => \A v \in Range(q) : ~Waiting(want, v)
         /\ want' = Delivered(c)
         /\ IdleAre(idle', idle.conns, idle.lru, [idle.wait EXCEPT ![k] = <<>>])
         /\ UNCHANGED <<conn, slots, readLoop>>
         /\ PutBecomes(p, "close", c)
      \/ /\ conn[c].alt => c \notin Range(idle.lru)
         /\ ~conn[c].alt => \A v \in Range(q) : ~Waiting(want, v)
         /\ want' = Delivered(c)
         /\ Emptied(k) \in IdleType /\ AddIdle(Emptied(k), want', c)
         /\ PutBecomes(p, "none", None)
         /\ readLoop' = IF p = c THEN [readLoop EXCEPT ![c] = "peek"] ELSE readLoop
  BY ZenonT(60), <1>c, <1>k, <1>q, <1>w, PutInsertEffect
<1>1. /\ put[p].conn = c /\ conn[c].key = k /\ idle.wait[k] = q
      /\ put[p].at = "insert" /\ c \in Dialed /\ c \in Conns /\ k \in Keys /\ q \in Seq(Wants)
      /\ UNCHANGED <<config, rt, closing, closes>> /\ want \in WantType
      /\ idle.wait \in [Keys -> Seq(Wants)]
  BY <1>0, <1>c, <1>k, <1>q DEF Dialed, TypeOK, IdleType, KeyQueue
<1>2. /\ \A o \in Putters \ {p} : put'[o] = put[o]
      /\ \/ put'[p].at = "none" /\ put'[p].conn = None
         \/ put'[p].at = "close" /\ put'[p].conn = c
      /\ \A d \in Conns : readLoop'[d] = IF d = p /\ put'[p].at = "none" THEN "peek" ELSE readLoop[d]
  BY <1>e, <1>1 DEF HolderInv, CallInv, PutBecomes, TypeOK
<1>3. \A v \in Range(q) : Awaited(v) BY <1>1 DEF Awaited
<1>4. /\ \A v \in Wants : \/ want'[v] = want[v]
                          \/ v \in Range(q) /\ Waiting(want, v) /\ want'[v].pc = c /\ ~Waiting(want', v)
      /\ ~conn[c].alt /\ (\A v \in Range(q) : ~Waiting(want, v)) => \A v \in Wants : want'[v] = want[v]
  <2>1. \/ want' = want
        \/ want' = Delivered(c)
        \/ ~conn[c].alt /\ w \in Range(q) /\ Waiting(want, w) /\ want' = Deliver(want, {w}, c)
    BY <1>e
  <2>2. CASE want' = want BY <2>2
  <2>3. CASE want' = Delivered(c)
    BY <1>1, <2>3, DeliverFacts DEF Delivered
  <2>4. CASE ~conn[c].alt /\ w \in Range(q) /\ Waiting(want, w) /\ want' = Deliver(want, {w}, c)
    <3> QED BY <1>1, <2>4, DeliverFacts
  <2> QED BY <2>1, <2>2, <2>3, <2>4
<1>5. ASSUME \A d \in Conns : /\ conn'[d].alt = conn[d].alt /\ conn'[d].key = conn[d].key
                              /\ conn[d].closed => conn'[d].closed
      PROVE  Hands(p, c)
  BY <1>3, <1>4, <1>1, <1>2, <1>5 DEF Hands
<1>6. Range(<<>>) = {} BY RangeOfEmpty
<1>7. ASSUME idle'.conns = idle.conns, idle'.lru = idle.lru, UNCHANGED <<conn, slots>>,
             \A j \in Keys : Range(idle'.wait[j]) \subseteq Range(idle.wait[j]),
             ~conn[c].alt => Tracked(c)
      PROVE  HolderInv'
  BY <1>5, <1>7, SameShrinks, HandsKeep, HandsOthers, Rests, Kept DEF Holds
<1>8. CASE conn[c].alt /\ UNCHANGED <<idle, want, conn, slots>> BY <1>7, <1>8
<1>9. CASE /\ ~conn[c].alt /\ w \in Range(q) /\ w \in Wants /\ Waiting(want, w)
           /\ want' = Deliver(want, {w}, c)
           /\ IdleAre(idle', idle.conns, idle.lru, [idle.wait EXCEPT ![k] = PopWaiting(want, q)])
           /\ UNCHANGED <<conn, slots>>
           /\ PutBecomes(p, "none", None)
  <2>1. /\ idle'.conns = idle.conns /\ idle'.lru = idle.lru
        /\ idle'.wait = [idle.wait EXCEPT ![k] = PopWaiting(want, q)]
    BY <1>9 DEF IdleAre
  <2>2. Range(PopWaiting(want, q)) \subseteq Range(q) BY <1>1, PopWaitingFacts
  <2>3. \A j \in Keys : Range(idle'.wait[j]) \subseteq Range(idle.wait[j]) BY <1>1, <2>1, <2>2
  <2>4. Hands(p, c) BY <1>5, <1>9
  <2>5. /\ want'[w].pc = c /\ \A v \in Wants : v # w => want'[v] = want[v]
    <3> QED BY <1>1, <1>9, DeliverFacts
  <2>6. put'[p].at = "none" /\ put'[p].conn = None BY <1>9 DEF PutBecomes
  <2>7. w[2] = rt[w[1]].try /\ rt[w[1]].at \in {"queueDial", "wait"}
    BY <1>3, <1>9 DEF HolderInv, CurrentInv
  <2>8. w = WantOf(w[1]) /\ w[1] \in Reqs /\ w[1] \in Holder
    BY <1>9, <2>7 DEF Wants, WantOf, Holder, Putters
  <2>9. /\ InOnePlace(c) /\ Holds(c, "put", p) /\ c # None /\ p \in Holder
        /\ Places = {"request", "want", "put", "idle"}
        /\ \A o \in Places, h \in Holder : Holds(c, o, h) => o = "put" /\ h = p
    BY <1>9, <2>4, HandsOwn
  <2>10. Holds(c, "want", w[1])' BY <1>1, <2>5, <2>7, <2>8 DEF Holds, WantOf
  <2>11. \A h \in Reqs : h # w[1] => WantOf(h) # w BY <2>8 DEF WantOf
  <2>12. \A h \in Reqs : WantOf(h)' = WantOf(h) /\ WantOf(h) \in Wants BY <1>1 DEF WantOf, Wants, TypeOK
  <2>13. \A h \in Putters : Puts(h, c)' => Puts(h, c) /\ h # p BY <1>2, <2>6, <2>9 DEF Puts
  <2>14. \A o \in Places, h \in Holder :
           Holds(c, o, h)' /\ ~(o = "want" /\ h = w[1]) => Holds(c, o, h) /\ ~(o = "put" /\ h = p)
    BY <1>1, <2>1, <2>5, <2>11, <2>12, <2>13 DEF Holds
  <2>15. Tracked(c) BY <2>8, <2>9, <2>10, <2>14, Passes
  <2> QED BY <1>7, <1>9, <2>1, <2>3, <2>15
<1>10. CASE /\ ~conn[c].alt => \A v \in Range(q) : ~Waiting(want, v)
            /\ IdleAre(idle', idle.conns, idle.lru, [idle.wait EXCEPT ![k] = <<>>])
            /\ UNCHANGED <<conn, slots, readLoop>>
            /\ PutBecomes(p, "close", c)
  <2>1. /\ idle'.conns = idle.conns /\ idle'.lru = idle.lru
        /\ idle'.wait = [idle.wait EXCEPT ![k] = <<>>]
    BY <1>10 DEF IdleAre
  <2>2. \A j \in Keys : Range(idle'.wait[j]) \subseteq Range(idle.wait[j]) BY <1>1, <1>6, <2>1
  <2>3. Hands(p, c) BY <1>5, <1>10
  <2>4. ASSUME ~conn[c].alt PROVE Tracked(c)
    <3>1. \A v \in Wants : want'[v] = want[v] BY <1>4, <1>10, <2>4
    <3>2. put'[p].at = "close" /\ put'[p].conn = c BY <1>10 DEF PutBecomes
    <3>3. put[p].at = "insert" /\ put[p].conn = c BY <1>1
    <3>4. p \in Conns => p = c /\ readLoop[c] = "ending" BY <1>1 DEF HolderInv, CallInv
    <3>5. \A h \in Reqs : WantOf(h)' = WantOf(h) /\ WantOf(h) \in Wants BY <1>1 DEF WantOf, Wants, TypeOK
    <3>6. \A h \in Putters : Puts(h, c)' => Puts(h, c) BY <1>2, <3>3 DEF Puts
    <3>7. \A o \in Places, h \in Holder : Holds(c, o, h)' => Holds(c, o, h)
      BY <1>1, <2>1, <3>1, <3>5, <3>6 DEF Holds
    <3>8. CASE p = c BY <1>1, <1>10, <3>4, <3>7, <3>8, Drops DEF Alive
    <3>9. CASE p # c
      <4>1. \A h \in Putters : Puts(h, c) => Puts(h, c)' BY <1>2, <3>2, <3>9 DEF Puts
      <4>2. \A o \in Places, h \in Holder : Holds(c, o, h) => Holds(c, o, h)'
        BY <1>1, <2>1, <3>1, <3>5, <4>1 DEF Holds
      <4> QED BY <1>1, <1>10, <3>7, <4>2, Rests DEF Alive
    <3> QED BY <3>8, <3>9
  <2> QED BY <1>7, <1>10, <2>1, <2>2, <2>4
<1>11. CASE /\ conn[c].alt => c \notin Range(idle.lru)
            /\ ~conn[c].alt => \A v \in Range(q) : ~Waiting(want, v)
            /\ Emptied(k) \in IdleType /\ AddIdle(Emptied(k), want', c)
            /\ PutBecomes(p, "none", None)
  <2>1. c \notin Range(idle.lru)
    BY <1>1, <1>11 DEF HolderInv, PlaceInv, Places, Holder, Holds, Puts, LruOnly
  <2>0. Emptied(conn[c].key) \in IdleType /\ AddIdle(Emptied(conn[c].key), want', c) BY <1>1, <1>11
  <2>2. PICK o \in Dialed \cup {None} :
           /\ IF o = None THEN UNCHANGED <<conn, slots>> ELSE Close(want', o)
           /\ \A d \in Conns : /\ conn'[d].alt = conn[d].alt /\ conn'[d].key = conn[d].key
                               /\ conn'[d].closed = (conn[d].closed \/ d = o)
           /\ Range(idle'.lru) = (Range(idle.lru) \cup {c}) \ {o}
           /\ \A j \in Keys : Range(idle'.conns[j]) =
                (IF j = conn[c].key THEN Range(idle.conns[j]) \cup {c} ELSE Range(idle.conns[j])) \ {o}
           /\ idle'.wait = [idle.wait EXCEPT ![conn[c].key] = <<>>]
           /\ IsInjective(idle'.lru) /\ \A j \in Keys : IsInjective(idle'.conns[j])
    <3>1. c \in Dialed BY <1>1
    <3> QED BY <2>0, <2>1, <3>1, AddedHolds
  <2>o. \A j \in Keys : Range(idle'.conns[j]) =
          (IF j = k THEN Range(idle.conns[j]) \cup {c} ELSE Range(idle.conns[j])) \ {o}
    <3>1. conn[c].key = k BY <1>1
    <3> QED BY <2>2, <3>1
  <2>3. \A j \in Keys : Range(idle'.wait[j]) \subseteq Range(idle.wait[j]) BY <1>1, <1>6, <2>2
  <2>4. Hands(p, c) BY <1>5, <2>2
  <2>5. Shrinks BY <2>2, <2>3, SameShrinks, CloseShrinks
  <2>6. CurrentInv' /\ FreshWant' /\ CallInv' BY <2>4, <2>5, HandsKeep
  <2>7. /\ \A j \in Keys : c \notin Range(idle.conns[j])
        /\ \A j \in Keys : \A d \in Range(idle.conns[j]) : conn[d].key = j /\ d \in Range(idle.lru) /\ d \in Conns
    BY <1>1, <2>1 DEF HolderInv, ListInv, DialedInv, PoolInv, Dialed
  <2>8. ListInv'
    <3>1. ASSUME NEW j \in Keys, NEW d \in Range(idle'.conns[j])
          PROVE conn'[d].key = j /\ d \in Range(idle'.lru)
      <4>1. d # o /\ (d \in Range(idle.conns[j]) \/ (d = c /\ j = k)) BY <2>o, <3>1
      <4> QED BY <1>1, <2>2, <2>7, <4>1
    <3> QED BY <2>2, <3>1 DEF ListInv
  <2>9. ASSUME NEW d \in Conns, ~conn[d].alt PROVE Moved(d) /\ LruOnly(d)'
    <3>1. InOnePlace(d) /\ LruOnly(d) /\ "idle" \in Places /\ k \in Holder
      BY <1>1, <2>9 DEF HolderInv, PlaceInv, Places, Holder
    <3>2. CASE d # c
      <4>1. /\ \A i \in Places, h \in Holder : i # "idle" => (Holds(d, i, h)' <=> Holds(d, i, h))
            /\ Alive(d)' => Alive(d)
        BY <2>4, <3>2, HandsOthers
      <4>2. CASE d = o
        <5>1. /\ \A h \in Keys : d \notin Range(idle'.conns[h])
              /\ d \notin Range(idle'.lru)
          BY <2>2, <4>2
        <5>2. \A i \in Places, h \in Holder : Holds(d, i, h)' => Holds(d, i, h) BY <4>1, <5>1 DEF Holds
        <5>3. ~Alive(d)' BY <2>2, <4>2 DEF Alive
        <5> QED BY <5>1, <5>2, <5>3 DEF Moved, Leaves, LruOnly
      <4>3. CASE d # o
        <5>1. /\ \A h \in Keys : d \in Range(idle'.conns[h]) <=> d \in Range(idle.conns[h])
              /\ d \in Range(idle'.lru) <=> d \in Range(idle.lru)
          BY <2>2, <3>2, <4>3
        <5>2. \A h \in Holder : Holds(d, "idle", h)' <=> Holds(d, "idle", h) BY <5>1 DEF Holds
        <5>3. \A i \in Places, h \in Holder : Holds(d, i, h)' <=> Holds(d, i, h) BY <4>1, <5>2
        <5>4. Stays(d) BY <4>1, <5>3 DEF Stays
        <5>5. LruOnly(d)' BY <2>2, <3>1, <5>1, <5>3 DEF LruOnly
        <5> QED BY <5>4, <5>5 DEF Moved
      <4> QED BY <4>2, <4>3
    <3>3. CASE d = c
      <4>1. /\ Places = {"request", "want", "put", "idle"} /\ c # None
            /\ \A i \in Places, h \in Holder : Holds(c, i, h) => i = "put" /\ h = p
        BY <2>4, <2>9, <3>3, HandsOwn
      <4>2. \A v \in Wants : want'[v] = want[v] BY <1>4, <1>11, <2>9, <3>3
      <4>3. put'[p].at = "none" /\ put'[p].conn = None BY <1>11 DEF PutBecomes
      <4>4. \A h \in Reqs : WantOf(h)' = WantOf(h) /\ WantOf(h) \in Wants BY <1>1 DEF WantOf, Wants, TypeOK
      <4>5. \A h \in Putters : Puts(h, c)' => Puts(h, c) /\ h # p BY <1>2, <4>1, <4>3 DEF Puts
      <4>6. \A i \in Places, h \in Holder : i # "idle" => ~Holds(c, i, h)'
        BY <1>1, <4>2, <4>4, <4>5, <4>1 DEF Holds
      <4>7. CASE c = o
        <5>1. (\A h \in Keys : c \notin Range(idle'.conns[h])) /\ c \notin Range(idle'.lru) BY <2>2, <4>7
        <5>2. \A i \in Places, h \in Holder : ~Holds(c, i, h)' BY <4>6, <5>1 DEF Holds
        <5>3. ~Alive(c)' BY <1>1, <2>2, <4>7 DEF Alive
        <5> QED BY <3>3, <5>1, <5>2, <5>3 DEF Moved, Leaves, LruOnly
      <4>8. CASE c # o
        <5>0. c \in Range(idle'.lru) BY <2>2, <4>8
        <5>1. \A h \in Keys : c \in Range(idle'.conns[h]) <=> h = k BY <2>o, <2>7, <4>8
        <5>2. Holds(c, "idle", k)' BY <1>1, <5>1 DEF Holds
        <5>3. \A i \in Places, h \in Holder : Holds(c, i, h)' => i = "idle" /\ h = k
          BY <4>6, <5>1 DEF Holds
        <5>4. Appears(c, "idle", k) BY <5>2, <5>3 DEF Appears
        <5>5. LruOnly(c)' BY <1>1, <5>0, <5>1, <5>3 DEF LruOnly
        <5> QED BY <3>1, <3>3, <5>4, <5>5 DEF Moved
      <4> QED BY <4>7, <4>8
    <3> QED BY <3>2, <3>3
  <2> QED BY <2>2, <2>6, <2>8, <2>9, ListsKept
<1> QED BY <1>8, <1>9, <1>10, <1>11, <1>e

\* Every step keeps the invariant.
LEMMA StepHolds == TypeOK /\ TypeOK' /\ DialedInv /\ HolderInv /\ [Next]_vars => HolderInv'
<1> SUFFICES ASSUME TypeOK, TypeOK', DialedInv, HolderInv, [Next]_vars PROVE HolderInv' OBVIOUS
<1>1. CASE UNCHANGED vars
  BY <1>1, OthersKeep, Rests, Kept DEF vars, Shrinks, Settles, Awaited, HolderInv, CallInv, Holds, Puts, WantOf,
     Alive
<1>2. CASE Next
  <2>1. ASSUME NEW r \in Reqs, RequestStep(r) PROVE HolderInv'
    BY <2>1, QueueForIdleConnHolds, QueueForDialHolds, ReadyHolds, EnterRoundTripHolds, RequestFailsHolds,
       HTTP2ReturnsHolds, RemoveNoCachedHolds, DecNoCachedHolds DEF RequestStep
  <2>2. ASSUME NEW r \in Reqs, Answered(r) \/ Cancelled(r) \/ GiveUp(r) \/ ClosedInUse(r) PROVE HolderInv'
    BY <2>2, AnsweredHolds, CancelledHolds, GiveUpHolds, ClosedInUseHolds
  <2>3. ASSUME NEW p \in Putters, PutStep(p) PROVE HolderInv'
    BY <2>3, PutCheckHolds, PutInsertHolds, PutCloseHolds DEF PutStep
  <2>4. ASSUME NEW w \in Wants, DialStep(w) PROVE HolderInv'
    BY <2>4, DialSucceedsHolds, DialFailsHolds, DialDecHolds DEF DialStep
  <2>5. ASSUME NEW c \in Conns,
               ReadFails(c) \/ ReadLoopRemoves(c) \/ CloseConnIfStillIdle(c) \/ CloseTaken(c)
        PROVE HolderInv'
    BY <2>5, ReadFailsHolds, ReadLoopRemovesHolds, CloseConnIfStillIdleHolds, CloseTakenHolds
  <2>6. Finished => HolderInv' BY <1>1 DEF Finished
  <2> QED BY <1>2, <2>1, <2>2, <2>3, <2>4, <2>5, <2>6, CloseIdleConnectionsHolds DEF Next
<1> QED BY <1>1, <1>2

\* Initially no connection is anywhere.
LEMMA InitHolds == Init => HolderInv
<1> SUFFICES ASSUME Init PROVE HolderInv OBVIOUS
<1>1. /\ \A k \in Keys : idle.conns[k] = <<>> /\ idle.wait[k] = <<>> /\ slots.wait[k] = <<>>
      /\ idle.lru = <<>> /\ slots.dialing = {}
      /\ \A w \in Wants : want[w].pc = None
      /\ \A r \in Reqs : rt[r].conn = None /\ rt[r].at \in {"start", "done"}
      /\ \A c \in Conns : readLoop[c] = "none"
      /\ \A p \in Putters : put[p].conn = None /\ put[p].at = "none"
  BY DEF Init, NoPut
<1>2. Range(<<>>) = {} /\ IsInjective(<<>>) BY RangeOfEmpty
<1>3. CurrentInv /\ FreshWant BY <1>1, <1>2 DEF CurrentInv, FreshWant, Awaited
<1>4. CallInv BY <1>1 DEF CallInv, Putters
<1>5. ListInv BY <1>1, <1>2 DEF ListInv
<1>6. PlaceInv
  <2>1. ASSUME NEW c \in Conns, NEW p \in Places, NEW h \in Holder PROVE ~Holds(c, p, h)
    <3>1. c # None BY ConstantsAssumption
    <3> QED BY <1>1, <1>2, <3>1 DEF Holds, Puts
  <2>2. \A c \in Conns : InOnePlace(c) BY <1>1, <2>1 DEF InOnePlace, Alive
  <2>3. \A c \in Conns : LruOnly(c) BY <1>1, <1>2 DEF LruOnly
  <2> QED BY <2>2, <2>3 DEF PlaceInv
<1> QED BY <1>3, <1>4, <1>5, <1>6 DEF HolderInv

\* The invariant implies the property.
LEMMA HoldersMean == TypeOK /\ HolderInv => OneHolder
<1> SUFFICES ASSUME TypeOK, HolderInv, NEW c \in Conns, ~conn[c].alt
             PROVE  /\ Holders(c) <= 1
                    /\ Alive(c) => Holders(c) = 1
  BY DEF OneHolder, Alive
<1> DEFINE R == {r \in Reqs : rt[r].conn = c}
           W == {r \in Reqs : rt[r].at \in {"queueDial", "wait"} /\ want[WantOf(r)].pc = c}
           P == {p \in Putters : Puts(p, c)}
           l == IF Listed(c) THEN 1 ELSE 0
<1>1. /\ InOnePlace(c) /\ Places = {"request", "want", "put", "idle"}
      /\ Reqs \subseteq Holder /\ Putters \subseteq Holder
      /\ Keys \subseteq Holder
  BY DEF HolderInv, PlaceInv, Places, Holder, Putters
<1>2. Holders(c) = Cardinality(R) + Cardinality(W) + Cardinality(P) + l BY DEF Holders
<1>3. Listed(c) <=> \E k \in Keys : c \in Range(idle.conns[k])
  BY ContainsIsInRange DEF TypeOK, IdleType, KeyQueue, Listed
<1>4. /\ \A h : h \in R <=> h \in Holder /\ Holds(c, "request", h)
      /\ \A h : h \in W <=> h \in Holder /\ Holds(c, "want", h)
      /\ \A h : h \in P <=> h \in Holder /\ Holds(c, "put", h)
      /\ Listed(c) <=> \E h \in Holder : Holds(c, "idle", h)
  BY <1>1, <1>3 DEF Holds
<1> HIDE DEF R, W, P
<1>5. Cardinality({}) = 0 /\ \A h : Cardinality({h}) = 1 BY FS_EmptySet, FS_Singleton
<1>6. CASE \A p \in Places, h \in Holder : ~Holds(c, p, h)
  BY <1>1, <1>4, <1>6, <1>2, <1>5 DEF InOnePlace
<1>7. ASSUME NEW q \in Places, NEW g \in Holder, Holds(c, q, g) PROVE Holders(c) = 1
  <2>1. \A p \in Places, h \in Holder : Holds(c, p, h) <=> p = q /\ h = g BY <1>1, <1>7 DEF InOnePlace
  <2>2. /\ R = IF q = "request" THEN {g} ELSE {}
        /\ W = IF q = "want" THEN {g} ELSE {}
        /\ P = IF q = "put" THEN {g} ELSE {}
        /\ Listed(c) <=> q = "idle"
    BY <1>1, <1>4, <2>1
  <2>3. q \in {"request", "want", "put", "idle"} BY <1>1
  <2> QED BY <1>2, <1>5, <2>2, <2>3
<1> QED BY <1>6, <1>7

\* An HTTP/1 connection is with one request, on its way to one, on its way back, or in the
\* pool, and never in two of these; and one that lives and is not about to be closed is in one:
\* no cancellation, late dial or refused put loses it or gives it to two requests.
THEOREM ConnectionsHaveOneHolder == Spec => []OneHolder
BY InitTyped, InitHolds, StepTyped, StepHolds, HoldersMean, PTL DEF Spec
=============================================================================
