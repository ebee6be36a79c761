--------------------------- MODULE LRUSessionCache ---------------------------
(***************************************************************************)
(* The client's session cache (lruSessionCache, tls/common.go): a map from *)
(* keys to elements of a doubly linked list, and the list of those         *)
(* elements ordered from the most to the least recently used.  Each        *)
(* element carries its own key and state; a full cache recycles the last   *)
(* element for a new key.  Put and Get run under the cache's mutex.        *)
(***************************************************************************)
EXTENDS Integers, Sequences, FiniteSets

CONSTANTS
  Keys,      \* session keys (server names)
  States,    \* *ClientSessionState values
  Nil,       \* the zero of both
  Capacity   \* NewLRUClientSessionCache's capacity, its default applied

ASSUME CacheAssumption ==
  /\ Nil \notin Keys /\ Nil \notin States /\ IsFiniteSet(Keys)
  /\ Capacity \in Nat \ {0}

VARIABLES
  m,      \* map from keys to element numbers, 0 where there is none
  q,      \* the list: element numbers, the most recently used first
  entry,  \* what each element holds: sessionKey and state
  got     \* the key and the result of the last Get

cacheVars == <<m, q, entry, got>>

Elements == 1..Capacity
NoEntry  == [sessionKey |-> Nil, state |-> Nil]

CacheInit ==
  /\ m = [k \in Keys |-> 0]
  /\ q = <<>>
  /\ entry = [e \in Elements |-> NoEntry]
  /\ got = NoEntry

\* (*list.List).MoveToFront of the element e: those before it move back by one.
MoveToFront(e) ==
  [j \in 1..Len(q) |->
     IF j = 1 THEN e ELSE IF \E i \in j..Len(q) : q[i] = e THEN q[j - 1] ELSE q[j]]

\* No element is ever given up: the next one to be allocated.
Fresh == Len(q) + 1
Back  == q[Len(q)]

\* The key of Put is in the map.
Replace(k, s) ==
  /\ m[k] # 0
  /\ entry' = [entry EXCEPT ![m[k]].state = s]
  /\ q' = MoveToFront(m[k])
  /\ UNCHANGED <<m, got>>

\* There is room for another element.
Insert(k, s) ==
  /\ m[k] = 0 /\ Len(q) < Capacity
  /\ entry' = [entry EXCEPT ![Fresh] = [sessionKey |-> k, state |-> s]]
  /\ q' = <<Fresh>> \o q
  /\ m' = [m EXCEPT ![k] = Fresh]
  /\ UNCHANGED got

\* The cache is full: the last element is taken out of the map, and put back
\* under the new key.  The mutant leaves the old key in the map.
Evict_KeepsInMap(k, s) ==
  /\ m[k] = 0 /\ Len(q) >= Capacity
  /\ entry' = [entry EXCEPT ![Back] = [sessionKey |-> k, state |-> s]]
  /\ q' = MoveToFront(Back)
  /\ m' = [m EXCEPT ![k] = Back]
  /\ UNCHANGED got
Evict(k, s) ==
  /\ m[k] = 0 /\ Len(q) >= Capacity
  /\ entry' = [entry EXCEPT ![Back] = [sessionKey |-> k, state |-> s]]
  /\ q' = MoveToFront(Back)
  /\ m' = [m EXCEPT ![entry[Back].sessionKey] = 0, ![k] = Back]
  /\ UNCHANGED got

Put(k, s) == Replace(k, s) \/ Insert(k, s) \/ Evict(k, s)

\* A Get that finds its key makes it the most recently used one.  The mutant forgets to.
Get_NoTouch(k) ==
  /\ got' = [sessionKey |-> k, state |-> IF m[k] = 0 THEN Nil ELSE entry[m[k]].state]
  /\ UNCHANGED <<m, q, entry>>
Get(k) ==
  /\ got' = [sessionKey |-> k, state |-> IF m[k] = 0 THEN Nil ELSE entry[m[k]].state]
  /\ q' = IF m[k] = 0 THEN q ELSE MoveToFront(m[k])
  /\ UNCHANGED <<m, entry>>

CacheNext == \E k \in Keys : Get(k) \/ \E s \in States : Put(k, s)

CacheSpec == CacheInit /\ [][CacheNext]_cacheVars

-----------------------------------------------------------------------------
(* Properties.                                                             *)

CacheTypeOK ==
  /\ m \in [Keys -> 0..Capacity]
  /\ q \in Seq(Elements)
  /\ entry \in [Elements -> [sessionKey : Keys \cup {Nil}, state : States \cup {Nil}]]
  /\ got \in [sessionKey : Keys \cup {Nil}, state : States \cup {Nil}]

\* The map and the list agree: the elements of the list are distinct, they are
\* those of the map, and each one carries the key that leads to it.
Linked ==
  /\ \A i, j \in 1..Len(q) : q[i] = q[j] => i = j
  /\ \A i \in 1..Len(q) : entry[q[i]].sessionKey \in Keys /\ m[entry[q[i]].sessionKey] = q[i]
  /\ \A k \in Keys : m[k] # 0 => \E i \in 1..Len(q) : q[i] = m[k] /\ entry[q[i]].sessionKey = k

\* What the cache means, for the abstract specification: the keys in the order of
\* their last use, and the state under each.
UsedKeys == [i \in 1..Len(q) |-> entry[q[i]].sessionKey]
Contents == [k \in Keys |-> IF m[k] = 0 THEN Nil ELSE entry[m[k]].state]

LRU == INSTANCE LRUMap WITH order <- UsedKeys, contents <- Contents

\* The linked structure implements a map that forgets the least recently used key.
ImplementsLRU == LRU!Spec
=============================================================================
